----------------------------- MODULE KernelProofs -----------------------------
(***************************************************************************)
(* The safety of the kernel's waits, for any set of threads, semaphores,   *)
(* flags, bits and programs and any bounds.  One inductive invariant,      *)
(* KInv, ties a thread's status to where it is parked, and the wait list   *)
(* of an object to the threads parked on it; the properties follow.        *)
(***************************************************************************)
EXTENDS Kernel, RunQueueProofs, FiniteSetTheorems

-----------------------------------------------------------------------------
(* The inductive invariant *)

Places == {"run", "sleep", "sema", "event", "suspended", "join", "gone"}

\* Semaphores and flags, with the counters of waiters left as integers.
SemaRecs == [state : {"unused", "live", "deleted"}, count : Int, maxCount : Int,
             waiters : Int, waitList : Seq(Threads)]
FlagRecs == [state : {"unused", "live", "deleted"}, multi : BOOLEAN, bits : SUBSET EventBits,
             waiters : Int, waitList : Seq(Threads)]

KTypes ==
    /\ info \in [Threads -> Infos]
    /\ pc \in [Threads -> Places]
    /\ on \in [Threads -> Threads \cup Semas \cup Flags \cup {Nothing}]
    /\ parked \in SUBSET Threads
    /\ ret \in [Threads -> Results]
    /\ sema \in [Semas -> SemaRecs]
    /\ polling \in [Workers -> Semas \cup {Nothing}]
    /\ flag \in [Flags -> FlagRecs]
    /\ want \in [Threads -> Waits \cup {NoWant}]

\* One thread by itself: its ThreadInfo i agrees with the call p it is in and
\* with whether it is parked, k.
LocalOK(i, p, k) ==
    /\ i.suspendCount > 0 /\ ~i.terminated => k
    /\ i.terminated /\ k => i.suspendCount > 0
    /\ i.status = "THS_DORMANT" <=> p = "gone"
    /\ p = "gone" => ~k /\ i = Dormant
    /\ p = "sleep" /\ ~i.terminated =>
          /\ i.waitType \in {"TSW_SLEEP", "TSW_NONE"}
          /\ k /\ i.suspendCount = 0 =>
                /\ i.status = "THS_WAIT" /\ i.waitType = "TSW_SLEEP" /\ i.wakeupCount = 0
                /\ ~i.forceRelease
          /\ k /\ i.suspendCount > 0 =>
                i.status = IF i.waitType = "TSW_SLEEP" THEN "THS_WAITSUSPEND" ELSE "THS_SUSPEND"
    /\ p \in {"sema", "event"} /\ ~i.terminated =>
          IF i.forceRelease
          THEN /\ i.waitType = "TSW_NONE"
               /\ k => i.suspendCount > 0 /\ i.status = "THS_SUSPEND"
          ELSE /\ i.waitType = IF p = "sema" THEN "TSW_SEMA" ELSE "TSW_EVENT"
               /\ i.status = IF i.suspendCount > 0 THEN "THS_WAITSUSPEND" ELSE "THS_WAIT"

ThreadInv == \A t \in Threads : LocalOK(info[t], pc[t], t \in parked)

\* A thread that only a wake can bring back.
Stuck(t) == t \in parked /\ info[t].suspendCount = 0

\* The object of a blocking call.
ObjectInv ==
    \A t \in Threads :
        /\ pc[t] = "sleep" => on[t] = Nothing
        /\ pc[t] = "sema" =>
              /\ on[t] \in Semas
              /\ ret[t] = "none"
              /\ sema[on[t]].state # "unused"
              /\ Stuck(t) => InRunQueue(sema[on[t]].waitList, t)
        /\ pc[t] = "event" =>
              /\ on[t] \in Flags
              /\ flag[on[t]].state # "unused"
              /\ Stuck(t) => /\ InRunQueue(flag[on[t]].waitList, t)
                             /\ ~Matches(flag[on[t]].bits, want[t])

\* One semaphore: its list holds threads that wait for it, once each.
SemaOK(s) ==
    /\ NoDuplicates(sema[s].waitList)
    /\ \A t \in Threads : InRunQueue(sema[s].waitList, t) => pc[t] = "sema" /\ on[t] = s
    /\ sema[s].state # "live" => sema[s].waitList = <<>>
    /\ IF sema[s].state = "unused" THEN sema[s].count = 0 /\ sema[s].maxCount = 0
       ELSE 0 <= sema[s].count /\ sema[s].count <= sema[s].maxCount /\ 1 <= sema[s].maxCount

SemaInv == \A s \in Semas : SemaOK(s)

FlagInv == \A e \in Flags : flag[e].state # "live" => flag[e].waitList = <<>>

\* Nobody is forced out of a wait in a program without terminate and release.
Gentle == ops \cap {"terminate", "release"} = {}

ForceInv == Gentle => \A t \in Threads : ~info[t].terminated /\ ~info[t].forceRelease

\* Threads that have left the list and have yet to look at the count.
Off(s) == {t \in Threads : pc[t] = "sema" /\ on[t] = s /\ ~InRunQueue(sema[s].waitList, t)}

PermitOK(s) ==
    Gentle /\ sema[s].state = "live" /\ sema[s].waitList # <<>>
        => sema[s].count <= Cardinality(Off(s))

PermitInv == \A s \in Semas : PermitOK(s)

KInv == KTypes /\ ThreadInv /\ ObjectInv /\ SemaInv /\ FlagInv /\ ForceInv /\ PermitInv

\* The assumptions on the constants that the steps use.
LEMMA Constants ==
    /\ MaxWakeups \in Nat /\ MaxSuspends \in Nat /\ IsFiniteSet(Threads)
    /\ Nothing \notin Threads /\ Nothing \notin Semas /\ Nothing \notin Flags
    /\ Semas \subseteq Nat /\ Semas \cap Threads = {}
    /\ Flags \subseteq Nat /\ Flags \cap Threads = {} /\ Semas \cap Flags = {}
    /\ Observed \in Semas /\ MaxPermits \in Nat \ {0}
  BY ThreadInfoAssumption, SemaphoreAssumption, EventFlagAssumption, KernelAssumption

-----------------------------------------------------------------------------
(* Wait lists *)

\* publishWaiter adds the thread at the end.
LEMMA PublishKeeps ==
    ASSUME NEW list \in Seq(Threads), NEW t \in Threads
    PROVE  /\ publishWaiter(list, t) \in Seq(Threads)
           /\ publishWaiter(list, t) # <<>>
           /\ \A u : InRunQueue(publishWaiter(list, t), u) <=> InRunQueue(list, u) \/ u = t
           /\ NoDuplicates(list) /\ ~InRunQueue(list, t) => NoDuplicates(publishWaiter(list, t))
<1> DEFINE p == publishWaiter(list, t)
<1>1. /\ p \in Seq(Threads) /\ Len(p) = Len(list) + 1 /\ p[Len(list) + 1] = t
      /\ \A k \in 1..Len(list) : p[k] = list[k]
      /\ Len(list) \in Nat
  BY DEF publishWaiter
<1>. HIDE DEF p
<1>2. \A u : InRunQueue(p, u) <=> InRunQueue(list, u) \/ u = t
  BY <1>1 DEF InRunQueue
<1>3. NoDuplicates(list) /\ ~InRunQueue(list, t) => NoDuplicates(p)
  BY <1>1 DEF NoDuplicates, InRunQueue
<1>4. p # <<>>
  BY <1>1
<1>. QED  BY <1>1, <1>2, <1>3, <1>4 DEF p

\* unpublishWaiter takes nobody else off.
LEMMA UnpublishOthers ==
    ASSUME NEW list \in Seq(Threads), NEW t \in Threads
    PROVE  /\ unpublishWaiter(list, t) \in Seq(Threads)
           /\ list = <<>> => unpublishWaiter(list, t) = <<>>
           /\ \A u : u # t /\ InRunQueue(list, u) => InRunQueue(unpublishWaiter(list, t), u)
<1>1. CASE ~Contains(list, t)
  BY <1>1 DEF unpublishWaiter
<1>2. CASE Contains(list, t)
  <2> DEFINE at == {k \in 1..Len(list) : list[k] = t}
             k == Min(at)
             e == RemoveAt(list, k)
  <2>1. at \in SUBSET Nat /\ at # {}
    BY <1>2 DEF Contains
  <2>2. k \in at
    BY <2>1, MinPosition
  <2>3. k \in 1..Len(list) /\ list[k] = t
    BY <2>2
  <2>. HIDE DEF k
  <2>4. /\ e \in Seq(Threads) /\ Len(e) = Len(list) - 1
        /\ \A j \in 1..Len(list) - 1 : e[j] = IF j < k THEN list[j] ELSE list[j + 1]
    BY <2>3, RemoveAtPointwise
  <2>5. unpublishWaiter(list, t) = e
    BY <1>2 DEF unpublishWaiter, k
  <2>. HIDE DEF e
  <2>6. ASSUME NEW u, u # t, InRunQueue(list, u) PROVE InRunQueue(e, u)
    <3>1. PICK j \in 1..Len(list) : list[j] = u
      BY <2>6 DEF InRunQueue
    <3>2. CASE j < k
      <4>1. j \in 1..Len(list) - 1 /\ e[j] = u
        BY <3>1, <3>2, <2>3, <2>4
      <4>. QED  BY <4>1, <2>4 DEF InRunQueue
    <3>3. CASE j > k
      <4>1. j - 1 \in 1..Len(list) - 1 /\ e[j - 1] = u
        BY <3>1, <3>3, <2>3, <2>4
      <4>. QED  BY <4>1, <2>4 DEF InRunQueue
    <3>. QED  BY <3>1, <3>2, <3>3, <2>3, <2>6
  <2>7. list # <<>>
    BY <2>3
  <2>. QED  BY <2>4, <2>5, <2>6, <2>7
<1>. QED  BY <1>1, <1>2

\* On a list without duplicates it takes off the thread and nobody else.
LEMMA UnpublishKeeps ==
    ASSUME NEW list \in Seq(Threads), NEW t \in Threads, NoDuplicates(list)
    PROVE  /\ NoDuplicates(unpublishWaiter(list, t))
           /\ \A u : InRunQueue(unpublishWaiter(list, t), u) <=> InRunQueue(list, u) /\ u # t
<1> DEFINE flat == [u \in Threads |-> 0]
<1>1. flat \in [Threads -> Int] /\ Sorted(list, flat)
  <2>1. \A k \in 1..Len(list) : flat[list[k]] = 0
    OBVIOUS
  <2>. QED  BY <2>1 DEF Sorted
<1>2. unpublishWaiter(list, t) = Unlink(list, t)
  BY DEF unpublishWaiter, Unlink, Contains, InRunQueue
<1>. HIDE DEF flat
<1>. QED  BY <1>1, <1>2, UnlinkKeeps

\* SignalSema's pop.
LEMMA PopKeeps ==
    ASSUME NEW list \in Seq(Threads), list # <<>>, NoDuplicates(list)
    PROVE  /\ Head(list) \in Threads /\ Tail(list) \in Seq(Threads)
           /\ NoDuplicates(Tail(list))
           /\ InRunQueue(list, Head(list))
           /\ \A u : InRunQueue(Tail(list), u) <=> InRunQueue(list, u) /\ u # Head(list)
<1> DEFINE flat == [u \in Threads |-> 0]
<1>1. flat \in [Threads -> Int] /\ Sorted(list, flat)
  <2>1. \A k \in 1..Len(list) : flat[list[k]] = 0
    OBVIOUS
  <2>. QED  BY <2>1 DEF Sorted
<1>. HIDE DEF flat
<1>. QED  BY <1>1, TailKeeps

-----------------------------------------------------------------------------
(* Thread calls: no semaphore, no flag and no wait on one changes *)

\* What a thread's call may do to a thread u: no wait begins or ends, and none
\* that a wake could not end before needs one now.
WaitKept(u) ==
    /\ pc'[u] = "sleep" => on'[u] = Nothing
    /\ pc'[u] = "sema" <=> pc[u] = "sema"
    /\ pc'[u] = "event" <=> pc[u] = "event"
    /\ pc[u] \in {"sema", "event"} =>
          /\ on'[u] = on[u] /\ ret'[u] = ret[u]
          /\ Stuck(u)' => Stuck(u)

\* A step that leaves the objects alone and keeps every wait keeps the invariants of
\* the objects.
LEMMA ThreadFrame ==
    ASSUME KInv, UNCHANGED <<semaVars, flagVars, ops>>, \A u \in Threads : WaitKept(u)
    PROVE  ObjectInv' /\ SemaInv' /\ FlagInv' /\ PermitInv'
<1>. UNCHANGED <<sema, polling, flag, want, ops>>
  BY DEF semaVars, flagVars
<1>1. ObjectInv'
  BY DEF KInv, ObjectInv, WaitKept
<1>2. SemaInv'
  BY DEF KInv, SemaInv, SemaOK, WaitKept
<1>3. FlagInv'
  BY DEF KInv, FlagInv
<1>4. PermitInv'
  <2>1. ASSUME NEW s \in Semas PROVE PermitOK(s)'
    <3>1. Off(s)' = Off(s)
      BY DEF Off, WaitKept
    <3>. QED  BY <3>1 DEF KInv, PermitInv, PermitOK, Gentle
  <2>. QED  BY <2>1 DEF PermitInv
<1>. QED  BY <1>1, <1>2, <1>3, <1>4

\* Types, from those of the thread's part.
ThreadTypes ==
    /\ info \in [Threads -> Infos]
    /\ pc \in [Threads -> Places]
    /\ on \in [Threads -> Threads \cup Semas \cup Flags \cup {Nothing}]
    /\ parked \in SUBSET Threads
    /\ ret \in [Threads -> Results]

\* What a call on threads has to show: its own fields, and that no wait is lost.
LEMMA ThreadCall ==
    ASSUME KInv, UNCHANGED <<semaVars, flagVars, ops>>, ThreadTypes',
           \A u \in Threads : LocalOK(info'[u], pc'[u], u \in parked') /\ WaitKept(u),
           ForceInv'
    PROVE  KInv'
<1>1. KTypes'
  BY DEF KInv, KTypes, ThreadTypes, semaVars, flagVars
<1>2. ThreadInv'
  BY DEF ThreadInv
<1>. QED  BY <1>1, <1>2, ThreadFrame DEF KInv

USE DEF threadVars

\* A call changes the thread t alone.
LEMMA OneThread ==
    ASSUME KInv, NEW t \in Threads, NEW i \in Infos, NEW p \in Places, NEW r \in Results,
           NEW o \in Threads \cup Semas \cup Flags \cup {Nothing},
           info' = [info EXCEPT ![t] = i], pc' = [pc EXCEPT ![t] = p],
           on' = [on EXCEPT ![t] = o], ret' = [ret EXCEPT ![t] = r],
           parked' \in {parked, parked \cup {t}, parked \ {t}},
           UNCHANGED <<semaVars, flagVars, ops>>,
           LocalOK(i, p, t \in parked'), WaitKept(t),
           Gentle => ~i.terminated /\ ~i.forceRelease
    PROVE  KInv'
<1>1. ThreadTypes'
  BY DEF KInv, KTypes, ThreadTypes
<1>2. ASSUME NEW u \in Threads PROVE LocalOK(info'[u], pc'[u], u \in parked') /\ WaitKept(u)
  <2>1. CASE u = t
    BY <2>1 DEF KInv, KTypes
  <2>2. CASE u # t
    <3>1. /\ info'[u] = info[u] /\ pc'[u] = pc[u] /\ on'[u] = on[u] /\ ret'[u] = ret[u]
          /\ u \in parked' <=> u \in parked
      BY <2>2 DEF KInv, KTypes
    <3>2. LocalOK(info'[u], pc'[u], u \in parked')
      BY <3>1 DEF KInv, ThreadInv
    <3>3. WaitKept(u)
      BY <3>1 DEF KInv, ObjectInv, WaitKept, Stuck
    <3>. QED  BY <3>2, <3>3
  <2>. QED  BY <2>1, <2>2
<1>3. ForceInv'
  BY DEF KInv, KTypes, ForceInv, Gentle
<1>. QED  BY <1>1, <1>2, <1>3, ThreadCall

\* The record and the place of one thread.
LEMMA OneInfo ==
    ASSUME KInv, NEW t \in Threads
    PROVE  /\ info[t] \in Infos /\ pc[t] \in Places /\ ret[t] \in Results
           /\ on[t] \in Threads \cup Semas \cup Flags \cup {Nothing}
           /\ LocalOK(info[t], pc[t], t \in parked)
           /\ Gentle => ~info[t].terminated /\ ~info[t].forceRelease
           /\ on = [on EXCEPT ![t] = on[t]] /\ pc = [pc EXCEPT ![t] = pc[t]]
           /\ ret = [ret EXCEPT ![t] = ret[t]]
  BY DEF KInv, KTypes, ThreadInv, ForceInv

\* SleepThread takes a wakeup or parks with none.
LEMMA SleepThreadKeeps ==
    ASSUME KInv, NEW t \in Threads, SleepThread(t), UNCHANGED <<semaVars, flagVars>>
    PROVE  KInv'
<1>1. CASE info[t].wakeupCount > 0
  <2> DEFINE i == [info[t] EXCEPT !.wakeupCount = @ - 1, !.waitType = "TSW_NONE",
                        !.status = "THS_RUN"]
  <2>0. info[t].wakeupCount - 1 \in 0..MaxWakeups
    BY <1>1, OneInfo, Constants DEF Infos, SleepThread
  <2>1. /\ info' = [info EXCEPT ![t] = i] /\ pc' = [pc EXCEPT ![t] = "run"]
        /\ on' = [on EXCEPT ![t] = Nothing] /\ ret' = [ret EXCEPT ![t] = "KE_OK"]
        /\ parked' = parked /\ ops' = ops
    BY <1>1, OneInfo DEF SleepThread, Returns, Infos
  <2>2. i \in Infos
    BY <1>1, OneInfo, <2>0 DEF Infos
  <2>3. /\ i.suspendCount = info[t].suspendCount
        /\ i.terminated <=> info[t].terminated
        /\ i.forceRelease <=> info[t].forceRelease
        /\ i.status = "THS_RUN"
    BY <1>1, OneInfo, <2>0 DEF Infos
  <2>. HIDE DEF i
  <2>4. LocalOK(i, "run", t \in parked')
    BY <1>1, <2>1, <2>2, <2>3, OneInfo, Constants DEF LocalOK, Infos, SleepThread, Running
  <2>5. WaitKept(t)
    BY <1>1, <2>1, <2>3, OneInfo
       DEF WaitKept, Stuck, KInv, KTypes, ObjectInv, SleepThread, Running
  <2>. QED  BY <2>1, <2>2, <2>3, <2>4, <2>5, OneInfo, OneThread DEF Places, Results
<1>2. CASE info[t].wakeupCount = 0
  <2> DEFINE i == [info[t] EXCEPT !.status = "THS_WAIT", !.waitType = "TSW_SLEEP",
                        !.forceRelease = FALSE]
  <2>1. /\ info' = [info EXCEPT ![t] = i] /\ pc' = [pc EXCEPT ![t] = "sleep"]
        /\ on' = [on EXCEPT ![t] = Nothing] /\ ret' = [ret EXCEPT ![t] = "none"]
        /\ parked' = parked \cup {t} /\ ops' = ops
    BY <1>2, OneInfo DEF SleepThread, Parks, Infos
  <2>2. i \in Infos
    BY <1>2, OneInfo DEF Infos
  <2>3. /\ i.suspendCount = info[t].suspendCount
        /\ i.terminated <=> info[t].terminated
        /\ ~i.forceRelease
        /\ i.status = "THS_WAIT" /\ i.waitType = "TSW_SLEEP"
        /\ i.wakeupCount = info[t].wakeupCount
    BY <1>2, OneInfo DEF Infos
  <2>. HIDE DEF i
  <2>4. LocalOK(i, "sleep", t \in parked')
    BY <1>2, <2>1, <2>2, <2>3, OneInfo, Constants DEF LocalOK, Infos, SleepThread, Running
  <2>5. WaitKept(t)
    BY <1>2, <2>1, <2>3, OneInfo
       DEF WaitKept, Stuck, KInv, KTypes, ObjectInv, SleepThread, Running
  <2>. QED  BY <2>1, <2>2, <2>3, <2>4, <2>5, OneInfo, OneThread DEF Places, Results
<1>. QED  BY <1>1, <1>2 DEF SleepThread

\* A thread that is not in a wait on an object exits: those who joined it run.
LEMMA ExitsKeeps ==
    ASSUME KInv, NEW t \in Threads, Exits(t), t \notin parked, pc[t] \notin {"sema", "event"},
           UNCHANGED <<parked, ops, semaVars, flagVars>>
    PROVE  KInv'
<1>1. Dormant \in Infos /\ ~Dormant.terminated /\ ~Dormant.forceRelease
  BY Constants DEF Infos, Dormant
<1>2. /\ info' = [info EXCEPT ![t] = Dormant] /\ ret' = [ret EXCEPT ![t] = "none"] /\ on' = on
      /\ pc' = [u \in Threads |-> IF u = t THEN "gone"
                                  ELSE IF pc[u] = "join" /\ on[u] = t THEN "run" ELSE pc[u]]
  BY DEF Exits
<1>3. ThreadTypes'
  BY <1>1, <1>2 DEF KInv, KTypes, ThreadTypes, Places, Results
<1>4. ASSUME NEW u \in Threads PROVE LocalOK(info'[u], pc'[u], u \in parked') /\ WaitKept(u)
  <2>1. CASE u = t
    <3>1. info'[u] = Dormant /\ pc'[u] = "gone" /\ u \notin parked'
      BY <1>2, <2>1 DEF KInv, KTypes
    <3>2. LocalOK(info'[u], pc'[u], u \in parked')
      BY <3>1 DEF LocalOK, Dormant
    <3>3. WaitKept(u)
      BY <3>1, <2>1 DEF WaitKept
    <3>. QED  BY <3>2, <3>3
  <2>2. CASE u # t
    <3>1. /\ info'[u] = info[u] /\ on'[u] = on[u] /\ ret'[u] = ret[u]
          /\ pc'[u] = pc[u] \/ (pc[u] = "join" /\ pc'[u] = "run")
          /\ u \in parked' <=> u \in parked
      BY <1>2, <2>2 DEF KInv, KTypes
    <3>2. LocalOK(info'[u], pc'[u], u \in parked')
      <4>1. CASE pc'[u] = pc[u]
        BY <3>1, <4>1, OneInfo
      <4>2. CASE pc[u] = "join" /\ pc'[u] = "run"
        <5>1. LocalOK(info[u], "join", u \in parked) => LocalOK(info[u], "run", u \in parked)
          BY Zenon DEF LocalOK
        <5>. QED  BY <3>1, <4>2, <5>1, OneInfo
      <4>. QED  BY <3>1, <4>1, <4>2
    <3>3. WaitKept(u)
      BY <3>1 DEF KInv, ObjectInv, WaitKept, Stuck
    <3>. QED  BY <3>2, <3>3
  <2>. QED  BY <2>1, <2>2
<1>5. ForceInv'
  BY <1>1, <1>2 DEF KInv, KTypes, ForceInv, Gentle
<1>. QED  BY <1>3, <1>4, <1>5, ThreadCall

\* A running thread that was terminated, or calls ExitThread, exits.
LEMMA YieldPointKeeps ==
    ASSUME KInv, NEW t \in Threads, YieldPoint(t), UNCHANGED <<semaVars, flagVars>>
    PROVE  KInv'
  BY ExitsKeeps DEF YieldPoint, Running

\* A woken sleeper exits, returns, or parks again in the state it had.
LEMMA SleepWokenKeeps ==
    ASSUME KInv, NEW t \in Threads, SleepWoken(t), UNCHANGED <<semaVars, flagVars>>
    PROVE  KInv'
<1>1. CASE info[t].terminated
  BY <1>1, ExitsKeeps DEF SleepWoken
<1>2. CASE ~info[t].terminated /\ info[t].forceRelease
  <2> DEFINE i == [info[t] EXCEPT !.forceRelease = FALSE, !.waitType = "TSW_NONE",
                        !.status = "THS_RUN"]
  <2>1. /\ info' = [info EXCEPT ![t] = i] /\ pc' = [pc EXCEPT ![t] = "run"]
        /\ on' = [on EXCEPT ![t] = on[t]] /\ ret' = [ret EXCEPT ![t] = "KE_RELEASE_WAIT"]
        /\ parked' = parked /\ ops' = ops
    BY <1>2, OneInfo DEF SleepWoken, Returns, consumeForceRelease, Infos
  <2>2. i \in Infos
    BY <1>2, OneInfo DEF Infos
  <2>3. /\ i.suspendCount = info[t].suspendCount
        /\ i.terminated <=> info[t].terminated
        /\ ~i.forceRelease
        /\ i.status = "THS_RUN"
    BY <1>2, OneInfo DEF Infos
  <2>. HIDE DEF i
  <2>4. LocalOK(i, "run", t \in parked')
    BY <1>2, <2>1, <2>2, <2>3, OneInfo, Constants DEF LocalOK, Infos, SleepWoken
  <2>5. WaitKept(t)
    BY <1>2, <2>1, <2>3, OneInfo DEF WaitKept, Stuck, KInv, KTypes, ObjectInv, SleepWoken
  <2>. QED  BY <2>1, <2>2, <2>3, <2>4, <2>5, OneInfo, OneThread DEF Places, Results
<1>3. CASE ~info[t].terminated /\ ~info[t].forceRelease /\ info[t].wakeupCount > 0
  <2> DEFINE i == [info[t] EXCEPT !.wakeupCount = @ - 1, !.waitType = "TSW_NONE",
                        !.status = "THS_RUN"]
  <2>0. info[t].wakeupCount - 1 \in 0..MaxWakeups
    BY <1>3, OneInfo, Constants DEF Infos, SleepWoken
  <2>1. /\ info' = [info EXCEPT ![t] = i] /\ pc' = [pc EXCEPT ![t] = "run"]
        /\ on' = [on EXCEPT ![t] = on[t]] /\ ret' = [ret EXCEPT ![t] = "KE_OK"]
        /\ parked' = parked /\ ops' = ops
    BY <1>3, OneInfo DEF SleepWoken, Returns, Infos
  <2>2. i \in Infos
    BY <1>3, OneInfo, <2>0 DEF Infos
  <2>3. /\ i.suspendCount = info[t].suspendCount
        /\ i.terminated <=> info[t].terminated
        /\ i.forceRelease <=> info[t].forceRelease
        /\ i.status = "THS_RUN"
    BY <1>3, OneInfo, <2>0 DEF Infos
  <2>. HIDE DEF i
  <2>4. LocalOK(i, "run", t \in parked')
    BY <1>3, <2>1, <2>2, <2>3, OneInfo, Constants DEF LocalOK, Infos, SleepWoken
  <2>5. WaitKept(t)
    BY <1>3, <2>1, <2>3, OneInfo DEF WaitKept, Stuck, KInv, KTypes, ObjectInv, SleepWoken
  <2>. QED  BY <2>1, <2>2, <2>3, <2>4, <2>5, OneInfo, OneThread DEF Places, Results
<1>4. CASE ~info[t].terminated /\ ~info[t].forceRelease /\ info[t].wakeupCount = 0
  <2> DEFINE i == [info[t] EXCEPT !.status = "THS_WAIT", !.waitType = "TSW_SLEEP"]
  <2>1. /\ info' = [info EXCEPT ![t] = i] /\ pc' = [pc EXCEPT ![t] = "sleep"]
        /\ on' = [on EXCEPT ![t] = on[t]] /\ ret' = [ret EXCEPT ![t] = "none"]
        /\ parked' = parked \cup {t} /\ ops' = ops
    BY <1>4, OneInfo DEF SleepWoken, Parks, Infos
  <2>2. i \in Infos
    BY <1>4, OneInfo DEF Infos
  <2>3. /\ i.suspendCount = info[t].suspendCount
        /\ i.terminated <=> info[t].terminated
        /\ i.forceRelease <=> info[t].forceRelease
        /\ i.status = "THS_WAIT" /\ i.waitType = "TSW_SLEEP"
        /\ i.wakeupCount = info[t].wakeupCount
    BY <1>4, OneInfo DEF Infos
  <2>. HIDE DEF i
  <2>4. LocalOK(i, "sleep", t \in parked')
    BY <1>4, <2>1, <2>2, <2>3, OneInfo, Constants DEF LocalOK, Infos, SleepWoken
  <2>5. WaitKept(t)
    BY <1>4, <2>1, <2>3, OneInfo DEF WaitKept, Stuck, KInv, KTypes, ObjectInv, SleepWoken
  <2>. QED  BY <2>1, <2>2, <2>3, <2>4, <2>5, OneInfo, OneThread DEF Places, Results
<1>. QED  BY <1>1, <1>2, <1>3, <1>4 DEF SleepWoken

\* A call changes the record of the thread u, and may unpark it.
LEMMA OneRecord ==
    ASSUME KInv, NEW u \in Threads, NEW i \in Infos, info' = [info EXCEPT ![u] = i],
           UNCHANGED <<pc, on, ret, ops, semaVars, flagVars>>,
           parked' \in {parked, parked \cup {u}, parked \ {u}},
           LocalOK(i, pc[u], u \in parked'),
           u \in parked' /\ i.suspendCount = 0 => Stuck(u),
           Gentle => ~i.terminated /\ ~i.forceRelease
    PROVE  KInv'
<1>1. ThreadTypes'
  BY DEF KInv, KTypes, ThreadTypes
<1>2. ASSUME NEW v \in Threads PROVE LocalOK(info'[v], pc'[v], v \in parked') /\ WaitKept(v)
  <2>1. CASE v = u
    <3>1. info'[v] = i
      BY <2>1 DEF KInv, KTypes
    <3>. QED  BY <2>1, <3>1 DEF KInv, ObjectInv, WaitKept, Stuck
  <2>2. CASE v # u
    <3>1. info'[v] = info[v] /\ (v \in parked' <=> v \in parked)
      BY <2>2 DEF KInv, KTypes
    <3>2. LocalOK(info'[v], pc'[v], v \in parked')
      BY <3>1 DEF KInv, ThreadInv
    <3>3. WaitKept(v)
      BY <3>1 DEF KInv, ObjectInv, WaitKept, Stuck
    <3>. QED  BY <3>2, <3>3
  <2>. QED  BY <2>1, <2>2
<1>3. ForceInv'
  BY DEF KInv, KTypes, ForceInv, Gentle
<1>. QED  BY <1>1, <1>2, <1>3, ThreadCall

\* Only a thread that is not suspended is woken.
LEMMA WokenOne ==
    ASSUME NEW u
    PROVE  /\ info[u].suspendCount = 0 => Woken({u}) = {u}
           /\ info[u].suspendCount # 0 => Woken({u}) = {}
  BY DEF Woken

\* WakeupThread unparks the thread it finds asleep.
LEMMA WakeupThreadKeeps ==
    ASSUME KInv, NEW u \in Threads, WakeupThread(u), UNCHANGED <<semaVars, flagVars>>
    PROVE  KInv'
<1>0. info[u].wakeupCount + 1 \in 0..MaxWakeups
  BY OneInfo, Constants DEF WakeupThread, Infos
<1>1. CASE info[u].status = "THS_WAIT" /\ info[u].waitType = "TSW_SLEEP" /\ info[u].suspendCount = 0
  <2> DEFINE i == [info[u] EXCEPT !.wakeupCount = @ + 1, !.waitType = "TSW_NONE",
                        !.status = "THS_READY"]
  <2>1. info' = [info EXCEPT ![u] = i] /\ UNCHANGED <<pc, on, ret, ops>>
    BY <1>0, <1>1, OneInfo DEF WakeupThread, Infos
  <2>2. i \in Infos
    BY <1>0, <1>1, OneInfo DEF Infos
  <2>3. /\ i.suspendCount = info[u].suspendCount
        /\ i.terminated <=> info[u].terminated
        /\ i.forceRelease <=> info[u].forceRelease
        /\ i.status = "THS_READY" /\ i.waitType = "TSW_NONE"
    BY <1>0, <1>1, OneInfo DEF Infos
  <2>6. parked' = parked \ {u}
    BY <1>1, WokenOne, OneInfo, Constants DEF Infos, WakeupThread
  <2>. HIDE DEF i
  <2>4. LocalOK(i, pc[u], u \in parked')
    BY <1>1, <2>3, <2>6, OneInfo DEF LocalOK
  <2>5. u \in parked' /\ i.suspendCount = 0 => Stuck(u)
    BY <1>1, <2>3, <2>6 DEF Stuck, WakeupThread
  <2>7. Gentle => ~i.terminated /\ ~i.forceRelease
    BY <2>3, OneInfo DEF Gentle, Called, WakeupThread
  <2>. QED  BY <2>1, <2>2, <2>4, <2>5, <2>6, <2>7, OneRecord
<1>2. CASE ~(info[u].status = "THS_WAIT" /\ info[u].waitType = "TSW_SLEEP")
  <2> DEFINE i == [info[u] EXCEPT !.wakeupCount = @ + 1]
  <2>1. info' = [info EXCEPT ![u] = i] /\ UNCHANGED <<pc, on, ret, ops>>
    BY <1>0, <1>2, OneInfo DEF WakeupThread, Infos
  <2>2. i \in Infos
    BY <1>0, <1>2, OneInfo DEF Infos
  <2>3. /\ i.suspendCount = info[u].suspendCount
        /\ i.terminated <=> info[u].terminated
        /\ i.forceRelease <=> info[u].forceRelease
        /\ i.status = info[u].status /\ i.waitType = info[u].waitType
    BY <1>0, <1>2, OneInfo DEF Infos
  <2>6. parked' = parked
    BY <1>2 DEF WakeupThread
  <2>. HIDE DEF i
  <2>4. LocalOK(i, pc[u], u \in parked')
    BY <1>2, <2>3, <2>6, OneInfo DEF LocalOK, WakeupThread
  <2>5. u \in parked' /\ i.suspendCount = 0 => Stuck(u)
    BY <1>2, <2>3, <2>6 DEF Stuck, WakeupThread
  <2>7. Gentle => ~i.terminated /\ ~i.forceRelease
    BY <2>3, OneInfo DEF Gentle, Called, WakeupThread
  <2>. QED  BY <2>1, <2>2, <2>4, <2>5, <2>6, <2>7, OneRecord
<1>3. CASE info[u].status = "THS_WAIT" /\ info[u].waitType = "TSW_SLEEP" /\ info[u].suspendCount > 0
  <2> DEFINE i == [info[u] EXCEPT !.wakeupCount = @ + 1, !.waitType = "TSW_NONE",
                        !.status = "THS_SUSPEND"]
  <2>1. info' = [info EXCEPT ![u] = i] /\ UNCHANGED <<pc, on, ret, ops>>
    BY <1>0, <1>3, OneInfo DEF WakeupThread, Infos
  <2>2. i \in Infos
    BY <1>0, <1>3, OneInfo DEF Infos
  <2>3. /\ i.suspendCount = info[u].suspendCount
        /\ i.terminated <=> info[u].terminated
        /\ i.forceRelease <=> info[u].forceRelease
        /\ i.status = "THS_SUSPEND" /\ i.waitType = "TSW_NONE"
    BY <1>0, <1>3, OneInfo DEF Infos
  <2>6. parked' = parked
    BY <1>3, WokenOne, OneInfo, Constants DEF Infos, WakeupThread
  <2>. HIDE DEF i
  <2>4. LocalOK(i, pc[u], u \in parked')
    BY <1>3, <2>3, <2>6, OneInfo DEF LocalOK
  <2>5. u \in parked' /\ i.suspendCount = 0 => Stuck(u)
    BY <1>3, <2>3, <2>6 DEF Stuck, WakeupThread
  <2>7. Gentle => ~i.terminated /\ ~i.forceRelease
    BY <2>3, OneInfo DEF Gentle, Called, WakeupThread
  <2>. QED  BY <2>1, <2>2, <2>4, <2>5, <2>6, <2>7, OneRecord
<1>. QED
  <2>1. info[u].suspendCount = 0 \/ info[u].suspendCount > 0
    BY OneInfo, Constants DEF Infos
  <2>. QED  BY <2>1, <1>1, <1>2, <1>3

\* CancelWakeupThread forgets wakeups.
LEMMA CancelWakeupThreadKeeps ==
    ASSUME KInv, NEW u \in Threads, CancelWakeupThread(u), UNCHANGED <<semaVars, flagVars>>
    PROVE  KInv'
<1>1. CASE TRUE
  <2> DEFINE i == [info[u] EXCEPT !.wakeupCount = 0]
  <2>0. 0 \in 0..MaxWakeups
    BY <1>1, OneInfo, Constants DEF Infos, CancelWakeupThread
  <2>1. info' = [info EXCEPT ![u] = i] /\ UNCHANGED <<pc, on, ret, ops>>
    BY <1>1, OneInfo DEF CancelWakeupThread, Infos
  <2>2. i \in Infos
    BY <1>1, OneInfo, <2>0 DEF Infos
  <2>3. /\ i.suspendCount = info[u].suspendCount
        /\ i.terminated <=> info[u].terminated
        /\ i.forceRelease <=> info[u].forceRelease
        /\ i.status = info[u].status /\ i.waitType = info[u].waitType
        /\ i.wakeupCount = 0
    BY <1>1, OneInfo, <2>0 DEF Infos
  <2>6. parked' = parked
    BY <1>1 DEF CancelWakeupThread
  <2>. HIDE DEF i
  <2>4. LocalOK(i, pc[u], u \in parked')
    BY <1>1, <2>3, <2>6, OneInfo DEF LocalOK, CancelWakeupThread
  <2>5. u \in parked' /\ i.suspendCount = 0 => Stuck(u)
    BY <1>1, <2>3, <2>6 DEF Stuck, CancelWakeupThread
  <2>7. Gentle => ~i.terminated /\ ~i.forceRelease
    BY <2>3, OneInfo DEF Gentle, Called, CancelWakeupThread
  <2>. QED  BY <2>1, <2>2, <2>4, <2>5, <2>6, <2>7, OneRecord
<1>. QED  BY <1>1 DEF CancelWakeupThread

\* ReleaseWaitThread unparks the waiter unless it is suspended.
LEMMA ReleaseWaitThreadKeeps ==
    ASSUME KInv, NEW u \in Threads, ReleaseWaitThread(u), UNCHANGED <<semaVars, flagVars>>
    PROVE  KInv'
<1>1. CASE info[u].suspendCount > 0
  <2> DEFINE i == [info[u] EXCEPT !.forceRelease = TRUE, !.waitType = "TSW_NONE",
                        !.status = "THS_SUSPEND"]
  <2>1. info' = [info EXCEPT ![u] = i] /\ UNCHANGED <<pc, on, ret, ops>>
    BY <1>1, OneInfo DEF ReleaseWaitThread, Infos
  <2>2. i \in Infos
    BY <1>1, OneInfo DEF Infos
  <2>3. /\ i.suspendCount = info[u].suspendCount
        /\ i.terminated <=> info[u].terminated
        /\ i.forceRelease
        /\ i.status = "THS_SUSPEND" /\ i.waitType = "TSW_NONE"
    BY <1>1, OneInfo DEF Infos
  <2>6. parked' = parked
    BY <1>1, WokenOne, OneInfo, Constants DEF Infos, ReleaseWaitThread
  <2>. HIDE DEF i
  <2>4. LocalOK(i, pc[u], u \in parked')
    BY <1>1, <2>3, <2>6, OneInfo DEF LocalOK, ReleaseWaitThread
  <2>5. u \in parked' /\ i.suspendCount = 0 => Stuck(u)
    BY <1>1, <2>3, <2>6 DEF Stuck, ReleaseWaitThread
  <2>7. Gentle => ~i.terminated /\ ~i.forceRelease
    BY <2>3, OneInfo DEF Gentle, Called, ReleaseWaitThread
  <2>. QED  BY <2>1, <2>2, <2>4, <2>5, <2>6, <2>7, OneRecord
<1>2. CASE ~(info[u].suspendCount > 0)
  <2> DEFINE i == [info[u] EXCEPT !.forceRelease = TRUE, !.waitType = "TSW_NONE",
                        !.status = "THS_READY"]
  <2>1. info' = [info EXCEPT ![u] = i] /\ UNCHANGED <<pc, on, ret, ops>>
    BY <1>2, OneInfo DEF ReleaseWaitThread, Infos
  <2>2. i \in Infos
    BY <1>2, OneInfo DEF Infos
  <2>3. /\ i.suspendCount = info[u].suspendCount
        /\ i.terminated <=> info[u].terminated
        /\ i.forceRelease
        /\ i.status = "THS_READY" /\ i.waitType = "TSW_NONE"
    BY <1>2, OneInfo DEF Infos
  <2>6. parked' = parked \ {u}
    BY <1>2, WokenOne, OneInfo, Constants DEF Infos, ReleaseWaitThread
  <2>. HIDE DEF i
  <2>4. LocalOK(i, pc[u], u \in parked')
    BY <1>2, <2>3, <2>6, OneInfo DEF LocalOK, ReleaseWaitThread
  <2>5. u \in parked' /\ i.suspendCount = 0 => Stuck(u)
    BY <1>2, <2>3, <2>6 DEF Stuck, ReleaseWaitThread
  <2>7. Gentle => ~i.terminated /\ ~i.forceRelease
    BY <2>3, OneInfo DEF Gentle, Called, ReleaseWaitThread
  <2>. QED  BY <2>1, <2>2, <2>4, <2>5, <2>6, <2>7, OneRecord
<1>. QED  BY <1>1, <1>2 DEF ReleaseWaitThread

\* SuspendThread on the calling thread parks it.
LEMMA SuspendThreadSelfKeeps ==
    ASSUME KInv, NEW t \in Threads, SuspendThreadSelf(t), UNCHANGED <<semaVars, flagVars>>
    PROVE  KInv'
<1>0. info[t].suspendCount = 0 /\ ~info[t].terminated
  BY OneInfo, Constants DEF LocalOK, SuspendThreadSelf, Running, Infos
<1>1. 1 \in 0..MaxSuspends
  BY Constants DEF SuspendThreadSelf
<1> DEFINE i == [info[t] EXCEPT !.suspendCount = 1,
                                !.status = IF info[t].waitType # "TSW_NONE" THEN "THS_WAITSUSPEND"
                                           ELSE "THS_SUSPEND"]
<1>2. info' = [info EXCEPT ![t] = i]
  <2>1. [info[t] EXCEPT !.suspendCount = @ + 1] = [info[t] EXCEPT !.suspendCount = 1]
    BY <1>0
  <2>2. [info[t] EXCEPT !.suspendCount = 1].waitType = info[t].waitType
    BY OneInfo DEF Infos
  <2>3. info' = [info EXCEPT ![t] = [[info[t] EXCEPT !.suspendCount = 1] EXCEPT !.status =
                   IF info[t].waitType # "TSW_NONE" THEN "THS_WAITSUSPEND" ELSE "THS_SUSPEND"]]
    BY <2>1, <2>2 DEF SuspendThreadSelf, applySuspendStatusLocked
  <2>. QED  BY <2>3, OneInfo DEF Infos
<1>3. /\ pc' = [pc EXCEPT ![t] = "suspended"] /\ on' = [on EXCEPT ![t] = on[t]]
      /\ ret' = [ret EXCEPT ![t] = ret[t]] /\ parked' = parked \cup {t} /\ ops' = ops
  BY OneInfo DEF SuspendThreadSelf
<1>4. i \in Infos
  BY <1>1, OneInfo DEF Infos
<1>5. /\ i.suspendCount = 1 /\ i.status # "THS_DORMANT"
      /\ i.terminated <=> info[t].terminated
      /\ i.forceRelease <=> info[t].forceRelease
  BY OneInfo DEF Infos
<1>. HIDE DEF i
<1>6. LocalOK(i, "suspended", t \in parked')
  BY <1>0, <1>3, <1>5 DEF LocalOK
<1>7. WaitKept(t)
  BY <1>3 DEF WaitKept, KInv, KTypes, SuspendThreadSelf, Running
<1>. QED  BY <1>2, <1>3, <1>4, <1>5, <1>6, <1>7, OneInfo, OneThread DEF Places

\* A thread that suspended itself and was resumed or terminated goes on.
LEMMA SuspendSelfReturnsKeeps ==
    ASSUME KInv, NEW t \in Threads, SuspendSelfReturns(t), UNCHANGED <<semaVars, flagVars>>
    PROVE  KInv'
<1>1. CASE info[t].terminated
  BY <1>1, ExitsKeeps DEF SuspendSelfReturns
<1>2. CASE ~info[t].terminated
  <2> DEFINE i == [info[t] EXCEPT !.status = "THS_RUN"]
  <2>1. /\ info' = [info EXCEPT ![t] = i] /\ pc' = [pc EXCEPT ![t] = "run"]
        /\ on' = [on EXCEPT ![t] = on[t]] /\ ret' = [ret EXCEPT ![t] = ret[t]]
        /\ parked' = parked /\ ops' = ops
    BY <1>2, OneInfo DEF SuspendSelfReturns, Returns
  <2>2. i \in Infos
    BY OneInfo DEF Infos
  <2>3. /\ i.suspendCount = info[t].suspendCount
        /\ i.terminated <=> info[t].terminated
        /\ i.forceRelease <=> info[t].forceRelease
        /\ i.status = "THS_RUN"
    BY OneInfo DEF Infos
  <2>. HIDE DEF i
  <2>4. LocalOK(i, "run", t \in parked')
    BY <1>2, <2>1, <2>3, OneInfo DEF LocalOK, SuspendSelfReturns
  <2>5. WaitKept(t)
    BY <2>1 DEF WaitKept, KInv, KTypes, SuspendSelfReturns
  <2>. QED  BY <2>1, <2>2, <2>3, <2>4, <2>5, OneInfo, OneThread DEF Places
<1>. QED  BY <1>1, <1>2

\* SuspendThread parks another thread wherever it is.
LEMMA SuspendThreadOtherKeeps ==
    ASSUME KInv, NEW u \in Threads, SuspendThreadOther(u), UNCHANGED <<semaVars, flagVars>>
    PROVE  KInv'
<1> DEFINE n == info[u].suspendCount + 1
           i == [info[u] EXCEPT !.suspendCount = n,
                                !.status = IF info[u].waitType # "TSW_NONE" THEN "THS_WAITSUSPEND"
                                           ELSE "THS_SUSPEND"]
<1>0. n \in 0..MaxSuspends /\ n > 0 /\ info[u].status # "THS_DORMANT"
  BY OneInfo, Constants DEF SuspendThreadOther, Infos
<1>1. info' = [info EXCEPT ![u] = i] /\ UNCHANGED <<pc, on, ret, ops>> /\ parked' = parked \cup {u}
  <2>. HIDE DEF n
  <2>1. [info[u] EXCEPT !.suspendCount = n].waitType = info[u].waitType
    BY OneInfo DEF Infos
  <2>2. info' = [info EXCEPT ![u] = applySuspendStatusLocked([info[u] EXCEPT !.suspendCount = n])]
    BY DEF SuspendThreadOther, n
  <2>3. info' = [info EXCEPT ![u] = [[info[u] EXCEPT !.suspendCount = n] EXCEPT !.status =
                   IF info[u].waitType # "TSW_NONE" THEN "THS_WAITSUSPEND" ELSE "THS_SUSPEND"]]
    BY <2>1, <2>2 DEF applySuspendStatusLocked
  <2>. QED  BY <2>3, OneInfo DEF Infos, SuspendThreadOther
<1>. HIDE DEF n
<1>2. i \in Infos
  BY <1>0, OneInfo DEF Infos
<1>3. /\ i.suspendCount = n /\ i.waitType = info[u].waitType
      /\ i.status = IF info[u].waitType # "TSW_NONE" THEN "THS_WAITSUSPEND" ELSE "THS_SUSPEND"
      /\ i.terminated <=> info[u].terminated
      /\ i.forceRelease <=> info[u].forceRelease
  BY OneInfo DEF Infos
<1>. HIDE DEF i
<1>4. LocalOK(i, pc[u], u \in parked')
  BY <1>0, <1>1, <1>3, OneInfo DEF LocalOK
<1>5. u \in parked' /\ i.suspendCount = 0 => Stuck(u)
  BY <1>0, <1>3
<1>6. Gentle => ~i.terminated /\ ~i.forceRelease
  BY <1>3, OneInfo
<1>. QED  BY <1>1, <1>2, <1>4, <1>5, <1>6, OneRecord

\* ResumeThread unparks a thread when its last nested suspend ends.
LEMMA ResumeThreadKeeps ==
    ASSUME KInv, NEW u \in Threads, ResumeThread(u), UNCHANGED <<semaVars, flagVars>>
    PROVE  KInv'
<1> DEFINE n == info[u].suspendCount - 1
           j == [info[u] EXCEPT !.suspendCount = n]
<1>0. n \in 0..MaxSuspends /\ info[u].suspendCount > 0 /\ info[u].status # "THS_DORMANT"
  BY OneInfo, Constants DEF ResumeThread, Infos
<1>a. /\ info' = [info EXCEPT ![u] =
             IF j.suspendCount > 0 THEN j
             ELSE [j EXCEPT !.status = IF j.waitType # "TSW_NONE" THEN "THS_WAIT" ELSE "THS_READY"]]
      /\ parked' = IF j.suspendCount = 0 THEN parked \ {u} ELSE parked
      /\ UNCHANGED <<pc, on, ret, ops>>
  BY DEF ResumeThread
<1>m. info[u].suspendCount = n + 1
  BY OneInfo, Constants DEF Infos
<1>. HIDE DEF n
<1>b. /\ j \in Infos /\ j.suspendCount = n /\ j.status = info[u].status
      /\ j.waitType = info[u].waitType
      /\ j.terminated <=> info[u].terminated
      /\ j.forceRelease <=> info[u].forceRelease
  BY <1>0, OneInfo DEF Infos
<1>. HIDE DEF j
<1>1. CASE n > 0
  <2>1. info' = [info EXCEPT ![u] = j] /\ parked' = parked
    BY <1>1, <1>a, <1>b
  <2>2. LocalOK(j, pc[u], u \in parked')
    BY <1>0, <1>1, <1>b, <1>m, <2>1, OneInfo DEF LocalOK
  <2>3. u \in parked' /\ j.suspendCount = 0 => Stuck(u)
    BY <1>1, <1>b
  <2>4. Gentle => ~j.terminated /\ ~j.forceRelease
    BY <1>b, OneInfo
  <2>. QED  BY <1>a, <1>b, <2>1, <2>2, <2>3, <2>4, OneRecord
<1>2. CASE n = 0
  <2> DEFINE i == [j EXCEPT !.status = IF j.waitType # "TSW_NONE" THEN "THS_WAIT" ELSE "THS_READY"]
  <2>1. info' = [info EXCEPT ![u] = i] /\ parked' = parked \ {u}
    BY <1>2, <1>a, <1>b
  <2>2. /\ i \in Infos /\ i.suspendCount = 0 /\ i.waitType = info[u].waitType
        /\ i.status = IF info[u].waitType # "TSW_NONE" THEN "THS_WAIT" ELSE "THS_READY"
        /\ i.terminated <=> info[u].terminated
        /\ i.forceRelease <=> info[u].forceRelease
    BY <1>2, <1>b DEF Infos
  <2>. HIDE DEF i
  <2>3. LocalOK(i, pc[u], u \in parked')
    BY <1>0, <2>1, <2>2, OneInfo DEF LocalOK
  <2>4. Gentle => ~i.terminated /\ ~i.forceRelease
    BY <2>2, OneInfo
  <2>. QED  BY <1>a, <2>1, <2>2, <2>3, <2>4, OneRecord
<1>. QED  BY <1>0, <1>1, <1>2

\* StartThread makes a thread that is gone ready.
LEMMA StartThreadKeeps ==
    ASSUME KInv, NEW u \in Threads, StartThread(u), UNCHANGED <<semaVars, flagVars>>
    PROVE  KInv'
<1> DEFINE i == [Dormant EXCEPT !.status = "THS_READY"]
<1>1. /\ info' = [info EXCEPT ![u] = i] /\ pc' = [pc EXCEPT ![u] = "run"]
      /\ on' = [on EXCEPT ![u] = Nothing] /\ ret' = [ret EXCEPT ![u] = "none"]
      /\ parked' = parked /\ ops' = ops
  BY DEF StartThread
<1>2. /\ i \in Infos /\ i.status = "THS_READY" /\ i.suspendCount = 0 /\ ~i.terminated
      /\ ~i.forceRelease
  <2>1. /\ Dormant \in Infos /\ Dormant.suspendCount = 0 /\ ~Dormant.terminated
        /\ ~Dormant.forceRelease
    BY Constants DEF Dormant, Infos
  <2>. QED  BY <2>1 DEF Infos
<1>. HIDE DEF i
<1>3. LocalOK(i, "run", u \in parked')
  BY <1>1, <1>2 DEF LocalOK
<1>4. WaitKept(u)
  BY <1>1 DEF WaitKept, StartThread, KInv, KTypes
<1>. QED  BY <1>1, <1>2, <1>3, <1>4, OneThread DEF Places, Results

\* TerminateThread marks and unparks its target, and the caller joins it.
LEMMA TerminateThreadKeeps ==
    ASSUME KInv, NEW t \in Threads, NEW u \in Threads, TerminateThread(t, u),
           UNCHANGED <<semaVars, flagVars>>
    PROVE  KInv'
<1> DEFINE i == [info[u] EXCEPT !.terminated = TRUE, !.forceRelease = TRUE]
<1>1. /\ info' = [info EXCEPT ![u] = i] /\ pc' = [pc EXCEPT ![t] = "join"]
      /\ on' = [on EXCEPT ![t] = u] /\ ret' = ret /\ parked' = parked \ {u} /\ ops' = ops
      /\ t # u /\ pc[t] = "run" /\ t \notin parked /\ info[u].status # "THS_DORMANT"
  BY DEF TerminateThread, Running
<1>2. /\ i \in Infos /\ i.status = info[u].status /\ i.terminated
  BY OneInfo DEF Infos
<1>. HIDE DEF i
<1>3. ThreadTypes'
  BY <1>1, <1>2 DEF KInv, KTypes, ThreadTypes, Places
<1>4. ASSUME NEW v \in Threads PROVE LocalOK(info'[v], pc'[v], v \in parked') /\ WaitKept(v)
  <2>1. CASE v = u
    <3>1. /\ info'[v] = i /\ pc'[v] = pc[v] /\ on'[v] = on[v] /\ ret'[v] = ret[v]
          /\ v \notin parked'
      BY <1>1, <2>1 DEF KInv, KTypes
    <3>2. LocalOK(info'[v], pc'[v], v \in parked')
      BY <1>1, <1>2, <2>1, <3>1, OneInfo DEF LocalOK
    <3>3. WaitKept(v)
      BY <3>1 DEF WaitKept, Stuck, KInv, ObjectInv
    <3>. QED  BY <3>2, <3>3
  <2>2. CASE v = t
    <3>1. info'[v] = info[v] /\ pc'[v] = "join" /\ v \notin parked'
      BY <1>1, <2>2 DEF KInv, KTypes
    <3>2. LocalOK(info'[v], pc'[v], v \in parked')
      BY <1>1, <2>2, <3>1, OneInfo DEF LocalOK
    <3>3. WaitKept(v)
      BY <1>1, <2>2, <3>1 DEF WaitKept
    <3>. QED  BY <3>2, <3>3
  <2>3. CASE v # u /\ v # t
    <3>1. /\ info'[v] = info[v] /\ pc'[v] = pc[v] /\ on'[v] = on[v] /\ ret'[v] = ret[v]
          /\ v \in parked' <=> v \in parked
      BY <1>1, <2>3 DEF KInv, KTypes
    <3>2. LocalOK(info'[v], pc'[v], v \in parked')
      BY <3>1 DEF KInv, ThreadInv
    <3>3. WaitKept(v)
      BY <3>1 DEF KInv, ObjectInv, WaitKept, Stuck
    <3>. QED  BY <3>2, <3>3
  <2>. QED  BY <2>1, <2>2, <2>3
<1>5. ForceInv'
  <2>1. ~Gentle
    BY DEF Gentle, TerminateThread, Called
  <2>2. Gentle' <=> Gentle
    BY <1>1 DEF Gentle
  <2>. QED  BY <2>1, <2>2 DEF ForceInv
<1>. QED  BY <1>1, <1>3, <1>4, <1>5, ThreadCall

\* Every call of Thread.cpp keeps the invariant.
LEMMA ThreadNextKeeps ==
    ASSUME KInv, ThreadNext, UNCHANGED <<semaVars, flagVars>>
    PROVE  KInv'
  BY YieldPointKeeps, SleepThreadKeeps, SleepWokenKeeps, SuspendThreadSelfKeeps,
     SuspendSelfReturnsKeeps, TerminateThreadKeeps, WakeupThreadKeeps, CancelWakeupThreadKeeps,
     ReleaseWaitThreadKeeps, SuspendThreadOtherKeeps, ResumeThreadKeeps, StartThreadKeeps
     DEF ThreadNext


-----------------------------------------------------------------------------
(* Semaphore calls: one semaphore s changes, and waits on it *)

\* What a call on the semaphore s may do to a thread u: waits on other objects
\* stay as they are.
OtherWaitKept(u, s) ==
    /\ pc'[u] = "sleep" => on'[u] = Nothing
    /\ (pc'[u] = "sema" /\ on'[u] # s) <=> (pc[u] = "sema" /\ on[u] # s)
    /\ pc'[u] = "event" <=> pc[u] = "event"
    /\ pc'[u] = "event" \/ (pc'[u] = "sema" /\ on'[u] # s) =>
          /\ on'[u] = on[u] /\ ret'[u] = ret[u]
          /\ Stuck(u)' => Stuck(u)

\* A thread in a wait on s.
WaiterOK(u, s) ==
    pc[u] = "sema" /\ on[u] = s =>
        /\ ret[u] = "none"
        /\ sema[s].state # "unused"
        /\ Stuck(u) => InRunQueue(sema[s].waitList, u)

\* What a call on one semaphore has to show: its list, its permits and its waiters.
LEMMA SemaCall ==
    ASSUME KInv, NEW s \in Semas, NEW m \in SemaRecs, sema' = [sema EXCEPT ![s] = m],
           polling' \in [Workers -> Semas \cup {Nothing}], UNCHANGED <<flagVars, ops>>,
           ThreadTypes', ForceInv', SemaOK(s)', PermitOK(s)',
           \A u \in Threads : /\ LocalOK(info'[u], pc'[u], u \in parked')
                              /\ OtherWaitKept(u, s) /\ WaiterOK(u, s)'
    PROVE  KInv'
<1>0. /\ sema'[s] = m
      /\ \A r \in Semas \ {s} : sema'[r] = sema[r]
      /\ UNCHANGED <<flag, want, ops>>
  BY DEF KInv, KTypes, flagVars
<1>1. KTypes'
  BY DEF KInv, KTypes, ThreadTypes, flagVars
<1>2. ThreadInv'
  BY DEF ThreadInv
<1>3. ObjectInv'
  <2>1. ASSUME NEW u \in Threads, pc'[u] = "sema"
        PROVE  /\ on'[u] \in Semas /\ ret'[u] = "none" /\ sema'[on'[u]].state # "unused"
               /\ Stuck(u)' => InRunQueue(sema'[on'[u]].waitList, u)
    <3>1. CASE on'[u] = s
      BY <2>1, <3>1 DEF WaiterOK
    <3>2. CASE on'[u] # s
      <4>1. /\ pc[u] = "sema" /\ on[u] = on'[u] /\ on[u] # s /\ ret'[u] = ret[u]
            /\ Stuck(u)' => Stuck(u)
        BY <2>1, <3>2 DEF OtherWaitKept
      <4>2. on[u] \in Semas /\ sema'[on[u]] = sema[on[u]]
        BY <4>1, <1>0 DEF KInv, ObjectInv
      <4>. QED  BY <4>1, <4>2 DEF KInv, ObjectInv
    <3>. QED  BY <3>1, <3>2
  <2>2. ASSUME NEW u \in Threads, pc'[u] = "event"
        PROVE  /\ on'[u] \in Flags /\ flag'[on'[u]].state # "unused"
               /\ Stuck(u)' => /\ InRunQueue(flag'[on'[u]].waitList, u)
                               /\ ~Matches(flag'[on'[u]].bits, want'[u])
    <3>1. pc[u] = "event" /\ on'[u] = on[u] /\ (Stuck(u)' => Stuck(u))
      BY <2>2 DEF OtherWaitKept
    <3>. QED  BY <3>1, <1>0 DEF KInv, ObjectInv
  <2>3. \A u \in Threads : pc'[u] = "sleep" => on'[u] = Nothing
    BY DEF OtherWaitKept
  <2>. QED  BY <2>1, <2>2, <2>3 DEF ObjectInv
<1>4. SemaInv'
  <2>1. ASSUME NEW r \in Semas, r # s PROVE SemaOK(r)'
    <3>1. \A u \in Threads : pc[u] = "sema" /\ on[u] = r => pc'[u] = "sema" /\ on'[u] = r
      BY <2>1 DEF OtherWaitKept
    <3>2. SemaOK(r) /\ sema'[r] = sema[r]
      BY <2>1, <1>0 DEF KInv, SemaInv
    <3>. QED  BY <3>1, <3>2 DEF SemaOK
  <2>. QED  BY <2>1 DEF SemaInv
<1>5. FlagInv'
  BY <1>0 DEF KInv, FlagInv
<1>6. PermitInv'
  <2>1. ASSUME NEW r \in Semas, r # s PROVE PermitOK(r)'
    <3>1. \A u \in Threads : (pc[u] = "sema" /\ on[u] = r) <=> (pc'[u] = "sema" /\ on'[u] = r)
      BY <2>1 DEF OtherWaitKept
    <3>2. sema'[r] = sema[r]
      BY <2>1, <1>0
    <3>3. Off(r)' = Off(r)
      BY <3>1, <3>2 DEF Off
    <3>. QED  BY <3>2, <3>3, <1>0 DEF KInv, PermitInv, PermitOK, Gentle
  <2>. QED  BY <2>1 DEF PermitInv
<1>. QED  BY <1>1, <1>2, <1>3, <1>4, <1>5, <1>6 DEF KInv

\* One semaphore's record.
LEMMA OneSema ==
    ASSUME KInv, NEW s \in Semas
    PROVE  /\ sema[s] \in SemaRecs /\ SemaOK(s) /\ PermitOK(s)
           /\ \A u \in Threads : WaiterOK(u, s)
  BY DEF KInv, KTypes, SemaInv, PermitInv, ObjectInv, WaiterOK

\* A call that changes no thread and no list: the count moves, or a semaphore is
\* created.
LEMMA SemaOnly ==
    ASSUME KInv, NEW s \in Semas, NEW m \in SemaRecs, sema' = [sema EXCEPT ![s] = m],
           polling' \in [Workers -> Semas \cup {Nothing}], UNCHANGED <<flagVars, threadVars>>,
           m.waitList = sema[s].waitList,
           m.state # "unused", m.state = sema[s].state \/ sema[s].state = "unused",
           0 <= m.count, m.count <= m.maxCount, 1 <= m.maxCount,
           m.count <= sema[s].count \/ sema[s].state # "live"
    PROVE  KInv'
<1>1. /\ sema'[s] = m
      /\ info' = info /\ pc' = pc /\ on' = on /\ parked' = parked /\ ret' = ret /\ ops' = ops
  BY DEF KInv, KTypes
<1>2. ThreadTypes' /\ ForceInv'
  BY <1>1 DEF KInv, KTypes, ThreadTypes, ForceInv, Gentle
<1>3. SemaOK(s)'
  <2>1. m.state # "live" => m.waitList = <<>>
    BY OneSema DEF SemaOK
  <2>. QED  BY <1>1, <2>1, OneSema DEF SemaOK
<1>4. PermitOK(s)'
  <2>1. Off(s)' = Off(s) /\ (Gentle' <=> Gentle)
    BY <1>1 DEF Off, Gentle
  <2>2. CASE sema[s].state = "live"
    <3>1. Cardinality(Off(s)) \in Int
      <4>1. Off(s) \in SUBSET Threads
        BY DEF Off
      <4>. QED  BY <4>1, Constants, FS_Subset, FS_CardinalityType
    <3>2. m.count \in Int /\ sema[s].count \in Int /\ m.count <= sema[s].count
      BY <2>2, OneSema DEF SemaRecs
    <3>3. PermitOK(s) /\ sema'[s].waitList = sema[s].waitList /\ sema'[s].count = m.count
      BY <1>1, OneSema
    <3>. QED  BY <2>1, <2>2, <3>1, <3>2, <3>3 DEF PermitOK
  <2>3. CASE sema[s].state # "live"
    <3>1. sema'[s].waitList = <<>>
      BY <1>1, <2>3, OneSema DEF SemaOK
    <3>. QED  BY <3>1 DEF PermitOK
  <2>. QED  BY <2>2, <2>3
<1>5. ASSUME NEW u \in Threads
      PROVE  /\ LocalOK(info'[u], pc'[u], u \in parked')
             /\ OtherWaitKept(u, s) /\ WaiterOK(u, s)'
  <2>1. LocalOK(info'[u], pc'[u], u \in parked')
    BY <1>1 DEF KInv, ThreadInv
  <2>2. OtherWaitKept(u, s)
    BY <1>1 DEF OtherWaitKept, Stuck, KInv, ObjectInv
  <2>3. WaiterOK(u, s)'
    BY <1>1, OneSema DEF WaiterOK, Stuck
  <2>. QED  BY <2>1, <2>2, <2>3
<1>. QED  BY <1>1, <1>2, <1>3, <1>4, <1>5, SemaCall

\* CreateSema clamps what it is asked for.
LEMMA CreateSemaKeeps ==
    ASSUME KInv, NEW init \in -1..MaxPermits, NEW max \in -1..MaxPermits, CreateSema(init, max),
           UNCHANGED flagVars
    PROVE  KInv'
<1>1. PICK s \in Semas : /\ \A r \in Semas : sema[r].state = "unused" <=> r >= s
                         /\ sema' = [sema EXCEPT ![s] = Clamped(init, max)]
  BY DEF CreateSema
<1> DEFINE m == Clamped(init, max)
<1>2. /\ m \in SemaRecs /\ m.waitList = <<>> /\ m.state = "live"
      /\ 0 <= m.count /\ m.count <= m.maxCount /\ 1 <= m.maxCount
  <2> DEFINE top == IF max <= 0 THEN 1 ELSE max
             n == IF init < 0 THEN 0 ELSE IF init > top THEN top ELSE init
  <2>1. top \in Int /\ n \in Int /\ 0 <= n /\ n <= top /\ 1 <= top
    BY Constants
  <2>2. m = [state |-> "live", maxCount |-> top, waiters |-> 0, waitList |-> <<>>, count |-> n]
    BY DEF Clamped
  <2>. HIDE DEF top, n
  <2>3. <<>> \in Seq(Threads)
    OBVIOUS
  <2>. QED  BY <2>1, <2>2, <2>3 DEF SemaRecs
<1>3. sema[s].state = "unused" /\ sema[s].waitList = <<>>
  <2>1. sema[s].state = "unused"
    BY <1>1, Constants
  <2>. QED  BY <2>1, OneSema DEF SemaOK
<1>4. UNCHANGED <<polling, threadVars>>
  BY DEF CreateSema
<1>. HIDE DEF m
<1>. QED  BY <1>1, <1>2, <1>3, <1>4, SemaOnly DEF KInv, KTypes, m

\* A permit is taken without a thread: by a poll, or by a worker.
LEMMA TakeKeeps ==
    ASSUME KInv, NEW s \in Semas, sema[s].state = "live", sema[s].count > 0,
           sema' = [sema EXCEPT ![s].count = @ - 1], UNCHANGED <<polling, flagVars, threadVars>>
    PROVE  KInv'
<1> DEFINE n == sema[s].count - 1
           m == [sema[s] EXCEPT !.count = n]
<1>1. n \in Int /\ 0 <= n /\ n <= sema[s].count /\ n <= sema[s].maxCount /\ 1 <= sema[s].maxCount
  BY OneSema DEF SemaRecs, SemaOK
<1>2. sema' = [sema EXCEPT ![s] = m]
  BY DEF KInv, KTypes, SemaRecs
<1>. HIDE DEF n
<1>3. /\ m \in SemaRecs /\ m.count = n /\ m.maxCount = sema[s].maxCount
      /\ m.waitList = sema[s].waitList /\ m.state = "live"
  BY <1>1, OneSema DEF SemaRecs
<1>. HIDE DEF m
<1>. QED  BY <1>1, <1>2, <1>3, SemaOnly DEF KInv, KTypes

\* PollSema takes a permit without waiting.
LEMMA PollSemaKeeps == ASSUME KInv, NEW s \in Semas, PollSema(s), UNCHANGED flagVars PROVE KInv'
  BY TakeKeeps DEF PollSema

\* A worker's wait takes a permit or begins to poll.
LEMMA WorkerWaitSemaKeeps ==
    ASSUME KInv, NEW w \in Workers, NEW s \in Semas, WorkerWaitSema(w, s), UNCHANGED flagVars
    PROVE  KInv'
<1>1. CASE sema[s].count > 0
  BY <1>1, TakeKeeps DEF WorkerWaitSema
<1>2. CASE sema[s].count = 0
  <2> DEFINE n == sema[s].waiters + 1
             m == [sema[s] EXCEPT !.waiters = n]
  <2>1. n \in Int
    BY OneSema DEF SemaRecs
  <2>2. /\ sema' = [sema EXCEPT ![s] = m] /\ sema[s].state = "live"
        /\ polling' = [polling EXCEPT ![w] = s] /\ UNCHANGED threadVars
    BY <1>2 DEF WorkerWaitSema, KInv, KTypes, SemaRecs
  <2>. HIDE DEF n
  <2>3. /\ m \in SemaRecs /\ m.count = sema[s].count /\ m.maxCount = sema[s].maxCount
        /\ m.waitList = sema[s].waitList /\ m.state = "live"
    BY <2>1, <2>2, OneSema DEF SemaRecs
  <2>4. /\ 0 <= sema[s].count /\ sema[s].count <= sema[s].maxCount /\ 1 <= sema[s].maxCount
        /\ sema[s].count \in Int
    BY <2>2, OneSema DEF SemaOK, SemaRecs
  <2>5. polling' \in [Workers -> Semas \cup {Nothing}]
    BY <2>2 DEF KInv, KTypes
  <2>. HIDE DEF m
  <2>6. m.count <= sema[s].count /\ m.count <= m.maxCount
    BY <2>3, <2>4
  <2>. QED  BY <2>2, <2>3, <2>4, <2>5, <2>6, SemaOnly
<1>. QED  BY <1>1, <1>2 DEF WorkerWaitSema

\* A polling worker finds a permit, or the semaphore deleted.
LEMMA WorkerPollsKeeps ==
    ASSUME KInv, NEW w \in Workers, WorkerPolls(w), UNCHANGED flagVars PROVE KInv'
<1> DEFINE s == polling[w]
           n == IF sema[s].state = "deleted" THEN sema[s].count ELSE sema[s].count - 1
           k == sema[s].waiters - 1
           m == [sema[s] EXCEPT !.waiters = k, !.count = n]
<1>1. s \in Semas
  BY DEF WorkerPolls, KInv, KTypes
<1>2. /\ n \in Int /\ 0 <= n /\ n <= sema[s].count /\ n <= sema[s].maxCount
      /\ 1 <= sema[s].maxCount /\ sema[s].state # "unused" /\ k \in Int
  BY <1>1, OneSema DEF SemaRecs, SemaOK, WorkerPolls
<1>3. /\ sema' = [sema EXCEPT ![s] = m] /\ UNCHANGED threadVars
      /\ polling' = [polling EXCEPT ![w] = Nothing]
  BY DEF WorkerPolls
<1>. HIDE DEF n, k
<1>4. /\ m \in SemaRecs /\ m.count = n /\ m.maxCount = sema[s].maxCount
      /\ m.waitList = sema[s].waitList /\ m.state = sema[s].state
  BY <1>1, <1>2, OneSema DEF SemaRecs
<1>5. polling' \in [Workers -> Semas \cup {Nothing}]
  BY <1>3 DEF KInv, KTypes
<1>. HIDE DEF m, s
<1>. QED  BY <1>1, <1>2, <1>3, <1>4, <1>5, SemaOnly

\* A call wakes threads T and changes no other thread state.
LEMMA WakeAll ==
    ASSUME KInv, NEW T, UNCHANGED <<info, pc, on, ret, ops>>, parked' = parked \ Woken(T)
    PROVE  /\ ThreadTypes' /\ ForceInv'
           /\ \A u \in Threads : /\ LocalOK(info'[u], pc'[u], u \in parked')
                                 /\ Stuck(u)' => Stuck(u) /\ u \notin T
<1>1. ThreadTypes' /\ ForceInv'
  BY DEF KInv, KTypes, ThreadTypes, ForceInv, Gentle
<1>2. ASSUME NEW u \in Threads PROVE LocalOK(info'[u], pc'[u], u \in parked')
  <2>1. CASE u \in parked' <=> u \in parked
    BY <2>1 DEF KInv, ThreadInv
  <2>2. CASE ~(u \in parked' <=> u \in parked)
    <3>1. u \in parked /\ u \notin parked' /\ info[u].suspendCount = 0
      BY <2>2 DEF Woken
    <3>2. LocalOK(info[u], pc[u], u \in parked)
      BY DEF KInv, ThreadInv
    <3>. QED  BY <3>1, <3>2 DEF LocalOK
  <2>. QED  BY <2>1, <2>2
<1>3. ASSUME NEW u \in Threads, Stuck(u)' PROVE Stuck(u) /\ u \notin T
  BY <1>3 DEF Stuck, Woken
<1>. QED  BY <1>1, <1>2, <1>3

\* DeleteSema leaves nobody stuck on the semaphore.
LEMMA DeleteSemaKeeps ==
    ASSUME KInv, NEW s \in Semas, DeleteSema(s), UNCHANGED flagVars
    PROVE  KInv'
<1> DEFINE m == [sema[s] EXCEPT !.state = "deleted", !.waitList = <<>>]
<1>1. /\ sema' = [sema EXCEPT ![s] = m] /\ UNCHANGED <<polling, info, pc, on, ret, ops>>
      /\ parked' = parked \ Woken(Listed(s)) /\ sema[s].state = "live"
  BY DEF DeleteSema
<1>2. /\ m \in SemaRecs /\ m.state = "deleted" /\ m.waitList = <<>> /\ m.count = sema[s].count
      /\ m.maxCount = sema[s].maxCount
  <2>1. <<>> \in Seq(Threads)
    OBVIOUS
  <2> DEFINE e == <<>>
  <2>2. m = [sema[s] EXCEPT !.state = "deleted", !.waitList = e] /\ e \in Seq(Threads)
    BY <2>1
  <2>. HIDE DEF e, m
  <2>3. /\ m \in SemaRecs /\ m.state = "deleted" /\ m.waitList = e /\ m.count = sema[s].count
        /\ m.maxCount = sema[s].maxCount
    BY <2>2, OneSema DEF SemaRecs
  <2>. QED  BY <2>3 DEF e
<1>3. sema'[s] = m
  BY <1>1 DEF KInv, KTypes
<1>. HIDE DEF m
<1>4. SemaOK(s)'
  <2>1. (\A u : ~InRunQueue(<<>>, u)) /\ NoDuplicates(<<>>)
    BY DEF InRunQueue, NoDuplicates
  <2>. QED  BY <1>1, <1>2, <1>3, <2>1, OneSema DEF SemaOK
<1>5. PermitOK(s)'
  BY <1>2, <1>3 DEF PermitOK
<1>6. ThreadTypes' /\ ForceInv'
  BY <1>1, WakeAll
<1>7. ASSUME NEW u \in Threads
      PROVE  /\ LocalOK(info'[u], pc'[u], u \in parked')
             /\ OtherWaitKept(u, s) /\ WaiterOK(u, s)'
  <2>1. LocalOK(info'[u], pc'[u], u \in parked') /\ (Stuck(u)' => Stuck(u) /\ u \notin Listed(s))
    BY <1>1, WakeAll
  <2>2. OtherWaitKept(u, s)
    BY <1>1, <2>1 DEF OtherWaitKept, KInv, ObjectInv
  <2>3. u \notin Listed(s) => ~InRunQueue(sema[s].waitList, u)
    BY DEF Listed, InRunQueue
  <2>4. WaiterOK(u, s)'
    BY <1>1, <1>2, <1>3, <2>1, <2>3, OneSema DEF WaiterOK
  <2>. QED  BY <2>1, <2>2, <2>4
<1>8. polling' \in [Workers -> Semas \cup {Nothing}]
  BY <1>1 DEF KInv, KTypes
<1>. QED  BY <1>1, <1>2, <1>4, <1>5, <1>6, <1>7, <1>8, SemaCall

\* The threads that may take a permit are finitely many.
LEMMA OffFinite == ASSUME NEW s \in Semas PROVE IsFiniteSet(Off(s)) /\ Cardinality(Off(s)) \in Nat
<1>1. Off(s) \in SUBSET Threads
  BY DEF Off
<1>. QED  BY <1>1, Constants, FS_Subset, FS_CardinalityType

\* SignalSema adds a permit and sends the first waiter to look at it.
LEMMA SignalSemaKeeps ==
    ASSUME KInv, NEW s \in Semas, SignalSema(s), UNCHANGED flagVars
    PROVE  KInv'
<1> DEFINE list == sema[s].waitList
           n == sema[s].count + 1
<1>0. /\ sema[s].state = "live" /\ list \in Seq(Threads) /\ NoDuplicates(list)
      /\ n \in Int /\ 0 <= n /\ n <= sema[s].maxCount /\ 1 <= sema[s].maxCount
      /\ UNCHANGED <<polling, info, pc, on, ret, ops>>
  BY OneSema DEF SignalSema, SemaRecs, SemaOK
<1>p. polling' \in [Workers -> Semas \cup {Nothing}]
  BY <1>0 DEF KInv, KTypes
<1>1. CASE list = <<>>
  <2> DEFINE m == [sema[s] EXCEPT !.count = n]
  <2>1. sema' = [sema EXCEPT ![s] = m] /\ parked' = parked
    BY <1>1 DEF SignalSema, KInv, KTypes, SemaRecs
  <2>2. /\ m \in SemaRecs /\ m.state = "live" /\ m.waitList = list /\ m.count = n
        /\ m.maxCount = sema[s].maxCount
    <3>. HIDE DEF n
    <3>. QED  BY <1>0, OneSema DEF SemaRecs
  <2>3. sema'[s] = m
    BY <2>1 DEF KInv, KTypes
  <2>. HIDE DEF m, n
  <2>4. SemaOK(s)'
    BY <1>0, <2>2, <2>3, OneSema DEF SemaOK
  <2>5. PermitOK(s)'
    BY <1>1, <2>2, <2>3 DEF PermitOK
  <2>6. ThreadTypes' /\ ForceInv'
    BY <1>0, <2>1 DEF KInv, KTypes, ThreadTypes, ForceInv, Gentle
  <2>7. ASSUME NEW u \in Threads
        PROVE  /\ LocalOK(info'[u], pc'[u], u \in parked')
               /\ OtherWaitKept(u, s) /\ WaiterOK(u, s)'
    <3>1. LocalOK(info'[u], pc'[u], u \in parked')
      BY <1>0, <2>1 DEF KInv, ThreadInv
    <3>2. OtherWaitKept(u, s)
      BY <1>0, <2>1 DEF OtherWaitKept, Stuck, KInv, ObjectInv
    <3>3. WaiterOK(u, s)'
      BY <1>0, <2>1, <2>2, <2>3, OneSema DEF WaiterOK, Stuck
    <3>. QED  BY <3>1, <3>2, <3>3
  <2>. QED  BY <1>0, <1>p, <2>1, <2>2, <2>4, <2>5, <2>6, <2>7, SemaCall
<1>2. CASE list # <<>>
  <2> DEFINE h == Head(list)
             m == [sema[s] EXCEPT !.count = n, !.waitList = Tail(list)]
  <2>1. sema' = [sema EXCEPT ![s] = m] /\ parked' = parked \ Woken({h})
    BY <1>2 DEF SignalSema
  <2>p. /\ h \in Threads /\ Tail(list) \in Seq(Threads) /\ NoDuplicates(Tail(list))
        /\ InRunQueue(list, h)
        /\ \A u : InRunQueue(Tail(list), u) <=> InRunQueue(list, u) /\ u # h
    <3>. HIDE DEF list
    <3>. QED  BY <1>0, <1>2, PopKeeps
  <2>2. /\ m \in SemaRecs /\ m.state = "live" /\ m.waitList = Tail(list) /\ m.count = n
        /\ m.maxCount = sema[s].maxCount
    <3>. HIDE DEF n, list
    <3>. QED  BY <1>0, <2>p, OneSema DEF SemaRecs
  <2>3. sema'[s] = m
    BY <2>1 DEF KInv, KTypes
  <2>. HIDE DEF m, h
  <2>4. SemaOK(s)'
    <3>. HIDE DEF n
    <3>. QED  BY <1>0, <2>p, <2>2, <2>3, OneSema DEF SemaOK
  <2>5. PermitOK(s)'
    <3>1. pc[h] = "sema" /\ on[h] = s
      BY <2>p, OneSema DEF SemaOK
    <3>2. Off(s)' = Off(s) \cup {h} /\ h \notin Off(s)
      BY <1>0, <2>p, <2>2, <2>3, <3>1 DEF Off
    <3>3. Cardinality(Off(s)') = Cardinality(Off(s)) + 1 /\ Cardinality(Off(s)) \in Nat
      BY <3>2, OffFinite, FS_AddElement
    <3>4. Gentle' => Gentle
      BY <1>0 DEF Gentle
    <3>5. Gentle => sema[s].count <= Cardinality(Off(s))
      BY <1>0, <1>2, OneSema DEF PermitOK
    <3>6. sema[s].count \in Int /\ sema'[s].count = sema[s].count + 1
      BY <2>2, <2>3, OneSema DEF SemaRecs
    <3>. QED  BY <3>3, <3>4, <3>5, <3>6 DEF PermitOK
  <2>6. ThreadTypes' /\ ForceInv'
    BY <1>0, <2>1, WakeAll
  <2>7. ASSUME NEW u \in Threads
        PROVE  /\ LocalOK(info'[u], pc'[u], u \in parked')
               /\ OtherWaitKept(u, s) /\ WaiterOK(u, s)'
    <3>1. LocalOK(info'[u], pc'[u], u \in parked') /\ (Stuck(u)' => Stuck(u) /\ u \notin {h})
      BY <1>0, <2>1, WakeAll
    <3>2. OtherWaitKept(u, s)
      BY <1>0, <3>1 DEF OtherWaitKept, KInv, ObjectInv
    <3>3. WaiterOK(u, s)'
      BY <1>0, <2>p, <2>2, <2>3, <3>1, OneSema DEF WaiterOK
    <3>. QED  BY <3>1, <3>2, <3>3
  <2>. QED  BY <1>0, <1>p, <2>1, <2>2, <2>4, <2>5, <2>6, <2>7, SemaCall
<1>. QED  BY <1>1, <1>2

\* A step of a wait: the thread t begins, continues or ends a wait on s, and
\* its entry on the list moves with it.
LEMMA WaitStep ==
    ASSUME KInv, NEW t \in Threads, NEW s \in Semas, NEW m \in SemaRecs, NEW i \in Infos,
           NEW p \in {"run", "sema"}, NEW r \in Results,
           pc[t] = "run" \/ (pc[t] = "sema" /\ on[t] = s),
           sema' = [sema EXCEPT ![s] = m], UNCHANGED <<polling, flagVars, ops>>,
           info' = [info EXCEPT ![t] = i], pc' = [pc EXCEPT ![t] = p],
           on' = [on EXCEPT ![t] = s], ret' = [ret EXCEPT ![t] = r],
           parked' \in {parked, parked \cup {t}},
           LocalOK(i, p, t \in parked'),
           Gentle => ~i.terminated /\ ~i.forceRelease,
           NoDuplicates(m.waitList),
           \A u \in Threads \ {t} : InRunQueue(m.waitList, u) <=> InRunQueue(sema[s].waitList, u),
           p = "run" => ~InRunQueue(m.waitList, t),
           p = "sema" => r = "none" /\ InRunQueue(m.waitList, t),
           m.state = sema[s].state, m.state # "unused", m.state # "live" => m.waitList = <<>>,
           0 <= m.count, m.count <= m.maxCount, 1 <= m.maxCount,
           Gentle /\ m.state = "live" /\ m.waitList # <<>> =>
               m.count = 0 \/ (m.count = sema[s].count - 1 /\ sema[s].waitList # <<>>)
    PROVE  KInv'
<1>1. /\ sema'[s] = m /\ info'[t] = i /\ pc'[t] = p /\ on'[t] = s /\ ret'[t] = r
      /\ \A u \in Threads \ {t} : /\ info'[u] = info[u] /\ pc'[u] = pc[u] /\ on'[u] = on[u]
                                  /\ ret'[u] = ret[u] /\ (u \in parked' <=> u \in parked)
  BY DEF KInv, KTypes
<1>2. ThreadTypes'
  BY DEF KInv, KTypes, ThreadTypes, Places
<1>3. ForceInv'
  BY <1>1 DEF KInv, ForceInv, Gentle
<1>4. SemaOK(s)'
  <2>1. ASSUME NEW u \in Threads, InRunQueue(m.waitList, u) PROVE pc'[u] = "sema" /\ on'[u] = s
    <3>1. CASE u = t
      BY <1>1, <2>1, <3>1
    <3>2. CASE u # t
      BY <1>1, <2>1, <3>2, OneSema DEF SemaOK
    <3>. QED  BY <3>1, <3>2
  <2>. QED  BY <1>1, <2>1 DEF SemaOK
<1>5. PermitOK(s)'
  <2>. SUFFICES ASSUME Gentle, m.state = "live", m.waitList # <<>>
                PROVE  m.count <= Cardinality(Off(s)')
    BY <1>1 DEF PermitOK, Gentle
  <2>1. IsFiniteSet(Off(s)') /\ Cardinality(Off(s)') \in Nat
    <3>1. Off(s)' \in SUBSET Threads
      BY DEF Off
    <3>. QED  BY <3>1, Constants, FS_Subset, FS_CardinalityType
  <2>2. CASE m.count = 0
    BY <2>1, <2>2
  <2>3. CASE m.count = sema[s].count - 1 /\ sema[s].waitList # <<>>
    <3>1. sema[s].count <= Cardinality(Off(s)) /\ sema[s].count \in Int
      BY <2>3, OneSema DEF PermitOK, SemaRecs
    <3>2. Off(s) \ {t} \in SUBSET Off(s)'
      BY <1>1 DEF Off
    <3>3. Cardinality(Off(s)) \in Nat /\ IsFiniteSet(Off(s))
      BY OffFinite
    <3>4. /\ Cardinality(Off(s) \ {t}) >= Cardinality(Off(s)) - 1
          /\ Cardinality(Off(s) \ {t}) \in Nat
      <4>1. /\ IsFiniteSet(Off(s) \ {t})
            /\ Cardinality(Off(s) \ {t}) = IF t \in Off(s) THEN Cardinality(Off(s)) - 1
                                           ELSE Cardinality(Off(s))
        BY <3>3, FS_RemoveElement
      <4>2. Cardinality(Off(s) \ {t}) \in Nat
        BY <4>1, FS_CardinalityType
      <4>. QED  BY <3>3, <4>1, <4>2
    <3>5. Cardinality(Off(s) \ {t}) <= Cardinality(Off(s)')
      BY <2>1, <3>2, FS_Subset
    <3>. QED  BY <2>1, <2>3, <3>1, <3>3, <3>4, <3>5
  <2>. QED  BY <2>2, <2>3
<1>6. ASSUME NEW u \in Threads
      PROVE  /\ LocalOK(info'[u], pc'[u], u \in parked')
             /\ OtherWaitKept(u, s) /\ WaiterOK(u, s)'
  <2>1. CASE u = t
    BY <1>1, <2>1 DEF OtherWaitKept, WaiterOK
  <2>2. CASE u # t
    <3>1. LocalOK(info'[u], pc'[u], u \in parked')
      BY <1>1, <2>2 DEF KInv, ThreadInv
    <3>2. OtherWaitKept(u, s)
      BY <1>1, <2>2 DEF OtherWaitKept, Stuck, KInv, ObjectInv
    <3>3. WaiterOK(u, s)'
      BY <1>1, <2>2, OneSema DEF WaiterOK, Stuck
    <3>. QED  BY <3>1, <3>2, <3>3
  <2>. QED  BY <2>1, <2>2
<1>7. polling' \in [Workers -> Semas \cup {Nothing}]
  BY DEF KInv, KTypes
<1>. QED  BY <1>2, <1>3, <1>4, <1>5, <1>6, <1>7, SemaCall

\* What setThreadWaiting and clearThreadWaiting make of a record.
LEMMA SetWaiting ==
    ASSUME NEW i \in Infos, NEW type \in {"TSW_SEMA", "TSW_EVENT"}
    PROVE  LET j == setThreadWaiting(i, type)
           IN  /\ j \in Infos /\ j.suspendCount = i.suspendCount /\ j.waitType = type
               /\ j.status = IF i.suspendCount > 0 THEN "THS_WAITSUSPEND" ELSE "THS_WAIT"
               /\ j.terminated <=> i.terminated
               /\ ~j.forceRelease
  BY DEF Infos, setThreadWaiting

\* clearThreadWaiting keeps the suspend count and the two flags.
LEMMA ClearWaiting ==
    ASSUME NEW i \in Infos
    PROVE  LET j == [clearThreadWaiting(i) EXCEPT !.status = "THS_RUN"]
           IN  /\ j \in Infos /\ j.suspendCount = i.suspendCount /\ j.status = "THS_RUN"
               /\ j.terminated <=> i.terminated
               /\ j.forceRelease <=> i.forceRelease
  BY DEF Infos, clearThreadWaiting

\* consumeForceRelease clears the release and nothing else.
LEMMA ConsumeRelease ==
    ASSUME NEW i \in Infos
    PROVE  LET j == consumeForceRelease(i)
           IN  /\ j \in Infos /\ j.suspendCount = i.suspendCount
               /\ j.terminated <=> i.terminated
               /\ ~j.forceRelease
  BY DEF Infos, consumeForceRelease

\* WaitSema takes a permit, or publishes the thread and parks it.
LEMMA WaitSemaKeeps ==
    ASSUME KInv, NEW t \in Threads, NEW s \in Semas, WaitSema(t, s), UNCHANGED flagVars
    PROVE  KInv'
<1>0. /\ sema[s].state = "live" /\ pc[t] = "run" /\ t \notin parked /\ ~info[t].terminated
      /\ on' = [on EXCEPT ![t] = s] /\ UNCHANGED <<polling, ops>>
      /\ info[t].suspendCount = 0 /\ info[t] \in Infos
  BY OneInfo, Constants DEF WaitSema, Running, LocalOK, Infos
<1>1. /\ sema[s] \in SemaRecs /\ sema[s].waitList \in Seq(Threads) /\ NoDuplicates(sema[s].waitList)
      /\ ~InRunQueue(sema[s].waitList, t) /\ sema[s].count \in Int /\ sema[s].waiters \in Int
      /\ 0 <= sema[s].count /\ sema[s].count <= sema[s].maxCount /\ 1 <= sema[s].maxCount
      /\ sema[s].maxCount \in Int
  BY <1>0, OneSema DEF SemaOK, SemaRecs
<1>2. CASE sema[s].count > 0
  <2> DEFINE n == sema[s].count - 1
             m == [sema[s] EXCEPT !.count = n]
             i == [clearThreadWaiting(info[t]) EXCEPT !.status = "THS_RUN"]
  <2>1. /\ sema' = [sema EXCEPT ![s] = m] /\ info' = [info EXCEPT ![t] = i]
        /\ pc' = [pc EXCEPT ![t] = "run"] /\ ret' = [ret EXCEPT ![t] = "KE_OK"]
        /\ parked' = parked
    BY <1>2 DEF WaitSema, Returns, KInv, KTypes, SemaRecs
  <2>2. n \in Int /\ 0 <= n /\ n <= sema[s].maxCount
    BY <1>1, <1>2
  <2>h. n = sema[s].count - 1
    OBVIOUS
  <2>. HIDE DEF n
  <2>3. /\ m \in SemaRecs /\ m.count = n /\ m.maxCount = sema[s].maxCount /\ m.state = "live"
        /\ m.waitList = sema[s].waitList
    BY <1>0, <1>1, <2>2 DEF SemaRecs
  <2>4. /\ i \in Infos /\ i.suspendCount = 0 /\ i.status = "THS_RUN" /\ ~i.terminated
        /\ i.forceRelease <=> info[t].forceRelease
    BY <1>0, ClearWaiting
  <2>. HIDE DEF m, i
  <2>5. LocalOK(i, "run", t \in parked')
    BY <1>0, <2>1, <2>4 DEF LocalOK
  <2>6. Gentle => ~i.terminated /\ ~i.forceRelease
    BY <2>4, OneInfo
  <2>. QED  BY <1>0, <1>1, <2>h, <2>1, <2>2, <2>3, <2>4, <2>5, <2>6, WaitStep DEF Results
<1>3. CASE sema[s].count = 0
  <2> DEFINE n == sema[s].waiters + 1
             l == publishWaiter(sema[s].waitList, t)
             m == [sema[s] EXCEPT !.waiters = n, !.waitList = l]
             i == setThreadWaiting(info[t], "TSW_SEMA")
  <2>1. /\ sema' = [sema EXCEPT ![s] = m] /\ info' = [info EXCEPT ![t] = i]
        /\ pc' = [pc EXCEPT ![t] = "sema"] /\ ret' = [ret EXCEPT ![t] = "none"]
        /\ parked' = parked \cup {t}
    BY <1>1, <1>3 DEF WaitSema, PublishAndPark, Parks
  <2>2. n \in Int
    BY <1>1
  <2>3. /\ l \in Seq(Threads) /\ NoDuplicates(l)
        /\ \A u : InRunQueue(l, u) <=> InRunQueue(sema[s].waitList, u) \/ u = t
    BY <1>1, PublishKeeps
  <2>. HIDE DEF n, l
  <2>4. /\ m \in SemaRecs /\ m.count = sema[s].count /\ m.maxCount = sema[s].maxCount
        /\ m.state = "live" /\ m.waitList = l
    BY <1>0, <1>1, <2>2, <2>3 DEF SemaRecs
  <2>5. /\ i \in Infos /\ i.suspendCount = 0 /\ i.waitType = "TSW_SEMA" /\ i.status = "THS_WAIT"
        /\ ~i.terminated /\ ~i.forceRelease
    BY <1>0, SetWaiting
  <2>. HIDE DEF m, i
  <2>6. LocalOK(i, "sema", t \in parked')
    BY <2>1, <2>5 DEF LocalOK
  <2>. QED  BY <1>0, <1>1, <1>3, <2>1, <2>3, <2>4, <2>5, <2>6, WaitStep DEF Results
<1>. QED  BY <1>1, <1>2, <1>3 DEF WaitSema

\* A waiter that was terminated leaves the list and exits.
LEMMA WaitSemaExits ==
    ASSUME KInv, NEW t \in Threads, NEW s \in Semas, pc[t] = "sema", on[t] = s, t \notin parked,
           info[t].terminated, Exits(t), UNCHANGED <<parked, polling, flagVars, ops>>,
           NEW m \in SemaRecs, sema' = [sema EXCEPT ![s] = m],
           m.state = sema[s].state, m.count = sema[s].count, m.maxCount = sema[s].maxCount,
           m.waitList = unpublishWaiter(sema[s].waitList, t)
    PROVE  KInv'
<1>0. /\ sema[s].waitList \in Seq(Threads) /\ NoDuplicates(sema[s].waitList)
      /\ sema[s].state # "unused"
  BY OneSema DEF SemaRecs, SemaOK, WaiterOK
<1>1. /\ sema'[s] = m /\ info'[t] = Dormant /\ pc'[t] = "gone"
      /\ \A u \in Threads \ {t} : /\ info'[u] = info[u] /\ on'[u] = on[u]
                                  /\ pc'[u] = pc[u] \/ (pc[u] = "join" /\ pc'[u] = "run")
                                  /\ ret'[u] = ret[u]
  BY DEF Exits, KInv, KTypes
<1>2. /\ NoDuplicates(m.waitList)
      /\ \A u : InRunQueue(m.waitList, u) <=> InRunQueue(sema[s].waitList, u) /\ u # t
      /\ sema[s].waitList = <<>> => m.waitList = <<>>
  <2> DEFINE l == unpublishWaiter(sema[s].waitList, t)
  <2>1. /\ NoDuplicates(l) /\ (sema[s].waitList = <<>> => l = <<>>)
        /\ \A u : InRunQueue(l, u) <=> InRunQueue(sema[s].waitList, u) /\ u # t
    BY <1>0, UnpublishKeeps, UnpublishOthers
  <2>2. m.waitList = l
    OBVIOUS
  <2>. HIDE DEF l
  <2>. QED  BY <2>1, <2>2
<1>3. ThreadTypes'
  <2>1. Dormant \in Infos
    BY Constants DEF Infos, Dormant
  <2>. QED  BY <2>1 DEF Exits, KInv, KTypes, ThreadTypes, Places, Results
<1>4. ~Gentle /\ (Gentle' <=> Gentle)
  BY OneInfo DEF Gentle
<1>5. ForceInv' /\ PermitOK(s)'
  BY <1>4 DEF ForceInv, PermitOK
<1>6. SemaOK(s)'
  <2>1. \A u \in Threads : InRunQueue(m.waitList, u) => pc'[u] = "sema" /\ on'[u] = s
    BY <1>1, <1>2, OneSema DEF SemaOK
  <2>. QED  BY <1>0, <1>1, <1>2, <2>1, OneSema DEF SemaOK
<1>7. ASSUME NEW u \in Threads
      PROVE  /\ LocalOK(info'[u], pc'[u], u \in parked')
             /\ OtherWaitKept(u, s) /\ WaiterOK(u, s)'
  <2>1. CASE u = t
    <3>1. LocalOK(info'[u], pc'[u], u \in parked')
      BY <1>1, <2>1 DEF LocalOK, Dormant
    <3>. QED  BY <1>1, <2>1, <3>1 DEF OtherWaitKept, WaiterOK
  <2>2. CASE u # t
    <3>1. LocalOK(info'[u], pc'[u], u \in parked')
      <4>1. CASE pc'[u] = pc[u]
        BY <1>1, <2>2, <4>1, OneInfo
      <4>2. CASE pc[u] = "join" /\ pc'[u] = "run"
        <5>1. LocalOK(info[u], "join", u \in parked) => LocalOK(info[u], "run", u \in parked)
          BY Zenon DEF LocalOK
        <5>. QED  BY <1>1, <2>2, <4>2, <5>1, OneInfo
      <4>. QED  BY <1>1, <2>2, <4>1, <4>2
    <3>2. OtherWaitKept(u, s)
      BY <1>1, <2>2 DEF OtherWaitKept, Stuck, KInv, ObjectInv
    <3>3. WaiterOK(u, s)'
      BY <1>1, <1>2, <2>2, OneSema DEF WaiterOK, Stuck
    <3>. QED  BY <3>1, <3>2, <3>3
  <2>. QED  BY <2>1, <2>2
<1>8. polling' \in [Workers -> Semas \cup {Nothing}]
  BY DEF KInv, KTypes
<1>. QED  BY <1>3, <1>5, <1>6, <1>7, <1>8, SemaCall

\* A woken waiter leaves the list, and exits, fails, takes a permit or parks
\* again.
LEMMA WaitSemaWokenKeeps ==
    ASSUME KInv, NEW t \in Threads, WaitSemaWoken(t), UNCHANGED flagVars PROVE KInv'
<1> DEFINE s == on[t]
           l == unpublishWaiter(sema[s].waitList, t)
           n == sema[s].waiters - 1
           m == [sema[s] EXCEPT !.waiters = n, !.waitList = l]
<1>0. pc[t] = "sema" /\ t \notin parked /\ s \in Semas /\ UNCHANGED <<polling, ops>>
  BY DEF WaitSemaWoken, KInv, ObjectInv
<1>1. /\ sema[s] \in SemaRecs /\ sema[s].waitList \in Seq(Threads) /\ NoDuplicates(sema[s].waitList)
      /\ sema[s].count \in Int /\ sema[s].waiters \in Int /\ sema[s].maxCount \in Int
      /\ sema[s].state # "unused"
      /\ 0 <= sema[s].count /\ sema[s].count <= sema[s].maxCount /\ 1 <= sema[s].maxCount
      /\ sema[s].state # "live" => sema[s].waitList = <<>>
  BY <1>0, OneSema DEF SemaOK, SemaRecs, WaiterOK
<1>2. /\ l \in Seq(Threads) /\ NoDuplicates(l) /\ (sema[s].waitList = <<>> => l = <<>>)
      /\ \A u : InRunQueue(l, u) <=> InRunQueue(sema[s].waitList, u) /\ u # t
  BY <1>1, UnpublishKeeps, UnpublishOthers
<1>3. n \in Int
  BY <1>1
<1>a. \/ /\ m.state = "deleted" \/ info[t].forceRelease \/ info[t].terminated
         /\ sema' = [sema EXCEPT ![s] = m]
         /\ IF info[t].terminated THEN Exits(t)
            ELSE IF m.state = "deleted"
            THEN Returns(t, clearThreadWaiting(info[t]), "KE_WAIT_DELETE") /\ UNCHANGED on
            ELSE Returns(t, clearThreadWaiting(consumeForceRelease(info[t])),
                         "KE_RELEASE_WAIT") /\ UNCHANGED on
         /\ UNCHANGED parked
      \/ /\ ~(m.state = "deleted" \/ info[t].forceRelease \/ info[t].terminated)
         /\ \/ /\ m.count > 0
               /\ sema' = [sema EXCEPT ![s] = [m EXCEPT !.count = @ - 1]]
               /\ Returns(t, clearThreadWaiting(info[t]), "KE_OK")
               /\ UNCHANGED parked
            \/ m.count = 0 /\ PublishAndPark(t, s, m) /\ UNCHANGED info
         /\ UNCHANGED on
  BY DEF WaitSemaWoken
<1>. HIDE DEF l, n
<1>4. /\ m \in SemaRecs /\ m.count = sema[s].count /\ m.maxCount = sema[s].maxCount
      /\ m.state = sema[s].state /\ m.waitList = l /\ m.waiters = n
  BY <1>1, <1>2, <1>3 DEF SemaRecs
<1>h. l = unpublishWaiter(sema[s].waitList, t)
  BY DEF l
<1>5. on = [on EXCEPT ![t] = s] /\ info[t] \in Infos
  BY <1>0, OneInfo
<1>. HIDE DEF m, s
<1>s. on[t] = s
  BY DEF s
<1>6. CASE info[t].terminated
  <2>1. sema' = [sema EXCEPT ![s] = m] /\ Exits(t) /\ UNCHANGED parked
    BY <1>a, <1>6
  <2>. QED  BY <1>0, <1>4, <1>h, <1>s, <1>6, <2>1, WaitSemaExits
<1>7. CASE ~info[t].terminated /\ (m.state = "deleted" \/ info[t].forceRelease)
  <2>0. sema' = [sema EXCEPT ![s] = m] /\ UNCHANGED <<parked, on>>
    BY <1>a, <1>7
  <2>s. info[t].suspendCount = 0
    BY <1>0, <1>7, OneInfo, Constants DEF LocalOK, Infos
  <2>1. CASE m.state = "deleted"
    <3> DEFINE i == [clearThreadWaiting(info[t]) EXCEPT !.status = "THS_RUN"]
    <3>1. /\ info' = [info EXCEPT ![t] = i] /\ pc' = [pc EXCEPT ![t] = "run"]
          /\ ret' = [ret EXCEPT ![t] = "KE_WAIT_DELETE"]
      BY <1>a, <1>7, <2>1 DEF Returns
    <3>2. /\ i \in Infos /\ i.suspendCount = 0 /\ i.status = "THS_RUN" /\ ~i.terminated
          /\ i.forceRelease <=> info[t].forceRelease
      BY <1>5, <1>7, <2>s, ClearWaiting
    <3>. HIDE DEF i
    <3>3. LocalOK(i, "run", t \in parked')
      BY <1>0, <2>0, <3>2 DEF LocalOK
    <3>4. Gentle => ~i.terminated /\ ~i.forceRelease
      BY <3>2, OneInfo
    <3>5. "run" \in {"run", "sema"} /\ "KE_WAIT_DELETE" \in Results
      BY DEF Results
    <3>. QED  BY <1>0, <1>1, <1>2, <1>4, <1>5, <1>s, <2>0, <2>1, <3>1, <3>2, <3>3, <3>4, <3>5,
                 WaitStep
  <2>2. CASE m.state # "deleted"
    <3> DEFINE i == [clearThreadWaiting(consumeForceRelease(info[t])) EXCEPT !.status = "THS_RUN"]
    <3>1. /\ info' = [info EXCEPT ![t] = i] /\ pc' = [pc EXCEPT ![t] = "run"]
          /\ ret' = [ret EXCEPT ![t] = "KE_RELEASE_WAIT"]
      BY <1>a, <1>7, <2>2 DEF Returns
    <3>2. /\ i \in Infos /\ i.suspendCount = 0 /\ i.status = "THS_RUN" /\ ~i.terminated
          /\ ~i.forceRelease
      BY <1>5, <1>7, <2>s, ClearWaiting, ConsumeRelease
    <3>. HIDE DEF i
    <3>3. LocalOK(i, "run", t \in parked')
      BY <1>0, <2>0, <3>2 DEF LocalOK
    <3>4. ~Gentle
      BY <1>7, <2>2, OneInfo
    <3>5. "run" \in {"run", "sema"} /\ "KE_RELEASE_WAIT" \in Results
      BY DEF Results
    <3>. QED  BY <1>0, <1>1, <1>2, <1>4, <1>5, <1>s, <2>0, <2>2, <3>1, <3>2, <3>3, <3>4, <3>5,
                 WaitStep
  <2>. QED  BY <2>1, <2>2
<1>8. CASE ~info[t].terminated /\ m.state # "deleted" /\ ~info[t].forceRelease
  <2>0. UNCHANGED on
    BY <1>a, <1>8
  <2>s. info[t].suspendCount = 0
    BY <1>0, <1>8, OneInfo, Constants DEF LocalOK, Infos
  <2>1. CASE m.count > 0
    <3> DEFINE c == sema[s].count - 1
               w == [m EXCEPT !.count = c]
               i == [clearThreadWaiting(info[t]) EXCEPT !.status = "THS_RUN"]
    <3>1. /\ sema' = [sema EXCEPT ![s] = w]
          /\ info' = [info EXCEPT ![t] = i] /\ pc' = [pc EXCEPT ![t] = "run"]
          /\ ret' = [ret EXCEPT ![t] = "KE_OK"] /\ parked' = parked
      BY <1>a, <1>4, <1>8, <2>1 DEF Returns
    <3>2. c \in Int /\ 0 <= c /\ c <= sema[s].maxCount /\ c = sema[s].count - 1
      BY <1>1, <1>4, <2>1
    <3>. HIDE DEF c
    <3>3. /\ w \in SemaRecs /\ w.count = c /\ w.maxCount = sema[s].maxCount
          /\ w.state = sema[s].state /\ w.waitList = l
      BY <1>4, <3>2 DEF SemaRecs
    <3>4. /\ i \in Infos /\ i.suspendCount = 0 /\ i.status = "THS_RUN" /\ ~i.terminated
          /\ ~i.forceRelease
      BY <1>5, <1>8, <2>s, ClearWaiting
    <3>. HIDE DEF w, i
    <3>5. LocalOK(i, "run", t \in parked')
      BY <1>0, <3>1, <3>4 DEF LocalOK
    <3>6. "run" \in {"run", "sema"} /\ "KE_OK" \in Results
      BY DEF Results
    <3>7. /\ NoDuplicates(w.waitList) /\ ~InRunQueue(w.waitList, t)
          /\ \A u \in Threads \ {t} : InRunQueue(w.waitList, u) <=> InRunQueue(sema[s].waitList, u)
          /\ w.state # "unused" /\ (w.state # "live" => w.waitList = <<>>)
          /\ w.waitList # <<>> => sema[s].waitList # <<>>
      BY <1>1, <1>2, <3>3
    <3>8. /\ on' = [on EXCEPT ![t] = s] /\ 0 <= w.count /\ w.count <= w.maxCount
          /\ 1 <= w.maxCount /\ w.count = sema[s].count - 1
      BY <1>1, <1>5, <2>0, <3>2, <3>3
    <3>. QED  BY <1>0, <1>s, <3>1, <3>3, <3>4, <3>5, <3>6, <3>7, <3>8, WaitStep
  <2>2. CASE m.count = 0
    <3> DEFINE k == n + 1
               p == publishWaiter(l, t)
               w == [m EXCEPT !.waiters = k, !.waitList = p]
    <3>1. /\ sema' = [sema EXCEPT ![s] = w] /\ info' = info
          /\ pc' = [pc EXCEPT ![t] = "sema"] /\ ret' = [ret EXCEPT ![t] = "none"]
          /\ parked' = parked \cup {t}
      BY <1>a, <1>4, <1>8, <2>2 DEF PublishAndPark, Parks
    <3>2. k \in Int
      BY <1>3
    <3>3. /\ p \in Seq(Threads) /\ NoDuplicates(p)
          /\ \A u : InRunQueue(p, u) <=> InRunQueue(l, u) \/ u = t
      BY <1>2, PublishKeeps
    <3>. HIDE DEF k, p
    <3>4. /\ w \in SemaRecs /\ w.count = sema[s].count /\ w.maxCount = sema[s].maxCount
          /\ w.state = sema[s].state /\ w.waitList = p
      BY <1>4, <3>2, <3>3 DEF SemaRecs
    <3>. HIDE DEF w
    <3>5. LocalOK(info[t], "sema", t \in parked')
      BY <1>0, <1>8, <2>s, <3>1, OneInfo DEF LocalOK
    <3>6. info' = [info EXCEPT ![t] = info[t]]
      BY <3>1 DEF KInv, KTypes
    <3>7. sema[s].state = "live"
      BY <1>1, <1>4, <1>8 DEF SemaRecs
    <3>8. "sema" \in {"run", "sema"} /\ "none" \in Results
      BY DEF Results
    <3>9. /\ NoDuplicates(w.waitList) /\ InRunQueue(w.waitList, t)
          /\ \A u \in Threads \ {t} : InRunQueue(w.waitList, u) <=> InRunQueue(sema[s].waitList, u)
          /\ w.state = "live"
      BY <1>2, <3>3, <3>4, <3>7
    <3>a. /\ on' = [on EXCEPT ![t] = s] /\ w.count = 0 /\ 0 <= w.count /\ w.count <= w.maxCount
          /\ 1 <= w.maxCount
      BY <1>1, <1>4, <1>5, <2>0, <2>2, <3>4
    <3>. QED  BY <1>0, <1>5, <1>8, <1>s, <3>1, <3>4, <3>5, <3>6, <3>8, <3>9, <3>a, <3>7, WaitStep
  <2>. QED  BY <1>1, <1>4, <2>1, <2>2
<1>. QED  BY <1>6, <1>7, <1>8

\* Every call on a semaphore keeps the invariant.
LEMMA SemaNextKeeps == ASSUME KInv, SemaNext, UNCHANGED flagVars PROVE KInv'
  BY CreateSemaKeeps, DeleteSemaKeeps, SignalSemaKeeps, PollSemaKeeps, WaitSemaWokenKeeps,
     WaitSemaKeeps, WorkerPollsKeeps, WorkerWaitSemaKeeps DEF SemaNext

-----------------------------------------------------------------------------
(* Event flag calls: one flag e changes, and waits on it *)

FlagOtherWaitKept(u, e) ==
    /\ pc'[u] = "sleep" => on'[u] = Nothing
    /\ pc'[u] = "sema" <=> pc[u] = "sema"
    /\ (pc'[u] = "event" /\ on'[u] # e) <=> (pc[u] = "event" /\ on[u] # e)
    /\ pc'[u] = "sema" => on'[u] = on[u] /\ ret'[u] = ret[u]
    /\ pc'[u] = "event" /\ on'[u] # e => on'[u] = on[u] /\ want'[u] = want[u]
    /\ pc'[u] = "sema" \/ (pc'[u] = "event" /\ on'[u] # e) => (Stuck(u)' => Stuck(u))

\* A thread in a wait on e.
FlagWaiterOK(u, e) ==
    pc[u] = "event" /\ on[u] = e =>
        /\ flag[e].state # "unused"
        /\ Stuck(u) => InRunQueue(flag[e].waitList, u) /\ ~Matches(flag[e].bits, want[u])

\* What a call on one event flag has to show.
LEMMA FlagCall ==
    ASSUME KInv, NEW e \in Flags, NEW g \in FlagRecs, flag' = [flag EXCEPT ![e] = g],
           want' \in [Threads -> Waits \cup {NoWant}], UNCHANGED <<semaVars, ops>>,
           ThreadTypes', ForceInv', g.state # "live" => g.waitList = <<>>,
           \A u \in Threads : /\ LocalOK(info'[u], pc'[u], u \in parked')
                              /\ FlagOtherWaitKept(u, e) /\ FlagWaiterOK(u, e)'
    PROVE  KInv'
<1>0. /\ flag'[e] = g
      /\ \A d \in Flags \ {e} : flag'[d] = flag[d]
      /\ UNCHANGED <<sema, polling, ops>>
  BY DEF KInv, KTypes, semaVars
<1>1. KTypes'
  BY DEF KInv, KTypes, ThreadTypes, semaVars
<1>2. ThreadInv'
  BY DEF ThreadInv
<1>3. ObjectInv'
  <2>1. ASSUME NEW u \in Threads, pc'[u] = "event"
        PROVE  /\ on'[u] \in Flags /\ flag'[on'[u]].state # "unused"
               /\ Stuck(u)' => /\ InRunQueue(flag'[on'[u]].waitList, u)
                               /\ ~Matches(flag'[on'[u]].bits, want'[u])
    <3>1. CASE on'[u] = e
      BY <2>1, <3>1 DEF FlagWaiterOK
    <3>2. CASE on'[u] # e
      <4>1. /\ pc[u] = "event" /\ on[u] = on'[u] /\ on[u] # e /\ want'[u] = want[u]
            /\ Stuck(u)' => Stuck(u)
        BY <2>1, <3>2 DEF FlagOtherWaitKept
      <4>2. on[u] \in Flags /\ flag'[on[u]] = flag[on[u]]
        BY <4>1, <1>0 DEF KInv, ObjectInv
      <4>. QED  BY <4>1, <4>2 DEF KInv, ObjectInv
    <3>. QED  BY <3>1, <3>2
  <2>2. ASSUME NEW u \in Threads, pc'[u] = "sema"
        PROVE  /\ on'[u] \in Semas /\ ret'[u] = "none" /\ sema'[on'[u]].state # "unused"
               /\ Stuck(u)' => InRunQueue(sema'[on'[u]].waitList, u)
    <3>1. pc[u] = "sema" /\ on'[u] = on[u] /\ ret'[u] = ret[u] /\ (Stuck(u)' => Stuck(u))
      BY <2>2 DEF FlagOtherWaitKept
    <3>. QED  BY <3>1, <1>0 DEF KInv, ObjectInv
  <2>3. \A u \in Threads : pc'[u] = "sleep" => on'[u] = Nothing
    BY DEF FlagOtherWaitKept
  <2>. QED  BY <2>1, <2>2, <2>3 DEF ObjectInv
<1>w. \A u \in Threads : /\ pc'[u] = "sema" <=> pc[u] = "sema"
                         /\ pc[u] = "sema" => on'[u] = on[u]
  BY DEF FlagOtherWaitKept
<1>4. SemaInv'
  BY <1>0, <1>w DEF KInv, SemaInv, SemaOK
<1>5. FlagInv'
  BY <1>0 DEF KInv, FlagInv
<1>6. PermitInv'
  <2>1. ASSUME NEW r \in Semas PROVE PermitOK(r)'
    <3>1. Off(r)' = Off(r)
      BY <1>0, <1>w DEF Off
    <3>. QED  BY <3>1, <1>0 DEF KInv, PermitInv, PermitOK, Gentle
  <2>. QED  BY <2>1 DEF PermitInv
<1>. QED  BY <1>1, <1>2, <1>3, <1>4, <1>5, <1>6 DEF KInv

\* One flag's record.
LEMMA OneFlag ==
    ASSUME KInv, NEW e \in Flags
    PROVE  /\ flag[e] \in FlagRecs
           /\ flag[e].state # "live" => flag[e].waitList = <<>>
           /\ \A u \in Threads : FlagWaiterOK(u, e)
  BY DEF KInv, KTypes, FlagInv, ObjectInv, FlagWaiterOK

\* Fewer bits match no more patterns.
LEMMA MatchesMonotone ==
    ASSUME NEW big, NEW small \in SUBSET big, NEW w, ~Matches(big, w)
    PROVE  ~Matches(small, w)
  BY DEF Matches

\* The clear modes of a wait only take bits away.
LEMMA ClearedShrinks == ASSUME NEW bits, NEW w PROVE Cleared(bits, w) \in SUBSET bits
  BY DEF Cleared

\* A call that changes no thread and no list: bits are cleared, or a flag is
\* created.
LEMMA FlagOnly ==
    ASSUME KInv, NEW e \in Flags, NEW g \in FlagRecs, flag' = [flag EXCEPT ![e] = g],
           UNCHANGED <<want, semaVars, threadVars>>,
           g.waitList = flag[e].waitList, g.state # "unused",
           \/ g.state = flag[e].state /\ g.bits \in SUBSET flag[e].bits
           \/ flag[e].state = "unused"
    PROVE  KInv'
<1>1. /\ flag'[e] = g /\ want' = want
      /\ info' = info /\ pc' = pc /\ on' = on /\ parked' = parked /\ ret' = ret /\ ops' = ops
  BY DEF KInv, KTypes
<1>2. ThreadTypes' /\ ForceInv'
  BY <1>1 DEF KInv, KTypes, ThreadTypes, ForceInv, Gentle
<1>3. g.state # "live" => g.waitList = <<>>
  BY OneFlag
<1>4. ASSUME NEW u \in Threads
      PROVE  /\ LocalOK(info'[u], pc'[u], u \in parked')
             /\ FlagOtherWaitKept(u, e) /\ FlagWaiterOK(u, e)'
  <2>1. LocalOK(info'[u], pc'[u], u \in parked')
    BY <1>1 DEF KInv, ThreadInv
  <2>2. FlagOtherWaitKept(u, e)
    BY <1>1 DEF FlagOtherWaitKept, Stuck, KInv, ObjectInv
  <2>3. FlagWaiterOK(u, e)'
    BY <1>1, OneFlag, MatchesMonotone DEF FlagWaiterOK, Stuck
  <2>. QED  BY <2>1, <2>2, <2>3
<1>5. want' \in [Threads -> Waits \cup {NoWant}]
  BY <1>1 DEF KInv, KTypes
<1>. QED  BY <1>1, <1>2, <1>3, <1>4, <1>5, FlagCall

\* A new flag has no waiters.
LEMMA CreateEventFlagKeeps ==
    ASSUME KInv, NEW multi \in BOOLEAN, NEW bits \in SUBSET EventBits, CreateEventFlag(multi, bits),
           UNCHANGED semaVars
    PROVE  KInv'
<1>1. PICK e \in Flags : /\ \A d \in Flags : flag[d].state = "unused" <=> d >= e
                         /\ flag' = [flag EXCEPT ![e] = [state |-> "live", multi |-> multi,
                                       bits |-> bits, waiters |-> 0, waitList |-> <<>>]]
  BY DEF CreateEventFlag
<1> DEFINE none == <<>>
           g == [state |-> "live", multi |-> multi, bits |-> bits, waiters |-> 0, waitList |-> none]
<1>2. none \in Seq(Threads)
  OBVIOUS
<1>3. flag' = [flag EXCEPT ![e] = g] /\ UNCHANGED <<want, threadVars>>
  BY <1>1 DEF CreateEventFlag
<1>4. flag[e].state = "unused" /\ flag[e].waitList = none
  <2>1. flag[e].state = "unused"
    BY <1>1, Constants
  <2>. QED  BY <2>1, OneFlag
<1>. HIDE DEF none
<1>5. g \in FlagRecs /\ g.waitList = none /\ g.state = "live"
  BY <1>2 DEF FlagRecs
<1>. HIDE DEF g
<1>. QED  BY <1>3, <1>4, <1>5, FlagOnly

\* Bits of a live flag are cleared, by ClearEventFlag or by a poll.
LEMMA BitsCleared ==
    ASSUME KInv, NEW e \in Flags, NEW bits \in SUBSET flag[e].bits, flag[e].state = "live",
           flag' = [flag EXCEPT ![e].bits = bits], UNCHANGED <<want, semaVars, threadVars>>
    PROVE  KInv'
<1> DEFINE g == [flag[e] EXCEPT !.bits = bits]
<1>1. flag' = [flag EXCEPT ![e] = g]
  BY DEF KInv, KTypes, FlagRecs
<1>2. /\ g \in FlagRecs /\ g.waitList = flag[e].waitList /\ g.state = "live" /\ g.bits = bits
  BY OneFlag DEF FlagRecs
<1>. HIDE DEF g
<1>. QED  BY <1>1, <1>2, FlagOnly

\* ClearEventFlag can satisfy nobody.
LEMMA ClearEventFlagKeeps ==
    ASSUME KInv, NEW e \in Flags, NEW bits \in SUBSET EventBits, ClearEventFlag(e, bits),
           UNCHANGED semaVars
    PROVE  KInv'
<1>1. flag' = [flag EXCEPT ![e].bits = flag[e].bits \cap bits]
  BY DEF ClearEventFlag
<1> DEFINE b == flag[e].bits \cap bits
<1>2. /\ b \in SUBSET flag[e].bits /\ flag[e].state = "live" /\ UNCHANGED <<want, threadVars>>
      /\ flag' = [flag EXCEPT ![e].bits = b]
  BY <1>1 DEF ClearEventFlag
<1>. HIDE DEF b
<1>. QED  BY <1>2, BitsCleared

\* PollEventFlag clears bits at most.
LEMMA PollEventFlagKeeps ==
    ASSUME KInv, NEW e \in Flags, NEW w \in Waits, PollEventFlag(e, w), UNCHANGED semaVars
    PROVE  KInv'
<1>1. flag' = [flag EXCEPT ![e].bits = Cleared(flag[e].bits, w)]
  BY DEF PollEventFlag
<1> DEFINE b == Cleared(flag[e].bits, w)
<1>2. /\ b \in SUBSET flag[e].bits /\ flag[e].state = "live" /\ UNCHANGED <<want, threadVars>>
      /\ flag' = [flag EXCEPT ![e].bits = b]
  BY <1>1, ClearedShrinks DEF PollEventFlag
<1>. HIDE DEF b
<1>. QED  BY <1>2, BitsCleared

\* A call that wakes everybody on the flag's list.
LEMMA FlagWakesAll ==
    ASSUME KInv, NEW e \in Flags, NEW g \in FlagRecs, flag' = [flag EXCEPT ![e] = g],
           parked' = parked \ Woken(FlagListed(e)),
           UNCHANGED <<want, info, pc, on, ret, ops, semaVars>>,
           g.state # "unused", g.state # "live" => g.waitList = <<>>
    PROVE  KInv'
<1>1. flag'[e] = g
  BY DEF KInv, KTypes
<1>2. ThreadTypes' /\ ForceInv'
  BY WakeAll
<1>3. ASSUME NEW u \in Threads
      PROVE  /\ LocalOK(info'[u], pc'[u], u \in parked')
             /\ FlagOtherWaitKept(u, e) /\ FlagWaiterOK(u, e)'
  <2>1. /\ LocalOK(info'[u], pc'[u], u \in parked')
        /\ Stuck(u)' => Stuck(u) /\ u \notin FlagListed(e)
    BY WakeAll
  <2>2. FlagOtherWaitKept(u, e)
    BY <2>1 DEF FlagOtherWaitKept, KInv, ObjectInv
  <2>3. u \notin FlagListed(e) => ~InRunQueue(flag[e].waitList, u)
    BY DEF FlagListed, InRunQueue
  <2>4. FlagWaiterOK(u, e)'
    BY <1>1, <2>1, <2>3, OneFlag DEF FlagWaiterOK
  <2>. QED  BY <2>1, <2>2, <2>4
<1>4. want' \in [Threads -> Waits \cup {NoWant}]
  BY DEF KInv, KTypes
<1>. QED  BY <1>2, <1>3, <1>4, FlagCall

\* DeleteEventFlag empties the list and wakes everyone on it.
LEMMA DeleteEventFlagKeeps ==
    ASSUME KInv, NEW e \in Flags, DeleteEventFlag(e), UNCHANGED semaVars PROVE KInv'
<1> DEFINE none == <<>>
           g == [flag[e] EXCEPT !.state = "deleted", !.waitList = none]
<1>1. /\ flag' = [flag EXCEPT ![e] = g] /\ parked' = parked \ Woken(FlagListed(e))
      /\ UNCHANGED <<want, info, pc, on, ret, ops>> /\ none \in Seq(Threads)
  BY DEF DeleteEventFlag
<1>n. none = <<>>
  OBVIOUS
<1>. HIDE DEF none
<1>2. g \in FlagRecs /\ g.state = "deleted" /\ g.waitList = none
  BY <1>1, OneFlag DEF FlagRecs
<1>. HIDE DEF g
<1>. QED  BY <1>1, <1>n, <1>2, FlagWakesAll

\* SetEventFlag wakes every waiter, and each one looks at the bits again.
LEMMA SetEventFlagKeeps ==
    ASSUME KInv, NEW e \in Flags, NEW bits \in Patterns, SetEventFlag(e, bits), UNCHANGED semaVars
    PROVE  KInv'
<1> DEFINE b == flag[e].bits \cup bits
           g == [flag[e] EXCEPT !.bits = b]
<1>1. /\ flag' = [flag EXCEPT ![e] = g] /\ parked' = parked \ Woken(FlagListed(e))
      /\ UNCHANGED <<want, info, pc, on, ret, ops>> /\ flag[e].state = "live"
  BY DEF SetEventFlag, KInv, KTypes, FlagRecs
<1>2. b \in SUBSET EventBits
  BY OneFlag DEF FlagRecs, Patterns
<1>. HIDE DEF b
<1>3. g \in FlagRecs /\ g.state = "live"
  BY <1>1, <1>2, OneFlag DEF FlagRecs
<1>. HIDE DEF g
<1>. QED  BY <1>1, <1>3, FlagWakesAll

\* A step of a wait: the thread t begins, continues or ends a wait on e.
LEMMA FlagWaitStep ==
    ASSUME KInv, NEW t \in Threads, NEW e \in Flags, NEW g \in FlagRecs, NEW i \in Infos,
           NEW p \in {"run", "event"}, NEW r \in Results,
           pc[t] = "run" \/ (pc[t] = "event" /\ on[t] = e),
           flag' = [flag EXCEPT ![e] = g], UNCHANGED <<semaVars, ops>>,
           want' \in [Threads -> Waits \cup {NoWant}],
           \A u \in Threads \ {t} : want'[u] = want[u],
           info' = [info EXCEPT ![t] = i], pc' = [pc EXCEPT ![t] = p],
           on' = [on EXCEPT ![t] = e], ret' = [ret EXCEPT ![t] = r],
           parked' \in {parked, parked \cup {t}},
           LocalOK(i, p, t \in parked'),
           Gentle => ~i.terminated /\ ~i.forceRelease,
           \A u \in Threads \ {t} : InRunQueue(flag[e].waitList, u) => InRunQueue(g.waitList, u),
           p = "event" => InRunQueue(g.waitList, t) /\ ~Matches(g.bits, want'[t]),
           g.bits \in SUBSET flag[e].bits, g.state = flag[e].state, g.state # "unused",
           g.state # "live" => g.waitList = <<>>
    PROVE  KInv'
<1>1. /\ flag'[e] = g /\ info'[t] = i /\ pc'[t] = p /\ on'[t] = e /\ ret'[t] = r
      /\ \A u \in Threads \ {t} : /\ info'[u] = info[u] /\ pc'[u] = pc[u] /\ on'[u] = on[u]
                                  /\ ret'[u] = ret[u] /\ (u \in parked' <=> u \in parked)
  BY DEF KInv, KTypes
<1>2. ThreadTypes'
  BY DEF KInv, KTypes, ThreadTypes, Places
<1>3. ForceInv'
  BY <1>1 DEF KInv, ForceInv, Gentle
<1>4. ASSUME NEW u \in Threads
      PROVE  /\ LocalOK(info'[u], pc'[u], u \in parked')
             /\ FlagOtherWaitKept(u, e) /\ FlagWaiterOK(u, e)'
  <2>1. CASE u = t
    BY <1>1, <2>1 DEF FlagOtherWaitKept, FlagWaiterOK
  <2>2. CASE u # t
    <3>1. LocalOK(info'[u], pc'[u], u \in parked')
      BY <1>1, <2>2 DEF KInv, ThreadInv
    <3>2. FlagOtherWaitKept(u, e)
      BY <1>1, <2>2 DEF FlagOtherWaitKept, Stuck, KInv, ObjectInv
    <3>3. FlagWaiterOK(u, e)'
      <4>1. \A w : ~Matches(flag[e].bits, w) => ~Matches(g.bits, w)
        BY MatchesMonotone
      <4>. QED  BY <1>1, <2>2, <4>1, OneFlag DEF FlagWaiterOK, Stuck
    <3>. QED  BY <3>1, <3>2, <3>3
  <2>. QED  BY <2>1, <2>2
<1>. QED  BY <1>2, <1>3, <1>4, FlagCall

\* WaitEventFlag is satisfied at once, or publishes the thread and parks it.
LEMMA WaitEventFlagKeeps ==
    ASSUME KInv, NEW t \in Threads, NEW e \in Flags, NEW w \in Waits, WaitEventFlag(t, e, w),
           UNCHANGED semaVars
    PROVE  KInv'
<1>0. /\ flag[e].state = "live" /\ pc[t] = "run" /\ t \notin parked /\ ~info[t].terminated
      /\ on' = [on EXCEPT ![t] = e] /\ UNCHANGED ops /\ want' = [want EXCEPT ![t] = w]
      /\ info[t].suspendCount = 0 /\ info[t] \in Infos
  BY OneInfo, Constants DEF WaitEventFlag, Running, LocalOK, Infos
<1>1. /\ flag[e] \in FlagRecs /\ flag[e].waitList \in Seq(Threads) /\ flag[e].waiters \in Int
      /\ flag[e].bits \in SUBSET EventBits
  BY OneFlag DEF FlagRecs
<1>2. /\ want' \in [Threads -> Waits \cup {NoWant}] /\ want'[t] = w
      /\ \A u \in Threads \ {t} : want'[u] = want[u]
  BY <1>0 DEF KInv, KTypes
<1>3. CASE satisfied(t, flag[e], w)
  <2> DEFINE b == Cleared(flag[e].bits, w)
             g == [flag[e] EXCEPT !.bits = b]
             i == [info[t] EXCEPT !.status = "THS_RUN"]
  <2>1. /\ flag' = [flag EXCEPT ![e] = g] /\ info' = [info EXCEPT ![t] = i]
        /\ pc' = [pc EXCEPT ![t] = "run"] /\ ret' = [ret EXCEPT ![t] = "KE_OK"]
        /\ parked' = parked
    BY <1>3 DEF WaitEventFlag, Returns, KInv, KTypes, FlagRecs
  <2>2. b \in SUBSET flag[e].bits
    BY ClearedShrinks
  <2>. HIDE DEF b
  <2>3. g \in FlagRecs /\ g.bits = b /\ g.state = "live" /\ g.waitList = flag[e].waitList
    BY <1>0, <1>1, <2>2 DEF FlagRecs
  <2>4. /\ i \in Infos /\ i.suspendCount = 0 /\ i.status = "THS_RUN" /\ ~i.terminated
        /\ i.forceRelease <=> info[t].forceRelease
    BY <1>0 DEF Infos
  <2>. HIDE DEF g, i
  <2>5. LocalOK(i, "run", t \in parked')
    BY <1>0, <2>1, <2>4 DEF LocalOK
  <2>6. Gentle => ~i.terminated /\ ~i.forceRelease
    BY <2>4, OneInfo
  <2>. QED  BY <1>0, <1>2, <2>1, <2>2, <2>3, <2>4, <2>5, <2>6, FlagWaitStep DEF Results
<1>4. CASE ~satisfied(t, flag[e], w)
  <2> DEFINE n == flag[e].waiters + 1
             l == publishWaiter(flag[e].waitList, t)
             g == [flag[e] EXCEPT !.waiters = n, !.waitList = l]
             i == setThreadWaiting(info[t], "TSW_EVENT")
  <2>1. /\ flag' = [flag EXCEPT ![e] = g] /\ info' = [info EXCEPT ![t] = i]
        /\ pc' = [pc EXCEPT ![t] = "event"] /\ ret' = [ret EXCEPT ![t] = "none"]
        /\ parked' = parked \cup {t}
    BY <1>4 DEF WaitEventFlag, FlagPublishAndPark, Parks
  <2>2. n \in Int
    BY <1>1
  <2>3. /\ l \in Seq(Threads)
        /\ \A u : InRunQueue(l, u) <=> InRunQueue(flag[e].waitList, u) \/ u = t
    BY <1>1, PublishKeeps
  <2>. HIDE DEF n, l
  <2>4. g \in FlagRecs /\ g.bits = flag[e].bits /\ g.state = "live" /\ g.waitList = l
    BY <1>0, <1>1, <2>2, <2>3 DEF FlagRecs
  <2>5. /\ i \in Infos /\ i.suspendCount = 0 /\ i.waitType = "TSW_EVENT" /\ i.status = "THS_WAIT"
        /\ ~i.terminated /\ ~i.forceRelease
    BY <1>0, SetWaiting
  <2>. HIDE DEF g, i
  <2>6. LocalOK(i, "event", t \in parked')
    BY <2>1, <2>5 DEF LocalOK
  <2>7. ~Matches(flag[e].bits, w)
    BY <1>4 DEF satisfied
  <2>. QED  BY <1>0, <1>2, <2>1, <2>3, <2>4, <2>5, <2>6, <2>7, FlagWaitStep DEF Results
<1>. QED  BY <1>3, <1>4

\* A waiter that was terminated leaves the list and exits.
LEMMA WaitEventFlagExits ==
    ASSUME KInv, NEW t \in Threads, NEW e \in Flags, pc[t] = "event", on[t] = e, t \notin parked,
           info[t].terminated, Exits(t), UNCHANGED <<parked, want, semaVars, ops>>,
           NEW g \in FlagRecs, flag' = [flag EXCEPT ![e] = g],
           g.state = flag[e].state, g.bits = flag[e].bits,
           g.state # "live" => g.waitList = <<>>,
           \A u \in Threads \ {t} : InRunQueue(flag[e].waitList, u) => InRunQueue(g.waitList, u)
    PROVE  KInv'
<1>1. /\ flag'[e] = g /\ info'[t] = Dormant /\ pc'[t] = "gone" /\ want' = want
      /\ \A u \in Threads \ {t} : /\ info'[u] = info[u] /\ on'[u] = on[u]
                                  /\ pc'[u] = pc[u] \/ (pc[u] = "join" /\ pc'[u] = "run")
                                  /\ ret'[u] = ret[u]
  BY DEF Exits, KInv, KTypes
<1>2. ThreadTypes'
  <2>1. Dormant \in Infos
    BY Constants DEF Infos, Dormant
  <2>. QED  BY <2>1 DEF Exits, KInv, KTypes, ThreadTypes, Places, Results
<1>3. ~Gentle /\ (Gentle' <=> Gentle)
  BY OneInfo DEF Gentle
<1>4. ForceInv'
  BY <1>3 DEF ForceInv
<1>5. ASSUME NEW u \in Threads
      PROVE  /\ LocalOK(info'[u], pc'[u], u \in parked')
             /\ FlagOtherWaitKept(u, e) /\ FlagWaiterOK(u, e)'
  <2>1. CASE u = t
    <3>1. LocalOK(info'[u], pc'[u], u \in parked')
      BY <1>1, <2>1 DEF LocalOK, Dormant
    <3>. QED  BY <1>1, <2>1, <3>1 DEF FlagOtherWaitKept, FlagWaiterOK
  <2>2. CASE u # t
    <3>1. LocalOK(info'[u], pc'[u], u \in parked')
      <4>1. CASE pc'[u] = pc[u]
        BY <1>1, <2>2, <4>1, OneInfo
      <4>2. CASE pc[u] = "join" /\ pc'[u] = "run"
        <5>1. LocalOK(info[u], "join", u \in parked) => LocalOK(info[u], "run", u \in parked)
          BY Zenon DEF LocalOK
        <5>. QED  BY <1>1, <2>2, <4>2, <5>1, OneInfo
      <4>. QED  BY <1>1, <2>2, <4>1, <4>2
    <3>2. FlagOtherWaitKept(u, e)
      BY <1>1, <2>2 DEF FlagOtherWaitKept, Stuck, KInv, ObjectInv
    <3>3. FlagWaiterOK(u, e)'
      BY <1>1, <2>2, OneFlag DEF FlagWaiterOK, Stuck
    <3>. QED  BY <3>1, <3>2, <3>3
  <2>. QED  BY <2>1, <2>2
<1>6. want' \in [Threads -> Waits \cup {NoWant}]
  BY DEF KInv, KTypes
<1>. QED  BY <1>2, <1>4, <1>5, <1>6, FlagCall

\* A woken waiter leaves the list, and exits, fails, is satisfied or parks again.
LEMMA WaitEventFlagWokenKeeps ==
    ASSUME KInv, NEW t \in Threads, WaitEventFlagWoken(t), UNCHANGED semaVars PROVE KInv'
<1> DEFINE e == on[t]
           l == unpublishWaiter(flag[e].waitList, t)
           n == flag[e].waiters - 1
           f == [flag[e] EXCEPT !.waiters = n, !.waitList = l]
<1>0. pc[t] = "event" /\ t \notin parked /\ e \in Flags /\ UNCHANGED <<want, ops>>
  BY DEF WaitEventFlagWoken, KInv, ObjectInv
<1>1. /\ flag[e] \in FlagRecs /\ flag[e].waitList \in Seq(Threads) /\ flag[e].waiters \in Int
      /\ flag[e].state # "unused" /\ (flag[e].state # "live" => flag[e].waitList = <<>>)
      /\ flag[e].state \in {"unused", "live", "deleted"}
  BY <1>0, OneFlag DEF FlagRecs, FlagWaiterOK
<1>2. /\ l \in Seq(Threads) /\ (flag[e].waitList = <<>> => l = <<>>)
      /\ \A u : u # t /\ InRunQueue(flag[e].waitList, u) => InRunQueue(l, u)
  BY <1>1, UnpublishOthers
<1>3. n \in Int
  BY <1>1
<1>a. \/ /\ f.state = "deleted" \/ info[t].forceRelease \/ info[t].terminated
         /\ flag' = [flag EXCEPT ![e] = f]
         /\ IF info[t].terminated THEN Exits(t)
            ELSE IF f.state = "deleted"
            THEN Returns(t, clearThreadWaiting(info[t]), "KE_WAIT_DELETE") /\ UNCHANGED on
            ELSE Returns(t, clearThreadWaiting(consumeForceRelease(info[t])),
                         "KE_RELEASE_WAIT") /\ UNCHANGED on
         /\ UNCHANGED parked
      \/ /\ ~(f.state = "deleted" \/ info[t].forceRelease \/ info[t].terminated)
         /\ \/ /\ Matches(f.bits, want[t])
               /\ flag' = [flag EXCEPT ![e] = [f EXCEPT !.bits = Cleared(@, want[t])]]
               /\ Returns(t, clearThreadWaiting(info[t]), "KE_OK")
               /\ UNCHANGED parked
            \/ /\ ~Matches(f.bits, want[t])
               /\ FlagPublishAndPark(t, e, f)
               /\ UNCHANGED info
         /\ UNCHANGED on
  BY DEF WaitEventFlagWoken
<1>. HIDE DEF l, n
<1>4. /\ f \in FlagRecs /\ f.state = flag[e].state /\ f.bits = flag[e].bits /\ f.waitList = l
      /\ f.waiters = n
  BY <1>1, <1>2, <1>3 DEF FlagRecs
<1>5. on = [on EXCEPT ![t] = e] /\ info[t] \in Infos
  BY <1>0, OneInfo
<1>. HIDE DEF f, e
<1>s. on[t] = e
  BY DEF e
<1>w. want' \in [Threads -> Waits \cup {NoWant}] /\ want' = want
  BY <1>0 DEF KInv, KTypes
<1>l. /\ f.state # "unused" /\ (f.state # "live" => f.waitList = <<>>)
      /\ f.bits \in SUBSET flag[e].bits
      /\ \A u \in Threads \ {t} : InRunQueue(flag[e].waitList, u) => InRunQueue(f.waitList, u)
  BY <1>1, <1>2, <1>4
<1>6. CASE info[t].terminated
  <2>1. flag' = [flag EXCEPT ![e] = f] /\ Exits(t) /\ UNCHANGED parked
    BY <1>a, <1>6
  <2>. QED  BY <1>0, <1>4, <1>l, <1>s, <1>6, <2>1, WaitEventFlagExits
<1>7. CASE ~info[t].terminated /\ (f.state = "deleted" \/ info[t].forceRelease)
  <2>0. flag' = [flag EXCEPT ![e] = f] /\ UNCHANGED <<parked, on>>
    BY <1>a, <1>7
  <2>s. info[t].suspendCount = 0
    BY <1>0, <1>7, OneInfo, Constants DEF LocalOK, Infos
  <2>1. CASE f.state = "deleted"
    <3> DEFINE i == [clearThreadWaiting(info[t]) EXCEPT !.status = "THS_RUN"]
    <3>1. /\ info' = [info EXCEPT ![t] = i] /\ pc' = [pc EXCEPT ![t] = "run"]
          /\ ret' = [ret EXCEPT ![t] = "KE_WAIT_DELETE"]
      BY <1>a, <1>7, <2>1 DEF Returns
    <3>2. /\ i \in Infos /\ i.suspendCount = 0 /\ i.status = "THS_RUN" /\ ~i.terminated
          /\ i.forceRelease <=> info[t].forceRelease
      BY <1>5, <1>7, <2>s, ClearWaiting
    <3>. HIDE DEF i
    <3>3. LocalOK(i, "run", t \in parked')
      BY <1>0, <2>0, <3>2 DEF LocalOK
    <3>4. Gentle => ~i.terminated /\ ~i.forceRelease
      BY <3>2, OneInfo
    <3>5. "run" \in {"run", "event"} /\ "KE_WAIT_DELETE" \in Results
      BY DEF Results
    <3>. QED  BY <1>0, <1>4, <1>5, <1>l, <1>s, <1>w, <2>0, <3>1, <3>2, <3>3, <3>4, <3>5,
                 FlagWaitStep
  <2>2. CASE f.state # "deleted"
    <3> DEFINE i == [clearThreadWaiting(consumeForceRelease(info[t])) EXCEPT !.status = "THS_RUN"]
    <3>1. /\ info' = [info EXCEPT ![t] = i] /\ pc' = [pc EXCEPT ![t] = "run"]
          /\ ret' = [ret EXCEPT ![t] = "KE_RELEASE_WAIT"]
      BY <1>a, <1>7, <2>2 DEF Returns
    <3>2. /\ i \in Infos /\ i.suspendCount = 0 /\ i.status = "THS_RUN" /\ ~i.terminated
          /\ ~i.forceRelease
      BY <1>5, <1>7, <2>s, ClearWaiting, ConsumeRelease
    <3>. HIDE DEF i
    <3>3. LocalOK(i, "run", t \in parked')
      BY <1>0, <2>0, <3>2 DEF LocalOK
    <3>5. "run" \in {"run", "event"} /\ "KE_RELEASE_WAIT" \in Results
      BY DEF Results
    <3>. QED  BY <1>0, <1>4, <1>5, <1>l, <1>s, <1>w, <2>0, <3>1, <3>2, <3>3, <3>5, FlagWaitStep
  <2>. QED  BY <2>1, <2>2
<1>8. CASE ~info[t].terminated /\ f.state # "deleted" /\ ~info[t].forceRelease
  <2>0. UNCHANGED on
    BY <1>a, <1>8
  <2>s. info[t].suspendCount = 0
    BY <1>0, <1>8, OneInfo, Constants DEF LocalOK, Infos
  <2>1. CASE Matches(f.bits, want[t])
    <3> DEFINE b == Cleared(f.bits, want[t])
               g == [f EXCEPT !.bits = b]
               i == [clearThreadWaiting(info[t]) EXCEPT !.status = "THS_RUN"]
    <3>1. /\ flag' = [flag EXCEPT ![e] = g]
          /\ info' = [info EXCEPT ![t] = i] /\ pc' = [pc EXCEPT ![t] = "run"]
          /\ ret' = [ret EXCEPT ![t] = "KE_OK"] /\ parked' = parked
      BY <1>a, <1>8, <2>1 DEF Returns
    <3>2. b \in SUBSET f.bits
      BY ClearedShrinks
    <3>. HIDE DEF b
    <3>3. g \in FlagRecs /\ g.bits = b /\ g.state = f.state /\ g.waitList = f.waitList
      BY <1>4, <3>2 DEF FlagRecs
    <3>4. /\ i \in Infos /\ i.suspendCount = 0 /\ i.status = "THS_RUN" /\ ~i.terminated
          /\ ~i.forceRelease
      BY <1>5, <1>8, <2>s, ClearWaiting
    <3>. HIDE DEF g, i
    <3>5. LocalOK(i, "run", t \in parked')
      BY <1>0, <3>1, <3>4 DEF LocalOK
    <3>6. "run" \in {"run", "event"} /\ "KE_OK" \in Results
      BY DEF Results
    <3>7. /\ g.bits \in SUBSET flag[e].bits
          /\ g.state = flag[e].state /\ g.state # "unused"
          /\ g.state # "live" => g.waitList = <<>>
          /\ \A u \in Threads \ {t} : InRunQueue(flag[e].waitList, u) => InRunQueue(g.waitList, u)
      BY <1>4, <1>l, <3>2, <3>3
    <3>8. /\ pc[t] = "event" /\ on[t] = e /\ on' = [on EXCEPT ![t] = e]
          /\ UNCHANGED <<semaVars, ops>> /\ parked' \in {parked, parked \cup {t}}
          /\ \A u \in Threads \ {t} : want'[u] = want[u]
          /\ e \in Flags
      BY <1>0, <1>5, <1>s, <1>w, <2>0, <3>1
    <3>. QED  BY <1>w, <3>1, <3>3, <3>4, <3>5, <3>6, <3>7, <3>8, FlagWaitStep
  <2>2. CASE ~Matches(f.bits, want[t])
    <3> DEFINE k == n + 1
               p == publishWaiter(l, t)
               g == [f EXCEPT !.waiters = k, !.waitList = p]
    <3>1. /\ flag' = [flag EXCEPT ![e] = g] /\ info' = info
          /\ pc' = [pc EXCEPT ![t] = "event"] /\ ret' = [ret EXCEPT ![t] = "none"]
          /\ parked' = parked \cup {t}
      BY <1>a, <1>4, <1>8, <2>2 DEF FlagPublishAndPark, Parks
    <3>2. k \in Int
      BY <1>3
    <3>3. /\ p \in Seq(Threads)
          /\ \A u : InRunQueue(p, u) <=> InRunQueue(l, u) \/ u = t
      BY <1>2, PublishKeeps
    <3>. HIDE DEF k, p
    <3>4. g \in FlagRecs /\ g.bits = f.bits /\ g.state = f.state /\ g.waitList = p
      BY <1>4, <3>2, <3>3 DEF FlagRecs
    <3>. HIDE DEF g
    <3>5. LocalOK(info[t], "event", t \in parked')
      BY <1>0, <1>8, <2>s, <3>1, OneInfo DEF LocalOK
    <3>6. info' = [info EXCEPT ![t] = info[t]]
      BY <3>1 DEF KInv, KTypes
    <3>7. f.state = "live"
      BY <1>1, <1>4, <1>8
    <3>8. "event" \in {"run", "event"} /\ "none" \in Results
      BY DEF Results
    <3>9. /\ InRunQueue(g.waitList, t) /\ ~Matches(g.bits, want'[t])
          /\ \A u \in Threads \ {t} : InRunQueue(flag[e].waitList, u) => InRunQueue(g.waitList, u)
      BY <1>2, <1>w, <2>2, <3>3, <3>4
    <3>10. /\ g.bits \in SUBSET flag[e].bits
           /\ g.state = flag[e].state /\ g.state # "unused"
           /\ g.state # "live" => g.waitList = <<>>
      BY <1>4, <1>l, <3>4, <3>7
    <3>11. /\ pc[t] = "event" /\ on[t] = e /\ on' = [on EXCEPT ![t] = e]
           /\ UNCHANGED <<semaVars, ops>> /\ parked' \in {parked, parked \cup {t}}
           /\ \A u \in Threads \ {t} : want'[u] = want[u]
           /\ e \in Flags /\ (Gentle => ~info[t].terminated /\ ~info[t].forceRelease)
      BY <1>0, <1>5, <1>8, <1>s, <1>w, <2>0, <3>1
    <3>12. /\ flag' = [flag EXCEPT ![e] = g] /\ pc' = [pc EXCEPT ![t] = "event"]
           /\ ret' = [ret EXCEPT ![t] = "none"] /\ info[t] \in Infos /\ g \in FlagRecs
      BY <1>5, <3>1, <3>4
    <3> DEFINE i == info[t]
    <3>13. /\ i \in Infos /\ LocalOK(i, "event", t \in parked') /\ info' = [info EXCEPT ![t] = i]
           /\ Gentle => ~i.terminated /\ ~i.forceRelease
      BY <3>5, <3>6, <3>11, <3>12
    <3>. HIDE DEF i
    <3>. QED  BY <1>w, <3>8, <3>9, <3>10, <3>11, <3>12, <3>13, FlagWaitStep
  <2>. QED  BY <2>1, <2>2
<1>. QED  BY <1>6, <1>7, <1>8

\* Every call on an event flag keeps the invariant.
LEMMA FlagNextKeeps == ASSUME KInv, FlagNext, UNCHANGED semaVars PROVE KInv'
  BY CreateEventFlagKeeps, DeleteEventFlagKeeps, SetEventFlagKeeps, ClearEventFlagKeeps,
     PollEventFlagKeeps, WaitEventFlagKeeps, WaitEventFlagWokenKeeps DEF FlagNext

-----------------------------------------------------------------------------
(* The theorems *)

\* The kernel starts with every thread running and no object.
LEMMA InitKeeps == Init => KInv
<1> SUFFICES ASSUME Init PROVE KInv
  OBVIOUS
<1> DEFINE i == [Dormant EXCEPT !.status = "THS_RUN"]
           none == <<>>
           sm == [state |-> "unused", count |-> 0, maxCount |-> 0, waiters |-> 0, waitList |-> none]
           fl == [state |-> "unused", multi |-> FALSE, bits |-> {}, waiters |-> 0,
                  waitList |-> none]
<1>1. /\ info = [t \in Threads |-> i] /\ pc = [t \in Threads |-> "run"]
      /\ on = [t \in Threads |-> Nothing] /\ parked = {} /\ ret = [t \in Threads |-> "none"]
      /\ sema = [s \in Semas |-> sm] /\ polling = [w \in Workers |-> Nothing]
      /\ flag = [e \in Flags |-> fl] /\ want = [t \in Threads |-> NoWant]
  BY DEF Init, ThreadInit, SemaInit, FlagInit
<1>2. /\ i \in Infos /\ i.suspendCount = 0 /\ i.status = "THS_RUN" /\ ~i.terminated
      /\ ~i.forceRelease
  <2>1. 0 \in 0..MaxWakeups /\ 0 \in 0..MaxSuspends
    BY Constants
  <2>2. Dormant \in Infos
    BY <2>1 DEF Infos, Dormant
  <2>3. /\ Dormant.suspendCount = 0 /\ ~Dormant.terminated /\ ~Dormant.forceRelease
    BY DEF Dormant
  <2>. QED  BY <2>2, <2>3 DEF Infos
<1>3. none \in Seq(Threads) /\ Len(none) = 0
  OBVIOUS
<1>4. none = <<>>
  OBVIOUS
<1>. HIDE DEF i, none
<1>5. /\ sm \in SemaRecs /\ sm.state = "unused" /\ sm.count = 0 /\ sm.maxCount = 0
      /\ sm.waitList = none
  BY <1>3 DEF SemaRecs
<1>6. fl \in FlagRecs /\ fl.state = "unused" /\ fl.waitList = none
  BY <1>3 DEF FlagRecs
<1>. HIDE DEF sm, fl
<1>7. KTypes
  BY <1>1, <1>2, <1>5, <1>6 DEF KTypes, Places, Results
<1>8. ThreadInv
  <2>1. LocalOK(i, "run", FALSE)
    BY <1>2 DEF LocalOK
  <2>2. ASSUME NEW t \in Threads PROVE LocalOK(info[t], pc[t], t \in parked)
    <3>1. info[t] = i /\ pc[t] = "run" /\ ((t \in parked) = FALSE)
      BY <1>1
    <3>. QED  BY <2>1, <3>1
  <2>. QED  BY <2>2 DEF ThreadInv
<1>9. ObjectInv /\ ForceInv
  BY <1>1, <1>2 DEF ObjectInv, ForceInv
<1>10. SemaInv
  <2>1. \A u : ~InRunQueue(none, u)
    BY <1>3 DEF InRunQueue
  <2>2. NoDuplicates(none)
    BY <1>3 DEF NoDuplicates
  <2>. QED  BY <1>1, <1>4, <1>5, <2>1, <2>2 DEF SemaInv, SemaOK
<1>11. FlagInv /\ PermitInv
  BY <1>1, <1>4, <1>5, <1>6 DEF FlagInv, PermitInv, PermitOK
<1>. QED  BY <1>7, <1>8, <1>9, <1>10, <1>11 DEF KInv

\* Every step keeps the invariant.
LEMMA NextKeeps == KInv /\ [Next]_vars => KInv'
<1> SUFFICES ASSUME KInv, [Next]_vars PROVE KInv'
  OBVIOUS
<1>1. CASE ThreadNext /\ UNCHANGED <<semaVars, flagVars>>
  BY <1>1, ThreadNextKeeps
<1>2. CASE SemaNext /\ UNCHANGED flagVars
  BY <1>2, SemaNextKeeps
<1>3. CASE FlagNext /\ UNCHANGED semaVars
  BY <1>3, FlagNextKeeps
<1>4. CASE UNCHANGED vars
  <2>1. UNCHANGED <<semaVars, flagVars, ops>> /\ UNCHANGED <<info, pc, on, parked, ret>>
    BY <1>4 DEF vars
  <2>2. ThreadTypes' /\ ForceInv'
    BY <2>1 DEF KInv, KTypes, ThreadTypes, ForceInv, Gentle
  <2>3. \A u \in Threads : LocalOK(info'[u], pc'[u], u \in parked') /\ WaitKept(u)
    BY <2>1 DEF KInv, ThreadInv, ObjectInv, WaitKept, Stuck
  <2>. QED  BY <2>1, <2>2, <2>3, ThreadCall
<1>. QED  BY <1>1, <1>2, <1>3, <1>4 DEF Next

\* The invariant holds in every state of the kernel.
LEMMA Invariant == Spec => []KInv
  BY InitKeeps, NextKeeps, PTL DEF Spec

\* A wakeup is never left beside a sleeping thread (Thread.cpp 1010-1042), for
\* any number of threads and any program.
THEOREM NoWakeupLost == Spec => []WakeupNotLost
<1>1. KInv => WakeupNotLost
  <2> SUFFICES ASSUME KInv, NEW t \in Threads, pc[t] = "sleep", t \in parked,
                      info[t].suspendCount = 0
               PROVE  info[t].wakeupCount = 0
    BY DEF WakeupNotLost
  <2>. QED  BY OneInfo DEF LocalOK
<1>. QED  BY <1>1, Invariant, PTL

\* ReleaseWaitThread finds every parked waiter by its status (Thread.cpp
\* 1240-1262), whatever was suspended, resumed, woken or cancelled before.
THEOREM EveryWaiterReleasable == Spec => []ParkedIsReleasable
<1>1. KInv => ParkedIsReleasable
  <2> SUFFICES ASSUME KInv, NEW t \in Threads, pc[t] \in {"sleep", "sema", "event"}, t \in parked,
                      ~info[t].terminated
               PROVE  IF info[t].suspendCount = 0 THEN info[t].status = "THS_WAIT"
                      ELSE \/ info[t].status = "THS_WAITSUSPEND"
                           \/ info[t].status = "THS_SUSPEND"
                              /\ (info[t].forceRelease \/ info[t].waitType = "TSW_NONE")
    BY DEF ParkedIsReleasable
  <2>1. info[t] \in Infos /\ LocalOK(info[t], pc[t], t \in parked)
    BY OneInfo
  <2>2. info[t].suspendCount = 0 \/ info[t].suspendCount > 0
    BY <2>1, Constants DEF Infos
  <2>. QED  BY <2>1, <2>2 DEF LocalOK, Infos
<1>. QED  BY <1>1, Invariant, PTL

-----------------------------------------------------------------------------
(* A release or a termination lasts as long as the wait *)

\* A step of a thread u that leaves u outside its waits, or parks it in one it
\* has just begun or was not ordered out of, takes no order back.
LEMMA OwnStepKeepsOrder ==
    ASSUME info \in [Threads -> Infos], pc \in [Threads -> Places], NEW u \in Threads,
           NEW i, NEW p, info' = [info EXCEPT ![u] = i],
           pc' = [pc EXCEPT ![u] = p],
           p \notin {"sleep", "sema", "event"} \/ ~Condemned(u)
    PROVE  \A t \in Threads : Condemned(t) => Condemned(t)' \/ ~InAWait(t)'
<1> SUFFICES ASSUME NEW t \in Threads, Condemned(t) PROVE Condemned(t)' \/ ~InAWait(t)'
  OBVIOUS
<1>1. CASE t = u
  BY <1>1 DEF Condemned, InAWait
<1>2. CASE t # u
  BY <1>2 DEF Condemned, InAWait
<1>. QED  BY <1>1, <1>2

\* The exit of u moves only u and the threads that join it, none of which is
\* in a wait.
LEMMA ExitKeepsOrder ==
    ASSUME info \in [Threads -> Infos], pc \in [Threads -> Places], NEW u \in Threads, Exits(u)
    PROVE  \A t \in Threads : Condemned(t) => Condemned(t)' \/ ~InAWait(t)'
<1> SUFFICES ASSUME NEW t \in Threads, Condemned(t) PROVE Condemned(t)' \/ ~InAWait(t)'
  OBVIOUS
<1>1. CASE t = u
  BY <1>1 DEF Exits, InAWait
<1>2. CASE t # u
  BY <1>2 DEF Exits, Condemned, InAWait
<1>. QED  BY <1>1, <1>2

\* The calls of Thread.cpp keep the order.
LEMMA ThreadKeepsOrder ==
    ASSUME KInv, ThreadNext
    PROVE  \A t \in Threads : Condemned(t) => Condemned(t)' \/ ~InAWait(t)'
<1> DEFINE Goal == \A t \in Threads : Condemned(t) => Condemned(t)' \/ ~InAWait(t)'
<1>0. info \in [Threads -> Infos] /\ pc \in [Threads -> Places]
  BY DEF KInv, KTypes
<1>1. ASSUME NEW t \in Threads, YieldPoint(t) PROVE Goal
  BY <1>0, <1>1, ExitKeepsOrder DEF YieldPoint
<1>2. ASSUME NEW t \in Threads, SleepThread(t) PROVE Goal
  <2>1. pc[t] = "run" /\ ~Condemned(t)
    BY <1>2 DEF SleepThread, Running, Condemned, InAWait
  <2>2. PICK i, p : info' = [info EXCEPT ![t] = i] /\ pc' = [pc EXCEPT ![t] = p]
    BY <1>2 DEF SleepThread, Returns, Parks
  <2>. QED  BY <1>0, <2>1, <2>2, OwnStepKeepsOrder
<1>3. ASSUME NEW t \in Threads, SleepWoken(t) PROVE Goal
  <2>1. CASE Exits(t)
    BY <1>0, <2>1, ExitKeepsOrder
  <2>2. CASE \E i : info' = [info EXCEPT ![t] = i] /\ pc' = [pc EXCEPT ![t] = "run"]
    BY <1>0, <2>2, OwnStepKeepsOrder
  <2>3. CASE /\ ~Condemned(t)
             /\ \E i : info' = [info EXCEPT ![t] = i] /\ pc' = [pc EXCEPT ![t] = "sleep"]
    BY <1>0, <2>3, OwnStepKeepsOrder
  <2>. QED  BY <1>3, <2>1, <2>2, <2>3 DEF SleepWoken, Returns, Parks, Condemned
<1>4. ASSUME NEW t \in Threads, SuspendThreadSelf(t) PROVE Goal
  <2>1. PICK i : info' = [info EXCEPT ![t] = i] /\ pc' = [pc EXCEPT ![t] = "suspended"]
    BY <1>4 DEF SuspendThreadSelf
  <2>. QED  BY <1>0, <2>1, OwnStepKeepsOrder
<1>5. ASSUME NEW t \in Threads, SuspendSelfReturns(t) PROVE Goal
  <2>1. CASE Exits(t)
    BY <1>0, <2>1, ExitKeepsOrder
  <2>2. CASE \E i : info' = [info EXCEPT ![t] = i] /\ pc' = [pc EXCEPT ![t] = "run"]
    BY <1>0, <2>2, OwnStepKeepsOrder
  <2>. QED  BY <1>5, <2>1, <2>2 DEF SuspendSelfReturns, Returns
<1>6. ASSUME NEW t \in Threads, NEW u \in Threads, TerminateThread(t, u) PROVE Goal
  <2>1. /\ info' = [info EXCEPT ![u] = [@ EXCEPT !.terminated = TRUE, !.forceRelease = TRUE]]
        /\ pc' = [pc EXCEPT ![t] = "join"]
    BY <1>6 DEF TerminateThread
  <2>2. SUFFICES ASSUME NEW v \in Threads, Condemned(v) PROVE Condemned(v)' \/ ~InAWait(v)'
    OBVIOUS
  <2>3. info[u] \in Infos /\ info[v] \in Infos
    BY <1>0
  <2>4. info'[v].terminated \/ info'[v].forceRelease
    <3>1. CASE v = u
      BY <1>0, <2>1, <2>3, <3>1 DEF Infos
    <3>2. CASE v # u
      BY <1>0, <2>1, <2>2, <3>2 DEF Condemned
    <3>. QED  BY <3>1, <3>2
  <2>. QED  BY <1>0, <2>1, <2>2, <2>4 DEF Condemned, InAWait
<1>7. ASSUME NEW u \in Threads,
             WakeupThread(u) \/ CancelWakeupThread(u) \/ ReleaseWaitThread(u)
                \/ SuspendThreadOther(u) \/ ResumeThread(u)
      PROVE Goal
  <2>0. info[u] \in Infos
    BY <1>0
  <2>1. /\ \A v \in Threads \ {u} : info'[v] = info[v]
        /\ info[u].terminated => info'[u].terminated
        /\ info[u].forceRelease => info'[u].forceRelease
    <3>1. CASE WakeupThread(u)
      BY <1>0, <2>0, <3>1 DEF WakeupThread, Infos
    <3>2. CASE CancelWakeupThread(u)
      BY <1>0, <2>0, <3>2 DEF CancelWakeupThread, Infos
    <3>3. CASE ReleaseWaitThread(u)
      BY <1>0, <2>0, <3>3 DEF ReleaseWaitThread, Infos
    <3>4. CASE SuspendThreadOther(u)
      BY <1>0, <2>0, <3>4 DEF SuspendThreadOther, applySuspendStatusLocked, Infos
    <3>5. CASE ResumeThread(u)
      BY <1>0, <2>0, <3>5 DEF ResumeThread, Infos
    <3>. QED  BY <1>7, <3>1, <3>2, <3>3, <3>4, <3>5
  <2>2. pc' = pc
    BY <1>7 DEF WakeupThread, CancelWakeupThread, ReleaseWaitThread, SuspendThreadOther, ResumeThread
  <2>. QED  BY <2>1, <2>2 DEF Condemned, InAWait
<1>8. ASSUME NEW u \in Threads, StartThread(u) PROVE Goal
  <2>1. PICK i : info' = [info EXCEPT ![u] = i] /\ pc' = [pc EXCEPT ![u] = "run"]
    BY <1>8 DEF StartThread
  <2>. QED  BY <1>0, <2>1, OwnStepKeepsOrder
<1>. QED  BY <1>1, <1>2, <1>3, <1>4, <1>5, <1>6, <1>7, <1>8 DEF ThreadNext

\* So do the calls on semaphores ...
LEMMA SemaKeepsOrder ==
    ASSUME KInv, SemaNext
    PROVE  \A t \in Threads : Condemned(t) => Condemned(t)' \/ ~InAWait(t)'
<1> DEFINE Goal == \A t \in Threads : Condemned(t) => Condemned(t)' \/ ~InAWait(t)'
<1>0. info \in [Threads -> Infos] /\ pc \in [Threads -> Places]
  BY DEF KInv, KTypes
<1>1. ASSUME NEW t \in Threads, NEW s \in Semas, WaitSema(t, s) PROVE Goal
  <2>1. pc[t] = "run" /\ ~Condemned(t)
    BY <1>1 DEF WaitSema, Running, Condemned, InAWait
  <2>2. PICK i, p : info' = [info EXCEPT ![t] = i] /\ pc' = [pc EXCEPT ![t] = p]
    BY <1>1 DEF WaitSema, Returns, PublishAndPark, Parks
  <2>. QED  BY <1>0, <2>1, <2>2, OwnStepKeepsOrder
<1>2. ASSUME NEW t \in Threads, WaitSemaWoken(t) PROVE Goal
  <2>1. CASE Exits(t)
    BY <1>0, <2>1, ExitKeepsOrder
  <2>2. CASE \E i : info' = [info EXCEPT ![t] = i] /\ pc' = [pc EXCEPT ![t] = "run"]
    BY <1>0, <2>2, OwnStepKeepsOrder
  <2>3. CASE ~Condemned(t) /\ info' = info /\ pc' = [pc EXCEPT ![t] = "sema"]
    <3>1. info' = [info EXCEPT ![t] = info[t]]
      BY <1>0, <2>3
    <3>. QED  BY <1>0, <2>3, <3>1, OwnStepKeepsOrder
  <2>. QED  BY <1>2, <2>1, <2>2, <2>3 DEF WaitSemaWoken, Returns, PublishAndPark, Parks, Condemned
<1>3. ASSUME UNCHANGED <<info, pc>> PROVE Goal
  BY <1>3 DEF Condemned, InAWait
<1>4. ASSUME NEW s \in Semas, DeleteSema(s) \/ SignalSema(s) \/ PollSema(s) PROVE Goal
  BY <1>3, <1>4 DEF DeleteSema, SignalSema, PollSema, threadVars
<1>5. ASSUME NEW w \in Workers, WorkerPolls(w) PROVE Goal
  BY <1>3, <1>5 DEF WorkerPolls, threadVars
<1>6. ASSUME NEW w \in Workers, NEW s \in Semas, WorkerWaitSema(w, s) PROVE Goal
  BY <1>3, <1>6 DEF WorkerWaitSema, threadVars
<1>7. ASSUME NEW init, NEW max, CreateSema(init, max) PROVE Goal
  BY <1>3, <1>7 DEF CreateSema, threadVars
<1>. HIDE DEF Goal
<1>. QED  BY <1>1, <1>2, <1>4, <1>5, <1>6, <1>7 DEF SemaNext, Goal

\* ... and on event flags.
LEMMA FlagKeepsOrder ==
    ASSUME KInv, FlagNext
    PROVE  \A t \in Threads : Condemned(t) => Condemned(t)' \/ ~InAWait(t)'
<1> DEFINE Goal == \A t \in Threads : Condemned(t) => Condemned(t)' \/ ~InAWait(t)'
<1>0. info \in [Threads -> Infos] /\ pc \in [Threads -> Places]
  BY DEF KInv, KTypes
<1>1. ASSUME NEW t \in Threads, NEW e \in Flags, NEW w \in Waits, WaitEventFlag(t, e, w) PROVE Goal
  <2>1. pc[t] = "run" /\ ~Condemned(t)
    BY <1>1 DEF WaitEventFlag, Running, Condemned, InAWait
  <2>2. PICK i, p : info' = [info EXCEPT ![t] = i] /\ pc' = [pc EXCEPT ![t] = p]
    BY <1>1 DEF WaitEventFlag, Returns, FlagPublishAndPark, Parks
  <2>. QED  BY <1>0, <2>1, <2>2, OwnStepKeepsOrder
<1>2. ASSUME NEW t \in Threads, WaitEventFlagWoken(t) PROVE Goal
  <2>1. CASE Exits(t)
    BY <1>0, <2>1, ExitKeepsOrder
  <2>2. CASE \E i : info' = [info EXCEPT ![t] = i] /\ pc' = [pc EXCEPT ![t] = "run"]
    BY <1>0, <2>2, OwnStepKeepsOrder
  <2>3. CASE ~Condemned(t) /\ info' = info /\ pc' = [pc EXCEPT ![t] = "event"]
    <3>1. info' = [info EXCEPT ![t] = info[t]]
      BY <1>0, <2>3
    <3>. QED  BY <1>0, <2>3, <3>1, OwnStepKeepsOrder
  <2>. QED  BY <1>2, <2>1, <2>2, <2>3
               DEF WaitEventFlagWoken, Returns, FlagPublishAndPark, Parks, Condemned
<1>3. ASSUME UNCHANGED <<info, pc>> PROVE Goal
  BY <1>3 DEF Condemned, InAWait
<1>4. ASSUME NEW e \in Flags, DeleteEventFlag(e) PROVE Goal
  BY <1>3, <1>4 DEF DeleteEventFlag
<1>5. ASSUME NEW e \in Flags, NEW bits, SetEventFlag(e, bits) PROVE Goal
  BY <1>3, <1>5 DEF SetEventFlag
<1>6. ASSUME NEW e \in Flags, NEW bits, ClearEventFlag(e, bits) PROVE Goal
  BY <1>3, <1>6 DEF ClearEventFlag, threadVars
<1>7. ASSUME NEW e \in Flags, NEW w \in Waits, PollEventFlag(e, w) PROVE Goal
  BY <1>3, <1>7 DEF PollEventFlag, threadVars
<1>8. ASSUME NEW multi, NEW bits, CreateEventFlag(multi, bits) PROVE Goal
  BY <1>3, <1>8 DEF CreateEventFlag, threadVars
<1>. HIDE DEF Goal
<1>. QED  BY <1>1, <1>2, <1>4, <1>5, <1>6, <1>7, <1>8 DEF FlagNext, Goal

\* A thread that ReleaseWaitThread or TerminateThread has ordered out of a wait
\* is not asleep in it unless suspended, and the order stands until the wait has
\* ended (Thread.cpp 695-723, 1223-1266), for any program.
THEOREM OrderStands == Spec => ForcedOut
<1>1. KInv => \A t \in Threads : Condemned(t) /\ t \in parked => info[t].suspendCount > 0
  <2> SUFFICES ASSUME KInv, NEW t \in Threads, Condemned(t), t \in parked
               PROVE  info[t].suspendCount > 0
    OBVIOUS
  <2>1. info[t] \in Infos /\ LocalOK(info[t], pc[t], t \in parked)
    BY OneInfo
  <2>2. info[t].suspendCount = 0 \/ info[t].suspendCount > 0
    BY <2>1, Constants DEF Infos
  <2>. QED  BY <2>1, <2>2 DEF LocalOK, Condemned, InAWait
<1>2. KInv /\ [Next]_vars =>
          [\A t \in Threads : Condemned(t) => Condemned(t)' \/ ~InAWait(t)']_vars
  <2> SUFFICES ASSUME KInv, Next
               PROVE  \A t \in Threads : Condemned(t) => Condemned(t)' \/ ~InAWait(t)'
    OBVIOUS
  <2>. QED  BY ThreadKeepsOrder, SemaKeepsOrder, FlagKeepsOrder DEF Next
<1>. QED  BY <1>1, <1>2, Invariant, PTL DEF Spec, ForcedOut

\* DeleteSema leaves nobody parked on the semaphore (Sync.cpp 206-229).
THEOREM DeleteReachesAll == Spec => []DeletedWakesAll
<1>1. KInv => DeletedWakesAll
  <2> SUFFICES ASSUME KInv, NEW s \in Semas, sema[s].state = "deleted", NEW t \in Threads,
                      pc[t] = "sema", on[t] = s, t \in parked
               PROVE  info[t].suspendCount > 0
    BY DEF DeletedWakesAll, InWait
  <2>1. sema[s].waitList = <<>>
    BY DEF KInv, SemaInv, SemaOK
  <2>2. ~InRunQueue(sema[s].waitList, t)
    BY <2>1 DEF InRunQueue
  <2>3. info[t].suspendCount # 0
    BY <2>2 DEF KInv, ObjectInv, Stuck
  <2>. QED  BY <2>3, OneInfo, Constants DEF Infos
<1>. QED  BY <1>1, Invariant, PTL

\* No thread is left parked on a flag whose bits match its pattern (Sync.cpp
\* 622-640), however sets, clears and the clears of other waiters interleave.
THEOREM EveryEventSeen == Spec => []NoEventMissed
<1>1. KInv => NoEventMissed
  <2> SUFFICES ASSUME KInv, NEW e \in Flags, NEW t \in Threads, pc[t] = "event", on[t] = e,
                      t \in parked, info[t].suspendCount = 0
               PROVE  flag[e].state = "live" /\ ~Matches(flag[e].bits, want[t])
    BY DEF NoEventMissed, InFlagWait
  <2>1. InRunQueue(flag[e].waitList, t) /\ ~Matches(flag[e].bits, want[t])
    BY DEF KInv, ObjectInv, Stuck
  <2>2. flag[e].waitList # <<>>
    BY <2>1 DEF InRunQueue
  <2>. QED  BY <2>1, <2>2 DEF KInv, FlagInv
<1>. QED  BY <1>1, Invariant, PTL

\* In a program that neither terminates nor releases, every permit of a
\* semaphore with a listed waiter is on its way to a thread that was woken and
\* has yet to look (Sync.cpp 253-275, 460-470).
THEOREM NoPermitStranded == Spec => []PermitNotStranded
<1>1. KInv => PermitNotStranded
  <2> SUFFICES ASSUME KInv, NEW s \in Semas, sema[s].state = "live", sema[s].waitList # <<>>,
                      ops \cap {"terminate", "release"} = {}
               PROVE  sema[s].count <= Cardinality(ToLook(s))
    BY DEF PermitNotStranded
  <2>1. sema[s].count <= Cardinality(Off(s))
    BY DEF KInv, PermitInv, PermitOK, Gentle
  <2>2. Off(s) \subseteq ToLook(s)
    <3> SUFFICES ASSUME NEW t \in Threads, pc[t] = "sema", on[t] = s,
                        ~InRunQueue(sema[s].waitList, t)
                 PROVE  t \in ToLook(s)
      BY DEF Off
    <3>1. t \notin Listed(s)
      BY DEF Listed, InRunQueue
    <3>2. t \in parked => info[t].suspendCount # 0
      BY DEF KInv, ObjectInv, Stuck
    <3>3. t \in parked => info[t].suspendCount > 0
      BY <3>2, OneInfo, Constants DEF Infos
    <3>. QED  BY <3>1, <3>3 DEF ToLook, InWait
  <2>3. IsFiniteSet(ToLook(s))
    <3>1. ToLook(s) \subseteq Threads
      BY DEF ToLook, InWait
    <3>. QED  BY <3>1, Constants, FS_Subset
  <2>4. /\ Cardinality(Off(s)) <= Cardinality(ToLook(s))
        /\ Cardinality(Off(s)) \in Nat /\ Cardinality(ToLook(s)) \in Nat
    BY <2>2, <2>3, FS_Subset, FS_CardinalityType, OffFinite
  <2>5. sema[s].count \in Int
    BY OneSema DEF SemaRecs
  <2>. QED  BY <2>1, <2>4, <2>5
<1>. QED  BY <1>1, Invariant, PTL

-----------------------------------------------------------------------------
(***************************************************************************)
(* Every semaphore of the kernel implements AbstractSemaphore.  A step of  *)
(* the kernel is a step of the abstract semaphore or leaves it alone; which *)
(* one it is follows from KInv: a thread in WaitSema has no result yet, the *)
(* semaphore it waits for was created, and a thread in any other call is    *)
(* about some other object.                                                *)
(***************************************************************************)

(* One client of the abstract semaphore *)

Waiting(t) == pc[t] = "sema" /\ on[t] = Observed
OutcomeOf(t) == IF on[t] = Observed THEN ret[t] ELSE "none"

\* What the abstract semaphore sees of a client is as before.
Same(t) == (Waiting(t)' <=> Waiting(t)) /\ OutcomeOf(t)' = OutcomeOf(t)

\* So is what it sees of the semaphore.
SameSema ==
    /\ sema'[Observed].count = sema[Observed].count
    /\ sema'[Observed].maxCount = sema[Observed].maxCount
    /\ (sema'[Observed].state = "live") <=> (sema[Observed].state = "live")

\* A step that the abstract semaphore cannot see.
LEMMA Unseen ==
    ASSUME SameSema, \A u \in Threads : Same(u)
    PROVE  UNCHANGED Abstract!svars
<1>1. InWait(Observed)' = InWait(Observed)
  BY DEF InWait, Same, Waiting
<1>2. [t \in Threads |-> IF on'[t] = Observed THEN ret'[t] ELSE "none"]
        = [t \in Threads |-> IF on[t] = Observed THEN ret[t] ELSE "none"]
  BY DEF Same, OutcomeOf
<1>. QED  BY <1>1, <1>2 DEF SameSema, Abstract!svars

\* A step in which one client changes, to be neither waiting nor answered.
LEMMA Forgets ==
    ASSUME SameSema, NEW t \in Threads, ~Waiting(t), ~Waiting(t)', OutcomeOf(t)' = "none",
           \A u \in Threads \ {t} : Same(u)
    PROVE  Abstract!ANext
<1>1. InWait(Observed)' = InWait(Observed) /\ t \notin InWait(Observed)
  BY DEF InWait, Same, Waiting
<1>2. [u \in Threads |-> IF on'[u] = Observed THEN ret'[u] ELSE "none"]
        = [[u \in Threads |-> IF on[u] = Observed THEN ret[u] ELSE "none"] EXCEPT ![t] = "none"]
  BY DEF Same, OutcomeOf
<1>3. Abstract!Forget(t)
  BY <1>1, <1>2 DEF SameSema, Abstract!Forget
<1>. QED  BY <1>3 DEF Abstract!ANext

-----------------------------------------------------------------------------
(* Calls on threads *)

\* Nothing of the semaphores changes, and only the thread t is given a new
\* call, object or result: none that concerns the observed semaphore.
LEMMA ThreadSteps ==
    ASSUME KInv, NEW t \in Threads, UNCHANGED sema,
           pc[t] # "sema" \/ on[t] # Observed, pc'[t] # "sema",
           on'[t] # Observed \/ ret'[t] = "none",
           \A u \in Threads \ {t} : /\ on'[u] = on[u] /\ ret'[u] = ret[u]
                                    /\ pc'[u] = "sema" <=> pc[u] = "sema"
    PROVE  Abstract!ANext
<1>1. SameSema
  BY DEF SameSema
<1>2. ~Waiting(t) /\ ~Waiting(t)' /\ OutcomeOf(t)' = "none"
  BY DEF Waiting, OutcomeOf
<1>3. \A u \in Threads \ {t} : Same(u)
  BY DEF Same, Waiting, OutcomeOf
<1>. QED  BY <1>1, <1>2, <1>3, Forgets

\* A thread that ends: those that joined it go on.
LEMMA ExitsOthers ==
    ASSUME KInv, NEW t \in Threads, Exits(t)
    PROVE  /\ pc'[t] = "gone" /\ ret'[t] = "none" /\ on'[t] = on[t]
           /\ \A u \in Threads \ {t} : /\ on'[u] = on[u] /\ ret'[u] = ret[u]
                                       /\ pc'[u] = "sema" <=> pc[u] = "sema"
  BY DEF Exits, KInv, KTypes

\* A call that does not touch calls, objects and results at all.
LEMMA Quiet ==
    ASSUME KInv, UNCHANGED <<sema, on, ret>>,
           \A u \in Threads : pc'[u] = "sema" <=> pc[u] = "sema"
    PROVE  UNCHANGED Abstract!svars
<1>1. SameSema
  BY DEF SameSema
<1>2. \A u \in Threads : Same(u)
  BY DEF Same, Waiting, OutcomeOf
<1>. QED  BY <1>1, <1>2, Unseen

\* No call on a thread is seen, except that the thread's last wait may now be
\* one on something else.
LEMMA ThreadNextMaps ==
    ASSUME KInv, ThreadNext, UNCHANGED <<semaVars, flagVars>>
    PROVE  [Abstract!ANext]_Abstract!svars
<1>0. UNCHANGED sema
  BY DEF semaVars
<1>o. /\ Nothing # Observed
      /\ \A u \in Threads : u # Observed
  BY Constants
<1>1. ASSUME NEW t \in Threads, YieldPoint(t) PROVE Abstract!ANext
  <2>1. Exits(t) /\ pc[t] = "run"
    BY <1>1 DEF YieldPoint, Running
  <2>. QED  BY <1>0, <2>1, ExitsOthers, ThreadSteps
<1>2. ASSUME NEW t \in Threads, SleepThread(t) PROVE Abstract!ANext
  <2>1. /\ pc[t] = "run" /\ on' = [on EXCEPT ![t] = Nothing]
        /\ \/ pc' = [pc EXCEPT ![t] = "run"] /\ ret' = [ret EXCEPT ![t] = "KE_OK"]
           \/ pc' = [pc EXCEPT ![t] = "sleep"] /\ ret' = [ret EXCEPT ![t] = "none"]
    BY <1>2 DEF SleepThread, Running, Returns, Parks
  <2>2. /\ pc'[t] # "sema" /\ on'[t] = Nothing
        /\ \A u \in Threads \ {t} : /\ on'[u] = on[u] /\ ret'[u] = ret[u]
                                    /\ pc'[u] = "sema" <=> pc[u] = "sema"
    BY <2>1 DEF KInv, KTypes
  <2>. QED  BY <1>0, <1>o, <2>1, <2>2, ThreadSteps
<1>3. ASSUME NEW t \in Threads, SleepWoken(t) PROVE Abstract!ANext
  <2>1. pc[t] = "sleep" /\ on[t] = Nothing /\ on = [on EXCEPT ![t] = Nothing]
    BY <1>3 DEF SleepWoken, KInv, ObjectInv, KTypes
  <2>2. CASE Exits(t)
    BY <1>0, <1>o, <2>1, <2>2, ExitsOthers, ThreadSteps
  <2>3. CASE ~Exits(t)
    <3>1. /\ on' = on
          /\ \/ pc' = [pc EXCEPT ![t] = "run"] /\ ret' = [ret EXCEPT ![t] = "KE_RELEASE_WAIT"]
             \/ pc' = [pc EXCEPT ![t] = "run"] /\ ret' = [ret EXCEPT ![t] = "KE_OK"]
             \/ pc' = [pc EXCEPT ![t] = "sleep"] /\ ret' = [ret EXCEPT ![t] = "none"]
      BY <1>3, <2>3 DEF SleepWoken, Returns, Parks
    <3>2. /\ pc'[t] # "sema" /\ on'[t] = Nothing
          /\ \A u \in Threads \ {t} : /\ on'[u] = on[u] /\ ret'[u] = ret[u]
                                      /\ pc'[u] = "sema" <=> pc[u] = "sema"
      BY <2>1, <3>1 DEF KInv, KTypes
    <3>. QED  BY <1>0, <1>o, <2>1, <3>2, ThreadSteps
  <2>. QED  BY <2>2, <2>3
<1>4. ASSUME NEW t \in Threads, SuspendThreadSelf(t) PROVE UNCHANGED Abstract!svars
  <2>1. pc[t] = "run" /\ pc' = [pc EXCEPT ![t] = "suspended"] /\ UNCHANGED <<on, ret>>
    BY <1>4 DEF SuspendThreadSelf, Running
  <2>2. \A u \in Threads : pc'[u] = "sema" <=> pc[u] = "sema"
    BY <2>1 DEF KInv, KTypes
  <2>. QED  BY <1>0, <2>1, <2>2, Quiet
<1>5. ASSUME NEW t \in Threads, SuspendSelfReturns(t) PROVE [Abstract!ANext]_Abstract!svars
  <2>0. pc[t] = "suspended"
    BY <1>5 DEF SuspendSelfReturns
  <2>1. CASE Exits(t)
    BY <1>0, <2>0, <2>1, ExitsOthers, ThreadSteps
  <2>2. CASE ~Exits(t)
    <3>1. pc' = [pc EXCEPT ![t] = "run"] /\ ret' = ret /\ on' = on
      BY <1>5, <2>2, OneInfo DEF SuspendSelfReturns, Returns
    <3>2. \A u \in Threads : pc'[u] = "sema" <=> pc[u] = "sema"
      BY <2>0, <3>1 DEF KInv, KTypes
    <3>. QED  BY <1>0, <3>1, <3>2, Quiet
  <2>. QED  BY <2>1, <2>2
<1>6. ASSUME NEW t \in Threads, NEW u \in Threads, TerminateThread(t, u) PROVE Abstract!ANext
  <2>1. /\ pc[t] = "run" /\ pc' = [pc EXCEPT ![t] = "join"] /\ on' = [on EXCEPT ![t] = u]
        /\ ret' = [ret EXCEPT ![t] = ret[t]]
    BY <1>6, OneInfo DEF TerminateThread, Running
  <2>2. /\ pc'[t] # "sema" /\ on'[t] # Observed
        /\ \A v \in Threads \ {t} : /\ on'[v] = on[v] /\ ret'[v] = ret[v]
                                    /\ pc'[v] = "sema" <=> pc[v] = "sema"
    BY <1>o, <2>1 DEF KInv, KTypes
  <2>. QED  BY <1>0, <2>1, <2>2, ThreadSteps
<1>7. ASSUME NEW u \in Threads, StartThread(u) PROVE Abstract!ANext
  <2>1. /\ pc[u] = "gone" /\ pc' = [pc EXCEPT ![u] = "run"] /\ on' = [on EXCEPT ![u] = Nothing]
        /\ ret' = [ret EXCEPT ![u] = "none"]
    BY <1>7 DEF StartThread
  <2>2. /\ pc'[u] # "sema" /\ ret'[u] = "none"
        /\ \A v \in Threads \ {u} : /\ on'[v] = on[v] /\ ret'[v] = ret[v]
                                    /\ pc'[v] = "sema" <=> pc[v] = "sema"
    BY <2>1 DEF KInv, KTypes
  <2>. QED  BY <1>0, <2>1, <2>2, ThreadSteps
<1>8. ASSUME NEW u \in Threads,
             \/ WakeupThread(u) \/ CancelWakeupThread(u) \/ ReleaseWaitThread(u)
             \/ SuspendThreadOther(u) \/ ResumeThread(u)
      PROVE  UNCHANGED Abstract!svars
  <2>1. UNCHANGED <<pc, on, ret>>
    BY <1>8
       DEF WakeupThread, CancelWakeupThread, ReleaseWaitThread, SuspendThreadOther, ResumeThread
  <2>. QED  BY <1>0, <2>1, Quiet
<1>. QED  BY <1>1, <1>2, <1>3, <1>4, <1>5, <1>6, <1>7, <1>8 DEF ThreadNext

-----------------------------------------------------------------------------
(* Calls on event flags *)

\* A wait on a flag is one on something else.
LEMMA FlagNextMaps ==
    ASSUME KInv, FlagNext, UNCHANGED semaVars
    PROVE  [Abstract!ANext]_Abstract!svars
<1>0. UNCHANGED sema
  BY DEF semaVars
<1>o. \A e \in Flags : e # Observed
  BY Constants
<1>1. ASSUME NEW t \in Threads, NEW e \in Flags, NEW w \in Waits, WaitEventFlag(t, e, w)
      PROVE  Abstract!ANext
  <2>1. /\ pc[t] = "run" /\ on' = [on EXCEPT ![t] = e]
        /\ \/ pc' = [pc EXCEPT ![t] = "run"] /\ ret' = [ret EXCEPT ![t] = "KE_OK"]
           \/ pc' = [pc EXCEPT ![t] = "event"] /\ ret' = [ret EXCEPT ![t] = "none"]
    BY <1>1 DEF WaitEventFlag, Running, Returns, FlagPublishAndPark, Parks
  <2>2. /\ pc'[t] # "sema" /\ on'[t] # Observed
        /\ \A u \in Threads \ {t} : /\ on'[u] = on[u] /\ ret'[u] = ret[u]
                                    /\ pc'[u] = "sema" <=> pc[u] = "sema"
    BY <1>o, <2>1 DEF KInv, KTypes
  <2>. QED  BY <1>0, <2>1, <2>2, ThreadSteps
<1>2. ASSUME NEW t \in Threads, WaitEventFlagWoken(t) PROVE Abstract!ANext
  <2>1. pc[t] = "event" /\ on[t] # Observed
    BY <1>2, <1>o DEF WaitEventFlagWoken, KInv, ObjectInv
  <2>2. CASE Exits(t)
    BY <1>0, <2>1, <2>2, ExitsOthers, ThreadSteps
  <2>3. CASE ~Exits(t)
    <3>1. /\ on' = on
          /\ \/ pc' = [pc EXCEPT ![t] = "run"] /\ ret' = [ret EXCEPT ![t] = "KE_WAIT_DELETE"]
             \/ pc' = [pc EXCEPT ![t] = "run"] /\ ret' = [ret EXCEPT ![t] = "KE_RELEASE_WAIT"]
             \/ pc' = [pc EXCEPT ![t] = "run"] /\ ret' = [ret EXCEPT ![t] = "KE_OK"]
             \/ pc' = [pc EXCEPT ![t] = "event"] /\ ret' = [ret EXCEPT ![t] = "none"]
      BY <1>2, <2>3 DEF WaitEventFlagWoken, Returns, FlagPublishAndPark, Parks
    <3>2. /\ pc'[t] # "sema" /\ on'[t] # Observed
          /\ \A u \in Threads \ {t} : /\ on'[u] = on[u] /\ ret'[u] = ret[u]
                                      /\ pc'[u] = "sema" <=> pc[u] = "sema"
      BY <2>1, <3>1 DEF KInv, KTypes
    <3>. QED  BY <1>0, <2>1, <3>2, ThreadSteps
  <2>. QED  BY <2>2, <2>3
<1>3. ASSUME NEW e \in Flags, DeleteEventFlag(e) \/ \E bits \in Patterns : SetEventFlag(e, bits)
      PROVE  UNCHANGED Abstract!svars
  BY <1>0, <1>3, Quiet DEF DeleteEventFlag, SetEventFlag
<1>4. ASSUME NEW e \in Flags, \/ \E bits \in SUBSET EventBits : ClearEventFlag(e, bits)
                              \/ \E w \in Waits : PollEventFlag(e, w)
      PROVE  UNCHANGED Abstract!svars
  BY <1>0, <1>4, Quiet DEF ClearEventFlag, PollEventFlag
<1>5. ASSUME NEW multi \in BOOLEAN, NEW bits \in SUBSET EventBits, CreateEventFlag(multi, bits)
      PROVE  UNCHANGED Abstract!svars
  BY <1>0, <1>5, Quiet DEF CreateEventFlag
<1>. QED  BY <1>1, <1>2, <1>3, <1>4, <1>5 DEF FlagNext

-----------------------------------------------------------------------------
(* Calls on semaphores *)

\* The observed semaphore after a call on s.
LEMMA ObservedAfter ==
    ASSUME KInv, NEW s \in Semas, NEW m, sema' = [sema EXCEPT ![s] = m]
    PROVE  /\ s = Observed => sema'[Observed] = m
           /\ s # Observed => sema'[Observed] = sema[Observed]
  BY Constants DEF KInv, KTypes

\* What a step that moves no client does to the clients.
LEMMA NobodyMoves ==
    ASSUME UNCHANGED <<pc, on, ret>>
    PROVE  /\ InWait(Observed)' = InWait(Observed)
           /\ [t \in Threads |-> IF on'[t] = Observed THEN ret'[t] ELSE "none"]
                = [t \in Threads |-> IF on[t] = Observed THEN ret[t] ELSE "none"]
  BY DEF InWait

\* CreateSema clamps what it is asked for to a semaphore that makes sense.
LEMMA CreateSemaMaps ==
    ASSUME KInv, NEW init \in -1..MaxPermits, NEW max \in -1..MaxPermits, CreateSema(init, max)
    PROVE  [Abstract!ANext]_Abstract!svars
<1>0. UNCHANGED <<pc, on, ret>>
  BY DEF CreateSema
<1>s. PICK s \in Semas : /\ \A r \in Semas : sema[r].state = "unused" <=> r >= s
                         /\ sema' = [sema EXCEPT ![s] = Clamped(init, max)]
  BY DEF CreateSema
<1>1. sema[s].state = "unused" /\ sema' = [sema EXCEPT ![s] = Clamped(init, max)]
  <2>1. s >= s
    BY Constants
  <2>. QED  BY <1>s, <2>1
<1>2. CASE s # Observed
  <2>1. SameSema
    BY <1>1, <1>2, ObservedAfter DEF SameSema
  <2>2. \A u \in Threads : Same(u)
    BY <1>0 DEF Same, Waiting, OutcomeOf
  <2>. QED  BY <2>1, <2>2, Unseen
<1>3. CASE s = Observed
  <2> DEFINE m == Clamped(init, max)
  <2>1. /\ m.state = "live" /\ m.maxCount \in Nat \ {0} /\ m.count \in 0..m.maxCount
    BY Constants DEF Clamped
  <2>2. sema'[Observed] = m
    BY <1>1, <1>3, ObservedAfter
  <2>. HIDE DEF m
  <2>3. sema[Observed].maxCount = 0
    BY <1>1, <1>3 DEF KInv, SemaInv, SemaOK
  <2>4. Abstract!Create
    BY <1>0, <2>1, <2>2, <2>3, NobodyMoves DEF Abstract!Create
  <2>. QED  BY <2>4 DEF Abstract!ANext
<1>. QED  BY <1>2, <1>3

\* A call that changes the record of s and moves no client.
LEMMA ServerStep ==
    ASSUME KInv, NEW s \in Semas, NEW m, sema' = [sema EXCEPT ![s] = m],
           UNCHANGED <<pc, on, ret>>, m.maxCount = sema[s].maxCount,
           \/ m.count = sema[s].count /\ (m.state = "live" <=> sema[s].state = "live")
           \/ m.count = sema[s].count /\ sema[s].state = "live" /\ m.state # "live"
           \/ /\ m.count = sema[s].count + 1 /\ sema[s].count < sema[s].maxCount
              /\ m.state = "live" /\ sema[s].state = "live"
           \/ /\ m.count = sema[s].count - 1 /\ sema[s].count > 0
              /\ m.state = "live" /\ sema[s].state = "live"
    PROVE  [Abstract!ANext]_Abstract!svars
<1> DEFINE same == m.count = sema[s].count /\ (m.state = "live" <=> sema[s].state = "live")
<1>1. CASE s # Observed \/ same
  <2>1. SameSema
    BY <1>1, ObservedAfter DEF SameSema
  <2>2. \A u \in Threads : Same(u)
    BY DEF Same, Waiting, OutcomeOf
  <2>. QED  BY <2>1, <2>2, Unseen
<1>2. CASE s = Observed /\ ~same
  <2>1. sema'[Observed] = m
    BY <1>2, ObservedAfter
  <2>2. CASE m.count = sema[s].count /\ sema[s].state = "live" /\ m.state # "live"
    <3>1. Abstract!Delete
      BY <1>2, <2>1, <2>2, NobodyMoves DEF Abstract!Delete
    <3>. QED  BY <3>1 DEF Abstract!ANext
  <2>3. CASE /\ m.count = sema[s].count + 1 /\ sema[s].count < sema[s].maxCount
             /\ m.state = "live" /\ sema[s].state = "live"
    <3>1. Abstract!Signal
      BY <1>2, <2>1, <2>3, NobodyMoves DEF Abstract!Signal
    <3>. QED  BY <3>1 DEF Abstract!ANext
  <2>4. CASE /\ m.count = sema[s].count - 1 /\ sema[s].count > 0
             /\ m.state = "live" /\ sema[s].state = "live"
    <3>1. Abstract!TakeAnonymously
      BY <1>2, <2>1, <2>4, NobodyMoves DEF Abstract!TakeAnonymously
    <3>. QED  BY <3>1 DEF Abstract!ANext
  <2>. QED  BY <1>2, <2>2, <2>3, <2>4
<1>. QED  BY <1>1, <1>2

\* PollSema and a worker's wait take a permit without an identity.
LEMMA TakeMaps ==
    ASSUME KInv, NEW s \in Semas, sema[s].state = "live", sema[s].count > 0,
           sema' = [sema EXCEPT ![s].count = @ - 1], UNCHANGED <<pc, on, ret>>
    PROVE  [Abstract!ANext]_Abstract!svars
<1> DEFINE n == sema[s].count - 1
           m == [sema[s] EXCEPT !.count = n]
<1>1. sema' = [sema EXCEPT ![s] = m]
  BY DEF KInv, KTypes, SemaRecs
<1>2. m.count = n /\ m.maxCount = sema[s].maxCount /\ m.state = "live"
  BY OneSema DEF SemaRecs
<1>. HIDE DEF m
<1>. QED  BY <1>1, <1>2, ServerStep

\* SignalSema adds a permit, whether or not a waiter is woken for it.
LEMMA SignalSemaMaps ==
    ASSUME KInv, NEW s \in Semas, SignalSema(s) PROVE [Abstract!ANext]_Abstract!svars
<1> DEFINE n == sema[s].count + 1
           l == IF sema[s].waitList = <<>> THEN sema[s].waitList ELSE Tail(sema[s].waitList)
           m == [sema[s] EXCEPT !.count = n, !.waitList = l]
<1>1. UNCHANGED <<pc, on, ret>> /\ sema[s].state = "live" /\ sema[s].count < sema[s].maxCount
  BY DEF SignalSema
<1>2. sema' = [sema EXCEPT ![s] = m]
  <2>1. CASE sema[s].waitList = <<>>
    <3>1. sema' = [sema EXCEPT ![s] = [sema[s] EXCEPT !.count = n]]
      BY <2>1 DEF SignalSema, KInv, KTypes, SemaRecs
    <3>2. l = sema[s].waitList
      BY <2>1
    <3>. HIDE DEF l, n
    <3>3. [sema[s] EXCEPT !.count = n] = m
      BY <3>2, OneSema DEF SemaRecs
    <3>. QED  BY <3>1, <3>3
  <2>2. CASE sema[s].waitList # <<>>
    <3>1. l = Tail(sema[s].waitList)
      BY <2>2
    <3>2. sema' = [sema EXCEPT ![s] = [sema[s] EXCEPT !.count = @ + 1,
                                                      !.waitList = Tail(sema[s].waitList)]]
      BY <2>2 DEF SignalSema
    <3>. QED  BY <3>1, <3>2
  <2>. QED  BY <2>1, <2>2
<1>. HIDE DEF l
<1>3. m.count = n /\ m.maxCount = sema[s].maxCount /\ m.state = "live"
  BY <1>1, OneSema DEF SemaRecs
<1>. HIDE DEF m
<1>. QED  BY <1>1, <1>2, <1>3, ServerStep

\* DeleteSema keeps the count: what is left of it is never given out.
LEMMA DeleteSemaMaps ==
    ASSUME KInv, NEW s \in Semas, DeleteSema(s) PROVE [Abstract!ANext]_Abstract!svars
<1> DEFINE e == <<>>
           m == [sema[s] EXCEPT !.state = "deleted", !.waitList = e]
<1>1. /\ UNCHANGED <<pc, on, ret>> /\ sema[s].state = "live"
      /\ sema' = [sema EXCEPT ![s] = m]
  BY DEF DeleteSema
<1>. HIDE DEF e
<1>2. m.count = sema[s].count /\ m.maxCount = sema[s].maxCount /\ m.state = "deleted"
  BY OneSema DEF SemaRecs
<1>. HIDE DEF m
<1>. QED  BY <1>1, <1>2, ServerStep

\* A worker that begins to poll is not seen.
LEMMA WorkerWaitSemaMaps ==
    ASSUME KInv, NEW w \in Workers, NEW s \in Semas, WorkerWaitSema(w, s)
    PROVE  [Abstract!ANext]_Abstract!svars
<1>1. CASE sema[s].count > 0
  BY <1>1, TakeMaps DEF WorkerWaitSema
<1>2. CASE sema[s].count = 0
  <2> DEFINE n == sema[s].waiters + 1
             m == [sema[s] EXCEPT !.waiters = n]
  <2>1. sema' = [sema EXCEPT ![s] = m] /\ UNCHANGED <<pc, on, ret>>
    BY <1>2 DEF WorkerWaitSema, KInv, KTypes, SemaRecs
  <2>2. m.count = sema[s].count /\ m.maxCount = sema[s].maxCount /\ m.state = sema[s].state
    BY OneSema DEF SemaRecs
  <2>. HIDE DEF m
  <2>. QED  BY <2>1, <2>2, ServerStep
<1>. QED  BY <1>1, <1>2 DEF WorkerWaitSema

\* A polling worker takes a permit of a live semaphore, or finds it deleted.
LEMMA WorkerPollsMaps ==
    ASSUME KInv, NEW w \in Workers, WorkerPolls(w) PROVE [Abstract!ANext]_Abstract!svars
<1> DEFINE s == polling[w]
           n == IF sema[s].state = "deleted" THEN sema[s].count ELSE sema[s].count - 1
           k == sema[s].waiters - 1
           m == [sema[s] EXCEPT !.waiters = k, !.count = n]
<1>1. s \in Semas
  BY DEF WorkerPolls, KInv, KTypes
<1>2. sema[s].state \in {"live", "deleted"} /\ (sema[s].state = "deleted" \/ sema[s].count > 0)
  BY <1>1, OneSema DEF SemaRecs, SemaOK, WorkerPolls
<1>3. sema' = [sema EXCEPT ![s] = m] /\ UNCHANGED <<pc, on, ret>>
  BY DEF WorkerPolls
<1>4. /\ sema[s].state = "deleted" => n = sema[s].count
      /\ sema[s].state = "live" => n = sema[s].count - 1
  OBVIOUS
<1>. HIDE DEF n, k
<1>5. m.count = n /\ m.maxCount = sema[s].maxCount /\ m.state = sema[s].state
  BY <1>1, OneSema DEF SemaRecs
<1>. HIDE DEF m, s
<1>. QED  BY <1>1, <1>2, <1>3, <1>4, <1>5, ServerStep

\* A step of a thread's wait on s: it gets a permit, begins to wait or waits
\* again, or leaves without one.
LEMMA ClientStep ==
    ASSUME KInv, NEW t \in Threads, NEW s \in Semas, NEW m, sema' = [sema EXCEPT ![s] = m],
           m.maxCount = sema[s].maxCount, m.state = sema[s].state,
           \A u \in Threads \ {t} : /\ on'[u] = on[u] /\ ret'[u] = ret[u]
                                    /\ pc'[u] = "sema" <=> pc[u] = "sema",
           on'[t] = s,
           pc[t] = "run" \/ (pc[t] = "sema" /\ on[t] = s /\ ret[t] = "none"),
           \/ /\ sema[s].state = "live" /\ sema[s].count > 0 /\ m.count = sema[s].count - 1
              /\ pc'[t] = "run" /\ ret'[t] = "KE_OK"
           \/ /\ sema[s].state = "live" /\ sema[s].count = 0 /\ m.count = sema[s].count
              /\ pc'[t] = "sema" /\ ret'[t] = "none"
           \/ /\ pc[t] = "sema" /\ m.count = sema[s].count /\ pc'[t] # "sema"
              /\ ret'[t] \in {"none", "KE_RELEASE_WAIT", "KE_WAIT_DELETE"}
              /\ ret'[t] = "KE_WAIT_DELETE" => sema[s].state # "live"
    PROVE  [Abstract!ANext]_Abstract!svars
<1>0. \A u \in Threads \ {t} : Same(u)
  BY DEF Same, Waiting, OutcomeOf
<1>1. CASE s # Observed
  <2>1. SameSema
    BY <1>1, ObservedAfter DEF SameSema
  <2>2. ~Waiting(t) /\ ~Waiting(t)' /\ OutcomeOf(t)' = "none"
    BY <1>1 DEF Waiting, OutcomeOf
  <2>. QED  BY <1>0, <2>1, <2>2, Forgets
<1>2. CASE s = Observed
  <2> DEFINE before == [u \in Threads |-> IF on[u] = Observed THEN ret[u] ELSE "none"]
             after == [u \in Threads |-> IF on'[u] = Observed THEN ret'[u] ELSE "none"]
  <2>1. sema'[Observed] = m
    BY <1>2, ObservedAfter
  <2>2. after = [before EXCEPT ![t] = ret'[t]]
    BY <1>0, <1>2 DEF Same, OutcomeOf
  <2>3. /\ pc'[t] = "sema" => InWait(Observed)' = InWait(Observed) \cup {t}
        /\ pc'[t] # "sema" => InWait(Observed)' = InWait(Observed) \ {t}
    BY <1>0, <1>2 DEF InWait, Same, Waiting
  <2>4. /\ pc[t] = "run" => t \notin InWait(Observed)
        /\ pc[t] = "sema" => t \in InWait(Observed)
    BY <1>2 DEF InWait
  <2>5. CASE /\ sema[s].state = "live" /\ sema[s].count > 0 /\ m.count = sema[s].count - 1
             /\ pc'[t] = "run" /\ ret'[t] = "KE_OK"
    <3>1. Abstract!Succeed(t)
      BY <1>2, <2>1, <2>2, <2>3, <2>5 DEF Abstract!Succeed
    <3>. QED  BY <3>1 DEF Abstract!ANext
  <2>6. CASE /\ sema[s].state = "live" /\ sema[s].count = 0 /\ m.count = sema[s].count
             /\ pc'[t] = "sema" /\ ret'[t] = "none"
    <3>1. CASE pc[t] = "run"
      <4>1. Abstract!BeginWait(t)
        BY <1>2, <2>1, <2>2, <2>3, <2>4, <2>6, <3>1 DEF Abstract!BeginWait
      <4>. QED  BY <4>1 DEF Abstract!ANext
    <3>2. CASE pc[t] = "sema" /\ on[t] = s /\ ret[t] = "none"
      <4>1. SameSema
        BY <1>2, <2>1, <2>6 DEF SameSema
      <4>2. Same(t)
        BY <1>2, <2>6, <3>2 DEF Same, Waiting, OutcomeOf
      <4>. QED  BY <1>0, <4>1, <4>2, Unseen
    <3>. QED  BY <3>1, <3>2
  <2>7. CASE /\ pc[t] = "sema" /\ m.count = sema[s].count /\ pc'[t] # "sema"
             /\ ret'[t] \in {"none", "KE_RELEASE_WAIT", "KE_WAIT_DELETE"}
             /\ ret'[t] = "KE_WAIT_DELETE" => sema[s].state # "live"
    <3>1. Abstract!Fail(t)
      BY <1>2, <2>1, <2>2, <2>3, <2>4, <2>7 DEF Abstract!Fail
    <3>. QED  BY <3>1 DEF Abstract!ANext
  <2>. QED  BY <2>5, <2>6, <2>7
<1>. QED  BY <1>1, <1>2

\* WaitSema gets a permit at once or begins to wait.
LEMMA WaitSemaMaps ==
    ASSUME KInv, NEW t \in Threads, NEW s \in Semas, WaitSema(t, s)
    PROVE  [Abstract!ANext]_Abstract!svars
<1>0. sema[s].state = "live" /\ pc[t] = "run" /\ on' = [on EXCEPT ![t] = s]
  BY DEF WaitSema, Running
<1>1. CASE sema[s].count > 0
  <2> DEFINE n == sema[s].count - 1
             m == [sema[s] EXCEPT !.count = n]
  <2>1. /\ sema' = [sema EXCEPT ![s] = m] /\ pc' = [pc EXCEPT ![t] = "run"]
        /\ ret' = [ret EXCEPT ![t] = "KE_OK"]
    BY <1>1 DEF WaitSema, Returns, KInv, KTypes, SemaRecs
  <2>2. m.count = n /\ m.maxCount = sema[s].maxCount /\ m.state = sema[s].state
    BY OneSema DEF SemaRecs
  <2>. HIDE DEF m
  <2>3. /\ pc'[t] = "run" /\ on'[t] = s /\ ret'[t] = "KE_OK"
        /\ \A u \in Threads \ {t} : /\ on'[u] = on[u] /\ ret'[u] = ret[u]
                                    /\ pc'[u] = "sema" <=> pc[u] = "sema"
    BY <1>0, <2>1 DEF KInv, KTypes
  <2>. QED  BY <1>0, <1>1, <2>1, <2>2, <2>3, ClientStep
<1>2. CASE sema[s].count = 0
  <2> DEFINE n == sema[s].waiters + 1
             l == publishWaiter(sema[s].waitList, t)
             m == [sema[s] EXCEPT !.waiters = n, !.waitList = l]
  <2>1. /\ sema' = [sema EXCEPT ![s] = m] /\ pc' = [pc EXCEPT ![t] = "sema"]
        /\ ret' = [ret EXCEPT ![t] = "none"]
    BY <1>2, OneSema DEF WaitSema, PublishAndPark, Parks, SemaRecs
  <2>. HIDE DEF l
  <2>2. m.count = sema[s].count /\ m.maxCount = sema[s].maxCount /\ m.state = sema[s].state
    BY OneSema DEF SemaRecs
  <2>. HIDE DEF m
  <2>3. /\ pc'[t] = "sema" /\ on'[t] = s /\ ret'[t] = "none"
        /\ \A u \in Threads \ {t} : /\ on'[u] = on[u] /\ ret'[u] = ret[u]
                                    /\ pc'[u] = "sema" <=> pc[u] = "sema"
    BY <1>0, <2>1 DEF KInv, KTypes
  <2>. QED  BY <1>0, <1>2, <2>1, <2>2, <2>3, ClientStep
<1>. QED  BY <1>1, <1>2 DEF WaitSema

\* A woken waiter leaves with the permit it finds, leaves without one, or
\* waits on, which is not seen.
LEMMA WaitSemaWokenMaps ==
    ASSUME KInv, NEW t \in Threads, WaitSemaWoken(t) PROVE [Abstract!ANext]_Abstract!svars
<1> DEFINE s == on[t]
           l == unpublishWaiter(sema[s].waitList, t)
           n == sema[s].waiters - 1
           m == [sema[s] EXCEPT !.waiters = n, !.waitList = l]
<1>0. pc[t] = "sema" /\ s \in Semas /\ ret[t] = "none" /\ sema[s].state # "unused"
  BY DEF WaitSemaWoken, KInv, ObjectInv
<1>a. \/ /\ m.state = "deleted" \/ info[t].forceRelease \/ info[t].terminated
         /\ sema' = [sema EXCEPT ![s] = m]
         /\ IF info[t].terminated THEN Exits(t)
            ELSE IF m.state = "deleted"
            THEN Returns(t, clearThreadWaiting(info[t]), "KE_WAIT_DELETE") /\ UNCHANGED on
            ELSE Returns(t, clearThreadWaiting(consumeForceRelease(info[t])),
                         "KE_RELEASE_WAIT") /\ UNCHANGED on
      \/ /\ m.state # "deleted" /\ UNCHANGED on
         /\ \/ /\ m.count > 0 /\ sema' = [sema EXCEPT ![s] = [m EXCEPT !.count = @ - 1]]
               /\ Returns(t, clearThreadWaiting(info[t]), "KE_OK")
            \/ m.count = 0 /\ PublishAndPark(t, s, m)
  BY DEF WaitSemaWoken
<1>1. sema[s] \in SemaRecs /\ sema[s].waiters \in Int /\ sema[s].waitList \in Seq(Threads)
      /\ sema[s].count \in Int
  BY <1>0, OneSema DEF SemaRecs
<1>2. l \in Seq(Threads) /\ n \in Int
  BY <1>1, UnpublishOthers
<1>. HIDE DEF l, n
<1>3. /\ m \in SemaRecs /\ m.count = sema[s].count /\ m.maxCount = sema[s].maxCount
      /\ m.state = sema[s].state /\ m.waitList = l /\ m.waiters = n
  BY <1>1, <1>2 DEF SemaRecs
<1>s. on[t] = s
  OBVIOUS
<1>. HIDE DEF m, s
<1>4. CASE sema' = [sema EXCEPT ![s] = m] /\ Exits(t)
  <2>1. /\ pc'[t] = "gone" /\ ret'[t] = "none" /\ on'[t] = s
        /\ \A u \in Threads \ {t} : /\ on'[u] = on[u] /\ ret'[u] = ret[u]
                                    /\ pc'[u] = "sema" <=> pc[u] = "sema"
    BY <1>s, <1>4, ExitsOthers
  <2>. QED  BY <1>0, <1>3, <1>4, <1>s, <2>1, ClientStep
<1>5. CASE /\ sema' = [sema EXCEPT ![s] = m] /\ UNCHANGED on
           /\ \/ m.state = "deleted" /\ Returns(t, clearThreadWaiting(info[t]), "KE_WAIT_DELETE")
              \/ Returns(t, clearThreadWaiting(consumeForceRelease(info[t])), "KE_RELEASE_WAIT")
  <2>1. /\ pc'[t] = "run" /\ on'[t] = s
        /\ \/ m.state = "deleted" /\ ret'[t] = "KE_WAIT_DELETE"
           \/ ret'[t] = "KE_RELEASE_WAIT"
        /\ \A u \in Threads \ {t} : /\ on'[u] = on[u] /\ ret'[u] = ret[u]
                                    /\ pc'[u] = "sema" <=> pc[u] = "sema"
    BY <1>s, <1>5 DEF Returns, KInv, KTypes
  <2>2. /\ pc[t] = "sema" /\ m.count = sema[s].count /\ pc'[t] # "sema"
        /\ ret'[t] \in {"none", "KE_RELEASE_WAIT", "KE_WAIT_DELETE"}
        /\ ret'[t] = "KE_WAIT_DELETE" => sema[s].state # "live"
    BY <1>0, <1>3, <2>1
  <2>. QED  BY <1>0, <1>3, <1>5, <1>s, <2>1, <2>2, ClientStep
<1>6. CASE /\ m.state # "deleted" /\ m.count > 0 /\ UNCHANGED on
           /\ sema' = [sema EXCEPT ![s] = [m EXCEPT !.count = @ - 1]]
           /\ Returns(t, clearThreadWaiting(info[t]), "KE_OK")
  <2> DEFINE g == [m EXCEPT !.count = @ - 1]
  <2>1. g.count = sema[s].count - 1 /\ g.maxCount = sema[s].maxCount /\ g.state = sema[s].state
    BY <1>3 DEF SemaRecs
  <2>2. sema' = [sema EXCEPT ![s] = g]
    BY <1>6
  <2>. HIDE DEF g
  <2>3. /\ pc'[t] = "run" /\ on'[t] = s /\ ret'[t] = "KE_OK"
        /\ \A u \in Threads \ {t} : /\ on'[u] = on[u] /\ ret'[u] = ret[u]
                                    /\ pc'[u] = "sema" <=> pc[u] = "sema"
    BY <1>s, <1>6 DEF Returns, KInv, KTypes
  <2>4. sema[s].state = "live" /\ sema[s].count > 0
    BY <1>0, <1>1, <1>3, <1>6 DEF SemaRecs
  <2>. QED  BY <1>0, <1>s, <2>1, <2>2, <2>3, <2>4, ClientStep
<1>7. CASE m.state # "deleted" /\ m.count = 0 /\ UNCHANGED on /\ PublishAndPark(t, s, m)
  <2> DEFINE k == n + 1
             p == publishWaiter(l, t)
             g == [m EXCEPT !.waiters = k, !.waitList = p]
  <2>1. /\ sema' = [sema EXCEPT ![s] = g] /\ pc' = [pc EXCEPT ![t] = "sema"]
        /\ ret' = [ret EXCEPT ![t] = "none"]
    BY <1>3, <1>7 DEF PublishAndPark, Parks
  <2>. HIDE DEF k, p
  <2>2. g.count = sema[s].count /\ g.maxCount = sema[s].maxCount /\ g.state = sema[s].state
    BY <1>3 DEF SemaRecs
  <2>. HIDE DEF g
  <2>3. /\ pc'[t] = "sema" /\ on'[t] = s /\ ret'[t] = "none"
        /\ \A u \in Threads \ {t} : /\ on'[u] = on[u] /\ ret'[u] = ret[u]
                                    /\ pc'[u] = "sema" <=> pc[u] = "sema"
    BY <1>s, <1>7, <2>1 DEF KInv, KTypes
  <2>4. sema[s].state = "live" /\ sema[s].count = 0
    BY <1>0, <1>1, <1>3, <1>7 DEF SemaRecs
  <2>. QED  BY <1>0, <1>s, <2>1, <2>2, <2>3, <2>4, ClientStep
<1>. QED  BY <1>a, <1>4, <1>5, <1>6, <1>7

-----------------------------------------------------------------------------
(* The refinement *)

\* Every call on a semaphore, observed or not.
LEMMA SemaNextMaps == ASSUME KInv, SemaNext PROVE [Abstract!ANext]_Abstract!svars
<1>1. ASSUME NEW s \in Semas, PollSema(s) PROVE [Abstract!ANext]_Abstract!svars
  BY <1>1, TakeMaps DEF PollSema
<1>. QED  BY <1>1, CreateSemaMaps, DeleteSemaMaps, SignalSemaMaps, WaitSemaMaps,
             WaitSemaWokenMaps, WorkerWaitSemaMaps, WorkerPollsMaps DEF SemaNext

\* The kernel's initial states are initial states of the abstract semaphore.
LEMMA InitMaps == Init => Abstract!AInit
<1> SUFFICES ASSUME Init PROVE Abstract!AInit
  OBVIOUS
<1>1. /\ sema[Observed].count = 0 /\ sema[Observed].maxCount = 0
      /\ sema[Observed].state = "unused"
  BY Constants DEF Init, SemaInit
<1>2. /\ pc = [t \in Threads |-> "run"] /\ on = [t \in Threads |-> Nothing]
  BY DEF Init, ThreadInit
<1>3. InWait(Observed) = {}
  BY <1>2 DEF InWait
<1>4. [t \in Threads |-> IF on[t] = Observed THEN ret[t] ELSE "none"] = [c \in Threads |-> "none"]
  BY <1>2, Constants
<1>. QED  BY <1>1, <1>3, <1>4 DEF Abstract!AInit

\* A step of the kernel is a step of the abstract semaphore or a stutter.
LEMMA NextMaps == KInv /\ [Next]_vars => [Abstract!ANext]_Abstract!svars
<1> SUFFICES ASSUME KInv, [Next]_vars PROVE [Abstract!ANext]_Abstract!svars
  OBVIOUS
<1>1. CASE ThreadNext /\ UNCHANGED <<semaVars, flagVars>>
  BY <1>1, ThreadNextMaps
<1>2. CASE SemaNext /\ UNCHANGED flagVars
  BY <1>2, SemaNextMaps
<1>3. CASE FlagNext /\ UNCHANGED semaVars
  BY <1>3, FlagNextMaps
<1>4. CASE UNCHANGED vars
  BY <1>4, Quiet DEF vars, semaVars
<1>. QED  BY <1>1, <1>2, <1>3, <1>4 DEF Next

\* Every semaphore is a counting semaphore to its callers (Sync.cpp 112-502):
\* a permit is taken by exactly the waits and polls that return success, a wait
\* that is released, terminated or deleted under takes none, and a deleted
\* semaphore grants nothing more.  Observed is any semaphore.
THEOREM SemaphoreRefined == Spec => ImplementsSemaphore
<1>1. Init /\ [][Next]_vars /\ []KInv => ImplementsSemaphore
  BY InitMaps, NextMaps, PTL DEF ImplementsSemaphore, Abstract!ASpec
<1>. QED  BY <1>1, Invariant, PTL DEF Spec
===============================================================================
