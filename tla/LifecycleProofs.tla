--------------------------- MODULE LifecycleProofs ---------------------------
(***************************************************************************)
(* The lifecycle of a thread, for any number of identifiers and ThreadInfo *)
(* objects: no fiber is replaced while it lives, every token is counted    *)
(* and has somebody left to consume it, and stacks are neither lost nor    *)
(* freed early.                                                            *)
(***************************************************************************)
EXTENDS Lifecycle, FiniteSetTheorems, WellFoundedInduction, TLAPS

-----------------------------------------------------------------------------
(* Identifiers: where CreateThread's search ends *)

\* A number below the modulus is its own remainder.
LEMMA ModSmall == ASSUME NEW n \in Nat \ {0}, NEW k \in 0..n - 1 PROVE k % n = k
  BY SMT

\* One modulus above, the remainder is the difference.
LEMMA ModOnce == ASSUME NEW n \in Nat \ {0}, NEW k \in n..2 * n - 1 PROVE k % n = k - n
  BY SMT

\* A remainder is below the modulus.
LEMMA ModRange == ASSUME NEW n \in Nat \ {0}, NEW k \in Int PROVE k % n \in 0..n - 1
  BY SMT

\* A non-empty set of naturals has a least element: the initial segments its
\* elements end, ordered by inclusion.
LEMMA LeastOf == ASSUME NEW S \in SUBSET Nat, S # {} PROVE \E m \in S : \A k \in S : m <= k
<1> DEFINE T == {0..k : k \in S}
<1>1. T \subseteq FiniteSubsetsOf(Nat) /\ T # {}
  <2>1. \A k \in S : 0..k \in SUBSET Nat /\ IsFiniteSet(0..k)
    BY FS_Interval
  <2>. QED  BY <2>1 DEF FiniteSubsetsOf
<1>2. PICK x \in T : \A y \in T : ~(<<y, x>> \in StrictSubsetOrdering(Nat))
  <2>. HIDE DEF T
  <2>. QED  BY <1>1, FS_StrictSubsetOrderingWellFounded, WFMin
<1>3. PICK m \in S : x = 0..m
  OBVIOUS
<1>4. ASSUME NEW k \in S, k < m PROVE FALSE
  <2>1. 0..k \in SUBSET Nat /\ 0..m \in SUBSET Nat /\ 0..k \subseteq 0..m /\ 0..k # 0..m
    BY <1>4
  <2>2. <<0..k, x>> \in StrictSubsetOrdering(Nat)
    BY <1>3, <2>1 DEF StrictSubsetOrdering
  <2>. QED  BY <1>2, <2>2
<1>. QED  BY <1>4

\* The bounds are natural numbers, and None is none of them.
LEMMA Bounds == /\ MaxThreadId \in Nat /\ MaxThreadId > 1 /\ MaxInfos \in Nat
                /\ Boot \notin Tids /\ None \notin Ids /\ None \notin Objects
                /\ Tids \subseteq Ids /\ Ids \subseteq Nat /\ Objects \subseteq Nat
  BY LifecycleAssumption DEF Tids, Ids, Boot, Objects

\* An identifier stays in range when it wraps.
LEMMA WrappedInRange == ASSUME NEW n \in Int PROVE Wrapped(n) \in Tids
<1> DEFINE p == MaxThreadId - 1
<1>1. p \in Nat \ {0} /\ n - 2 \in Int
  BY LifecycleAssumption
<1>2. (n - 2) % p \in 0..p - 1
  <2>. HIDE DEF p
  <2>. QED  BY <1>1, ModRange
<1>. QED  BY <1>2, LifecycleAssumption DEF Wrapped, Tids

\* Wrapped, with the difference it reduces given.
LEMMA WrappedOf == ASSUME NEW n, NEW k, n - 2 = k PROVE Wrapped(n) = 2 + (k % (MaxThreadId - 1))
  BY DEF Wrapped

\* With an identifier free, the search finds one that is.
LEMMA CandidateFree ==
    ASSUME nextId \in Tids, NEW t \in Tids, registry[t] = None
    PROVE  Candidate \in Tids /\ registry[Candidate] = None
<1> DEFINE Free(d) == registry[Wrapped(nextId + d)] = None
           S == {d \in 0..MaxThreadId - 2 : Free(d)}
<1>1. \E d \in 0..MaxThreadId - 2 : Wrapped(nextId + d) = t
  <2>0. /\ MaxThreadId - 1 \in Nat \ {0} /\ MaxThreadId \in Nat
        /\ nextId \in 2..MaxThreadId /\ t \in 2..MaxThreadId
    BY LifecycleAssumption DEF Tids
  <2>1. CASE t >= nextId
    <3>1. t - nextId \in 0..MaxThreadId - 2 /\ nextId + (t - nextId) - 2 = t - 2
      BY <2>0, <2>1
    <3> DEFINE p == MaxThreadId - 1
    <3>2. p \in Nat \ {0} /\ t - 2 \in 0..p - 1
      BY <2>0
    <3>3. (t - 2) % p = t - 2
      <4>. HIDE DEF p
      <4>. QED  BY <3>2, ModSmall
    <3>4. Wrapped(nextId + (t - nextId)) = 2 + ((t - 2) % p)
      <4> DEFINE n == nextId + (t - nextId)
                 k == t - 2
      <4>1. Wrapped(n) = 2 + (k % (MaxThreadId - 1))
        <5>1. n - 2 = k
          BY <2>0, <3>1
        <5>. HIDE DEF n, k
        <5>. QED  BY <5>1, WrappedOf
      <4>. QED  BY <4>1
    <3>. QED  BY <2>0, <3>1, <3>3, <3>4
  <2>2. CASE t < nextId
    <3> DEFINE d == t - nextId + (MaxThreadId - 1)
               k == t - 2 + (MaxThreadId - 1)
    <3>1. d \in 0..MaxThreadId - 2 /\ nextId + d - 2 = k
      BY <2>0, <2>2
    <3>2. k \in (MaxThreadId - 1)..2 * (MaxThreadId - 1) - 1
      BY <2>0, <2>2
    <3>3. k % (MaxThreadId - 1) = t - 2
      <4>1. k % (MaxThreadId - 1) = k - (MaxThreadId - 1)
        <5>. HIDE DEF k
        <5>. QED  BY <2>0, <3>2, ModOnce
      <4>. QED  BY <2>0, <4>1
    <3>4. Wrapped(nextId + d) = 2 + (k % (MaxThreadId - 1))
      <4> DEFINE n == nextId + d
      <4>1. Wrapped(n) = 2 + (k % (MaxThreadId - 1))
        <5>1. n - 2 = k
          BY <2>0, <3>1
        <5>. HIDE DEF n, k
        <5>. QED  BY <5>1, WrappedOf
      <4>. QED  BY <4>1
    <3>. QED  BY <2>0, <3>1, <3>3, <3>4
  <2>. QED  BY <2>0, <2>1, <2>2
<1>2. S \in SUBSET Nat /\ S # {}
  BY <1>1, LifecycleAssumption
<1>3. PICK m \in S : \A k \in S : m <= k
  <2>. HIDE DEF S
  <2>. QED  BY <1>2, LeastOf
<1>4. \E d \in 0..(MaxThreadId - 2) : Free(d) /\ \A e \in 0..(d - 1) : ~Free(e)
  <2>1. m \in 0..(MaxThreadId - 2) /\ Free(m)
    BY <1>3
  <2>2. ASSUME NEW e \in 0..(m - 1) PROVE ~Free(e)
    <3>1. e \in 0..MaxThreadId - 2 /\ ~(m <= e)
      BY <2>1, LifecycleAssumption
    <3>. QED  BY <1>3, <3>1
  <2>. QED  BY <2>1, <2>2
<1> DEFINE c == CHOOSE d \in 0..(MaxThreadId - 2) : Free(d) /\ \A e \in 0..(d - 1) : ~Free(e)
<1>5. c \in 0..(MaxThreadId - 2) /\ Free(c)
  BY <1>4
<1>6. Candidate = Wrapped(nextId + c)
  BY DEF Candidate
<1>7. nextId + c \in Int
  <2>. HIDE DEF c
  <2>. QED  BY <1>5, LifecycleAssumption DEF Tids
<1>. HIDE DEF c
<1>. QED  BY <1>5, <1>6, <1>7, WrappedInRange

-----------------------------------------------------------------------------
(* The inductive invariant *)

\* Places in a call that keep the slot.
InCall == {"start_lock", "start_mint", "start_create", "delete_lock", "delete_erase", "exit_mark",
           "exit_delete", "exit_consume", "hook_lookup", "hook_reset", "hook_stack",
           "hook_consume"}

Starting == {"start_lock", "start_mint", "start_create"}
Deleting == {"delete_lock", "delete_erase"}
Reaping == {"hook_stack", "hook_consume"}

\* StartThread and DeleteThread accept the object.
Dormant(i) == ~obj[i].started /\ obj[i].dormant

\* on_fiber_exit has looked the thread up.
Hooked(f) ==
    \/ fiber[f].pc \in {"hook_reset", "hook_stack", "hook_consume"}
    \/ fiber[f].pc = "handlers" /\ fiber[f].then = "hook_reset"

Types ==
    /\ registry \in [Ids -> Objects \cup {None}]
    /\ nextId \in Tids /\ made \in 0..MaxInfos
    /\ obj \in [Objects -> Infos]
    /\ heap \in SUBSET Objects /\ handlers \in SUBSET Ids
    /\ fiber \in [Ids -> FiberStates]
    /\ slot \in Ids \cup {None}
    /\ stopRequested \in BOOLEAN
    /\ stop \in [pc : {"idle", "clear", "consume", "mark", "done"}, left : SUBSET Objects,
                 all : SUBSET Objects]

SlotInv == \A f \in Ids : fiber[f].pc \in InCall <=> slot = f

\* What a fiber's place says of its locals and its exit handler.
PlaceOK(f) ==
    /\ fiber[f].pc \in {"none", "run", "exit_mark", "exit_delete"} => fiber[f].info = None
    /\ fiber[f].pc \in {"handlers", "exit_mark", "exit_delete", "exit_consume"}
          => f \notin handlers
    /\ fiber[f].pc = "handlers" => \/ fiber[f].then \in {"exit_mark", "exit_delete"}
                                      /\ fiber[f].info = None
                                   \/ fiber[f].then = "hook_reset"
    /\ fiber[f].pc \in Starting \cup Deleting => fiber[f].info # None /\ fiber[f].who \in Tids
    /\ fiber[f].pc = "exit_consume" => fiber[f].info # None
    /\ fiber[f].pc = "delete_erase" => fiber[f].info \notin heap

\* A StartThread that has passed its test has no living fiber in its way, also
\* when the stop clears the registry under it.
StartOK(f) ==
    /\ fiber[f].pc = "start_lock" /\ Alive(fiber[f].who) => ~Dormant(fiber[f].info)
    /\ fiber[f].pc \in {"start_mint", "start_create"}
          => ~Alive(fiber[f].who) /\ obj[fiber[f].info].started
    /\ fiber[f].pc = "start_mint" => ~obj[fiber[f].info].counted

\* Until the stop, a call's object is the registered one, and a living thread
\* is registered, and not dormant, until its exit has taken it back.
RegisteredOK(f) ==
    /\ fiber[f].pc \in Starting \cup Deleting => registry[fiber[f].who] = fiber[f].info
    /\ fiber[f].pc = "delete_erase" => ~Alive(fiber[f].who)
    /\ fiber[f].pc = "exit_consume"
          => registry[f] = fiber[f].info /\ obj[fiber[f].info].terminated
    /\ Hooked(f) => registry[f] = fiber[f].info
    /\ fiber[f].pc = "hook_lookup" /\ fiber[f].info # None
          => registry[f] \in {None, fiber[f].info} /\ obj[fiber[f].info].terminated
    /\ f \in Tids /\ Alive(f) /\ registry[f] = None
          => /\ fiber[f].pc \in {"hook_lookup", "hook_reset", "hook_stack", "hook_consume"}
             /\ f \notin handlers
    /\ f \in Tids /\ Alive(f) /\ registry[f] # None
          => fiber[f].pc \in Reaping \/ ~Dormant(registry[f])

FiberOK(f) == PlaceOK(f) /\ StartOK(f) /\ (stopRequested \/ RegisteredOK(f))

\* An object has one identifier, and only objects made are referred to.
RegistryInv ==
    /\ \A t \in Ids : registry[t] # None
          => registry[t] <= made /\ \A u \in Ids : registry[u] = registry[t] => u = t
    /\ \A f \in Ids : fiber[f].info # None => fiber[f].info <= made
    /\ \A i \in heap : i <= made

\* An allocated stack is in the heap; a counted object was started, or its exit
\* is about to give the token back.
ObjectInv ==
    \A i \in Objects :
        /\ obj[i].stack = "auto" => i \in heap
        /\ obj[i].counted => i <= made
        /\ obj[i].counted /\ ~obj[i].started
              => \E f \in Ids : fiber[f].pc \in Reaping /\ fiber[f].info = i

Counted == {i \in Objects : obj[i].counted}

CountInv == active = Cardinality(Counted)

\* f will consume the token of object i, and f has i registered or in hand.
HeldBy(f, i) ==
    \/ /\ f \in Tids /\ registry[f] = i /\ Alive(f)
       /\ fiber[f].pc \notin {"hook_reset", "hook_stack", "hook_consume"}
    \/ /\ fiber[f].info = i
       /\ fiber[f].pc \in {"start_create", "exit_consume", "handlers", "hook_reset",
                           "hook_stack", "hook_consume"}

OwnedBy(f, i) == registry[f] = i \/ (Alive(f) /\ fiber[f].info = i)

HeldInv == stopRequested \/ \A i \in Objects : obj[i].counted => \E f \in Ids : HeldBy(f, i)

OwnedInv ==
    stopRequested \/ \A i \in heap : obj[i].terminated \/ \E f \in Ids : OwnedBy(f, i)

StopInv == stop.pc # "idle" => stopRequested

LInv ==
    /\ Types /\ SlotInv /\ RegistryInv /\ ObjectInv /\ CountInv /\ HeldInv /\ OwnedInv /\ StopInv
    /\ \A f \in Ids : FiberOK(f)

-----------------------------------------------------------------------------
(* Steps *)

\* A fiber that did not move is out of the slot, so all that concerns it is its
\* handler, its registration and whether the object is dormant.
LEMMA OthersOK ==
    ASSUME LInv, NEW f \in Ids, slot \in {None, f}, NEW g \in Ids \ {f}, fiber'[g] = fiber[g],
           g \in handlers' => g \in handlers, stopRequested' = stopRequested,
           \/ stopRequested \/ ~Alive(g)
           \/ /\ registry'[g] = registry[g]
              /\ (registry[g] # None /\ ~obj'[registry[g]].started /\ obj'[registry[g]].dormant)
                    => Dormant(registry[g])
    PROVE  FiberOK(g)'
<1>1. fiber[g].pc \notin InCall
  BY Bounds DEF LInv, SlotInv
<1>2. PlaceOK(g)'
  BY <1>1 DEF LInv, FiberOK, PlaceOK, InCall, Starting, Deleting
<1>3. StartOK(g)'
  BY <1>1 DEF StartOK, InCall
<1>4. stopRequested' \/ RegisteredOK(g)'
  BY <1>1 DEF LInv, FiberOK, RegisteredOK, InCall, Starting, Deleting, Reaping, Hooked, Alive,
              Dormant
<1>. QED  BY <1>2, <1>3, <1>4 DEF FiberOK

\* A step of one fiber: what it has to show.
LEMMA FiberStep ==
    ASSUME LInv, NEW f \in Ids, slot \in {None, f}, Types', slot' \in {None, f},
           fiber'[f].pc \in InCall <=> slot' = f,
           UNCHANGED <<stopRequested, stop>>,
           \A g \in Ids \ {f} : /\ fiber'[g] = fiber[g]
                                /\ g \in handlers' => g \in handlers,
           \A g \in Ids \ {f} :
              \/ stopRequested
              \/ /\ registry'[g] = registry[g]
                 /\ \/ ~Alive(g) \/ registry[g] = None \/ Dormant(registry[g])
                    \/ obj'[registry[g]].started \/ ~obj'[registry[g]].dormant
              \/ ~Alive(g) /\ registry[g] \notin heap',
           FiberOK(f)', RegistryInv', ObjectInv', CountInv',
           stopRequested \/ \A i \in Objects :
              /\ obj'[i].counted => obj[i].counted \/ HeldBy(f, i)'
              /\ obj'[i].counted /\ HeldBy(f, i) => HeldBy(f, i)',
           stopRequested \/ \A i \in heap' :
              /\ i \in heap \/ \E g \in Ids : OwnedBy(g, i)'
              /\ obj[i].terminated => obj'[i].terminated \/ \E g \in Ids : OwnedBy(g, i)'
              /\ OwnedBy(f, i) => obj'[i].terminated \/ \E g \in Ids : OwnedBy(g, i)'
    PROVE  LInv'
<1>1. SlotInv'
  <2>1. ASSUME NEW g \in Ids \ {f} PROVE fiber'[g].pc \in InCall <=> slot' = g
    <3>1. fiber[g].pc \notin InCall
      BY Bounds DEF LInv, SlotInv
    <3>. QED  BY <3>1, Bounds
  <2>. QED  BY <2>1 DEF SlotInv
<1>2. ASSUME NEW g \in Ids PROVE FiberOK(g)'
  BY OthersOK
<1>3. HeldInv'
  <2>. SUFFICES ASSUME ~stopRequested, NEW i \in Objects, obj'[i].counted
                PROVE  \E g \in Ids : HeldBy(g, i)'
    BY DEF HeldInv
  <2>1. CASE HeldBy(f, i)'
    BY <2>1
  <2>2. CASE ~HeldBy(f, i)'
    <3>1. PICK g \in Ids : HeldBy(g, i)
      BY <2>2 DEF LInv, HeldInv
    <3>2. g # f /\ fiber'[g] = fiber[g]
      BY <2>2, <3>1
    <3>3. HeldBy(g, i)'
      <4>1. g \in Tids /\ Alive(g) => registry'[g] = registry[g]
        BY <3>2
      <4>. QED  BY <3>1, <3>2, <4>1 DEF HeldBy, Alive
    <3>. QED  BY <3>3
  <2>. QED  BY <2>1, <2>2
<1>4. OwnedInv'
  <2>. SUFFICES ASSUME ~stopRequested, NEW i \in heap'
                PROVE  obj'[i].terminated \/ \E g \in Ids : OwnedBy(g, i)'
    BY DEF OwnedInv
  <2>1. CASE i \notin heap \/ obj[i].terminated \/ OwnedBy(f, i)
    BY <2>1
  <2>2. CASE i \in heap /\ ~obj[i].terminated /\ ~OwnedBy(f, i)
    <3>1. PICK g \in Ids : OwnedBy(g, i)
      BY <2>2 DEF LInv, OwnedInv
    <3>2. g # f /\ fiber'[g] = fiber[g]
      BY <2>2, <3>1
    <3>3. OwnedBy(g, i)'
      BY <3>1, <3>2 DEF OwnedBy, Alive
    <3>. QED  BY <3>3
  <2>. QED  BY <2>1, <2>2
<1>5. StopInv'
  BY DEF LInv, StopInv
<1>. QED  BY <1>1, <1>2, <1>3, <1>4, <1>5 DEF LInv

\* A step of one fiber that touches no object and no identifier.
LEMMA PlainStep ==
    ASSUME LInv, NEW f \in Ids, slot \in {None, f}, slot' \in {None, f},
           fiber' \in [Ids -> FiberStates], handlers' \in SUBSET Ids,
           fiber'[f].pc \in InCall <=> slot' = f,
           UNCHANGED <<registry, nextId, made, obj, active, heap, stopRequested, stop>>,
           \A g \in Ids \ {f} : /\ fiber'[g] = fiber[g]
                                /\ g \in handlers' => g \in handlers,
           FiberOK(f)', fiber[f].pc \notin Reaping,
           fiber'[f].info # None => fiber'[f].info <= made,
           stopRequested \/ \A i \in Objects :
              obj[i].counted /\ HeldBy(f, i) => HeldBy(f, i)',
           stopRequested \/ \A i \in heap :
              OwnedBy(f, i) => obj[i].terminated \/ \E g \in Ids : OwnedBy(g, i)'
    PROVE  LInv'
<1>1. Types'
  BY DEF LInv, Types
<1>2. RegistryInv'
  BY DEF LInv, RegistryInv
<1>3. ObjectInv'
  BY DEF LInv, ObjectInv
<1>4. CountInv'
  BY DEF LInv, CountInv, Counted
<1>5. \A g \in Ids \ {f} :
          /\ registry'[g] = registry[g]
          /\ (registry[g] # None /\ ~obj'[registry[g]].started /\ obj'[registry[g]].dormant)
                => Dormant(registry[g])
  BY DEF Dormant
<1>6. stopRequested \/ \A i \in Objects :
          /\ obj'[i].counted => obj[i].counted \/ HeldBy(f, i)'
          /\ obj'[i].counted /\ HeldBy(f, i) => HeldBy(f, i)'
  OBVIOUS
<1>7. stopRequested \/ \A i \in heap' :
          /\ i \in heap \/ \E g \in Ids : OwnedBy(g, i)'
          /\ obj[i].terminated => obj'[i].terminated \/ \E g \in Ids : OwnedBy(g, i)'
          /\ OwnedBy(f, i) => obj'[i].terminated \/ \E g \in Ids : OwnedBy(g, i)'
  OBVIOUS
<1>. QED  BY <1>1, <1>2, <1>3, <1>4, <1>5, <1>6, <1>7, FiberStep

\* The record of a fiber after an assignment to its place, or to all of it.
LEMMA Moved ==
    ASSUME Types, NEW f \in Ids, NEW p, [fiber[f] EXCEPT !.pc = p] \in FiberStates,
           fiber' = [fiber EXCEPT ![f].pc = p]
    PROVE  /\ fiber' \in [Ids -> FiberStates]
           /\ fiber'[f].pc = p /\ fiber'[f].then = fiber[f].then
           /\ fiber'[f].who = fiber[f].who /\ fiber'[f].info = fiber[f].info
           /\ \A g \in Ids \ {f} : fiber'[g] = fiber[g]
  BY DEF Types, FiberStates

\* A place that a fiber may be at.
LEMMA PlaceTyped ==
    ASSUME Types, NEW f \in Ids, NEW p \in InCall \cup {"none", "run", "handlers"}
    PROVE  [fiber[f] EXCEPT !.pc = p] \in FiberStates
<1>1. p \in {"none", "run", "start_lock", "start_mint", "start_create", "delete_lock",
            "delete_erase", "handlers", "exit_mark", "exit_delete", "exit_consume",
            "hook_lookup", "hook_reset", "hook_stack", "hook_consume"}
  BY Zenon DEF InCall
<1>2. fiber[f] \in FiberStates
  BY DEF Types
<1>. QED  BY <1>1, <1>2 DEF FiberStates

\* A call that is over leaves nothing behind.
LEMMA BackTo ==
    ASSUME LInv, NEW f \in Ids, Back(f)
    PROVE  /\ fiber' \in [Ids -> FiberStates] /\ slot' = None
           /\ fiber'[f].pc = "run" /\ fiber'[f].info = None
           /\ \A g \in Ids \ {f} : fiber'[g] = fiber[g]
  BY DEF LInv, Types, Back, NoFiber, FiberStates, Ids

\* Nothing refers to an object that was not made yet.
Unused(n) ==
    /\ n \notin heap /\ ~obj[n].counted
    /\ \A t \in Ids : registry[t] # n /\ fiber[t].info # n

\* The next object CreateThread or an exit makes is unused.
LEMMA NewObject ==
    ASSUME LInv, made < MaxInfos
    PROVE  \E n \in Objects : n = made + 1 /\ Unused(n)
<1>1. PICK n : n = made + 1
  OBVIOUS
<1>2. made \in Nat /\ n \in Objects /\ \A i \in Objects : i <= made => i # n
  BY <1>1, Bounds DEF LInv, Types, Objects
<1>3. \A t \in Ids : registry[t] # n
  BY <1>2, Bounds DEF LInv, Types, RegistryInv
<1>4. \A t \in Ids : fiber[t].info # n
  BY <1>2, Bounds DEF LInv, Types, FiberStates, RegistryInv
<1>5. n \notin heap /\ ~obj[n].counted
  BY <1>2 DEF LInv, Types, RegistryInv, ObjectInv
<1>. QED  BY <1>1, <1>2, <1>3, <1>4, <1>5 DEF Unused

\* Making one more object leaves the bounds on the others true.
LEMMA MadeGrows == ASSUME LInv, made' = made + 1 PROVE \A i \in Objects : i <= made => i <= made'
  BY Bounds DEF LInv, Types

-----------------------------------------------------------------------------
(* The calls *)

\* CreateThread registers a new object under a free identifier, which no living
\* thread has.
LEMMA CreateThreadKeeps ==
    ASSUME LInv, NEW f \in Ids, NEW stack \in {"ask", "own"}, CreateThread(f, stack)
    PROVE  LInv'
<1>1. PICK c \in Tids : c = Candidate /\ registry[c] = None
  BY CandidateFree DEF LInv, Types, CreateThread
<1>2. made < MaxInfos /\ made' = made + 1
  BY DEF CreateThread
<1>3. PICK n \in Objects : n = made + 1 /\ Unused(n)
  BY <1>2, NewObject
<1>4. /\ obj' = [obj EXCEPT ![n] = Fresh(stack)] /\ registry' = [registry EXCEPT ![c] = n]
      /\ slot = None /\ fiber[f].pc = "run"
      /\ UNCHANGED <<active, heap, handlers, fiber, slot, stopRequested, stop>>
  BY <1>1, <1>2, <1>3 DEF Unused, CreateThread, MayCall
<1>5. /\ registry'[c] = n /\ \A g \in Ids \ {c} : registry'[g] = registry[g]
      /\ obj'[n] = Fresh(stack) /\ \A i \in Objects \ {n} : obj'[i] = obj[i]
      /\ c \in Ids
  BY <1>1, <1>3, <1>4, Bounds DEF Unused, LInv, Types
<1>6. ~obj'[n].counted /\ obj'[n].stack # "auto"
  BY <1>5 DEF Fresh
<1>7. Types'
  <2>1. nextId' \in Tids
    BY <1>1, WrappedInRange, Bounds DEF CreateThread
  <2>2. Fresh(stack) \in Infos
    BY DEF Fresh, Infos
  <2>3. made' \in 0..MaxInfos
    BY <1>2, Bounds DEF LInv, Types
  <2>. QED  BY <1>3, <1>4, <1>5, <2>1, <2>2, <2>3 DEF Unused, LInv, Types
<1>8. \A g \in Ids : stopRequested \/ ~Alive(g) \/ g # c
  <2>1. fiber[c].pc \notin InCall
    BY <1>4, <1>5, Bounds DEF LInv, SlotInv
  <2>. QED  BY <1>1, <1>5, <2>1 DEF LInv, FiberOK, RegisteredOK, InCall
<1>9. FiberOK(f)'
  <2>1. f = c => stopRequested
    BY <1>4, <1>8 DEF Alive
  <2>2. fiber[f].info = None
    BY <1>4 DEF LInv, FiberOK, PlaceOK
  <2>3. stopRequested \/ f \notin Tids \/ (registry[f] # None /\ ~Dormant(registry[f]))
    BY <1>4 DEF LInv, FiberOK, RegisteredOK, Alive, Reaping
  <2>4. stopRequested' \/ f \notin Tids \/ (registry'[f] # None /\ ~Dormant(registry[f])')
    <3>1. registry[f] # n /\ registry[f] \in Objects \cup {None}
      BY <1>3 DEF Unused, LInv, Types
    <3>. QED  BY <1>4, <1>5, <2>1, <2>3, <3>1 DEF Dormant
  <2>. QED  BY <1>4, <2>2, <2>4 DEF FiberOK, PlaceOK, StartOK, RegisteredOK, Starting, Deleting,
                                    Hooked, Dormant
<1>l. \A i \in Objects : i <= made => i <= made'
  BY <1>2, MadeGrows
<1>10. RegistryInv'
  <2>1. \A t \in Ids : registry[t] \in Objects \cup {None} /\ fiber[t].info \in Objects \cup {None}
    BY DEF LInv, Types, FiberStates
  <2>2. n <= made'
    BY <1>2, <1>3, Bounds
  <2>3. \A t \in Ids : registry'[t] # None
          => registry'[t] <= made' /\ \A u \in Ids : registry'[u] = registry'[t] => u = t
    BY <1>l, <1>3, <1>5, <2>1, <2>2 DEF Unused, LInv, RegistryInv
  <2>4. \A i \in heap' : i <= made'
    BY <1>l, <1>4 DEF LInv, Types, RegistryInv
  <2>5. \A g \in Ids : fiber'[g].info # None => fiber'[g].info <= made'
    BY <1>l, <1>4, <2>1 DEF LInv, RegistryInv
  <2>. QED  BY <2>3, <2>4, <2>5 DEF RegistryInv
<1>11. ObjectInv'
  BY <1>l, <1>3, <1>4, <1>5, <1>6 DEF Unused, LInv, ObjectInv
<1>12. CountInv'
  <2>1. Counted' = Counted
    BY <1>3, <1>5, <1>6 DEF Unused, Counted
  <2>. QED  BY <1>4, <2>1 DEF LInv, CountInv
<1>13. \A g \in Ids \ {f} :
          \/ /\ registry'[g] = registry[g]
             /\ (registry[g] # None /\ ~obj'[registry[g]].started /\ obj'[registry[g]].dormant)
                   => Dormant(registry[g])
          \/ (stopRequested \/ ~Alive(g)) /\ registry[g] \notin heap'
  BY <1>1, <1>3, <1>4, <1>5, <1>8, Bounds DEF Unused, LInv, Types, Dormant
<1>14. stopRequested \/ \A i \in Objects :
          /\ obj'[i].counted => obj[i].counted \/ HeldBy(f, i)'
          /\ obj'[i].counted /\ HeldBy(f, i) => HeldBy(f, i)'
  BY <1>4, <1>5, <1>6, <1>8 DEF HeldBy, Alive
<1>15. stopRequested \/ \A i \in heap' :
          /\ i \in heap \/ \E g \in Ids : OwnedBy(g, i)'
          /\ obj[i].terminated => obj'[i].terminated \/ \E g \in Ids : OwnedBy(g, i)'
          /\ OwnedBy(f, i) => obj'[i].terminated \/ \E g \in Ids : OwnedBy(g, i)'
  BY <1>3, <1>4, <1>5, <1>8 DEF Unused, OwnedBy, Alive, LInv, Types
<1>16. fiber'[f].pc \in InCall <=> slot' = f
  BY <1>4, Bounds DEF InCall
<1>. QED  BY <1>4, <1>7, <1>9, <1>10, <1>11, <1>12, <1>13, <1>14, <1>15, <1>16, FiberStep

\* A call that begins takes the registered object along.
LEMMA CallBegins ==
    ASSUME LInv, NEW f \in Ids, NEW t \in Tids, NEW p \in {"start_lock", "delete_lock"},
           MayCall(f), registry[t] # None, p = "start_lock" => ~stopRequested,
           fiber' = [fiber EXCEPT ![f] = [pc |-> p, then |-> "", who |-> t, info |-> registry[t]]],
           slot' = f,
           UNCHANGED <<registry, nextId, made, obj, active, heap, handlers, stopRequested, stop>>
    PROVE  LInv'
<1>1. /\ slot = None /\ fiber[f].pc = "run" /\ fiber[f].info = None
      /\ registry[t] \in Objects /\ t \in Ids /\ registry[t] <= made
      /\ stopRequested \/ RegisteredOK(f)
  BY Bounds DEF LInv, Types, FiberOK, PlaceOK, MayCall, RegistryInv
<1>2. [pc |-> p, then |-> "", who |-> t, info |-> registry[t]] \in FiberStates
  BY <1>1 DEF FiberStates
<1>3. /\ fiber' \in [Ids -> FiberStates] /\ fiber'[f].pc = p /\ fiber'[f].who = t
      /\ fiber'[f].info = registry[t] /\ \A g \in Ids \ {f} : fiber'[g] = fiber[g]
  BY <1>2 DEF LInv, Types
<1>4. stopRequested \/ ~Alive(t) \/ ~Dormant(registry[t])
  <2>1. fiber[t].pc \notin InCall
    BY <1>1, Bounds DEF LInv, SlotInv
  <2>. QED  BY <1>1, <2>1 DEF LInv, FiberOK, RegisteredOK, InCall, Reaping
<1>5. FiberOK(f)'
  <2>1. PlaceOK(f)'
    BY <1>1, <1>3, Bounds DEF PlaceOK, Starting, Deleting
  <2>2. StartOK(f)'
    <3>1. Alive(t)' <=> Alive(t)
      BY <1>1, <1>3 DEF Alive
    <3>. QED  BY <1>3, <1>4, <3>1 DEF StartOK, Dormant, Alive
  <2>3. stopRequested' \/ RegisteredOK(f)'
    BY <1>1, <1>3 DEF RegisteredOK, Starting, Deleting, Reaping, Hooked, Alive, Dormant
  <2>. QED  BY <2>1, <2>2, <2>3 DEF FiberOK
<1>6. fiber'[f].pc \in InCall <=> slot' = f
  BY <1>3 DEF InCall
<1>7. stopRequested \/ \A i \in Objects : obj[i].counted /\ HeldBy(f, i) => HeldBy(f, i)'
  BY <1>1, <1>3 DEF HeldBy, Alive
<1>8. stopRequested \/ \A i \in heap :
          OwnedBy(f, i) => obj[i].terminated \/ \E g \in Ids : OwnedBy(g, i)'
  <2>1. \A i \in heap : i # None
    BY Bounds DEF LInv, Types
  <2>2. \A i \in heap : OwnedBy(f, i) => OwnedBy(f, i)'
    BY <1>1, <2>1 DEF OwnedBy
  <2>. QED  BY <2>2
<1>9. fiber[f].pc \notin Reaping /\ fiber'[f].info <= made /\ handlers' \in SUBSET Ids
  BY <1>1, <1>3 DEF Reaping, LInv, Types
<1>. QED  BY <1>1, <1>3, <1>5, <1>6, <1>7, <1>8, <1>9, PlainStep

\* StartThread finds the object.
LEMMA StartThreadKeeps ==
    ASSUME LInv, NEW f \in Ids, NEW t \in Tids, StartThread(f, t)
    PROVE  LInv'
  BY CallBegins DEF StartThread

\* DeleteThread finds the object.
LEMMA DeleteThreadKeeps ==
    ASSUME LInv, NEW f \in Ids, NEW t \in Tids, DeleteThread(f, t)
    PROVE  LInv'
  BY CallBegins DEF DeleteThread

\* A call on another thread's object returns without having done anything.
LEMMA BackKeeps ==
    ASSUME LInv, NEW f \in Ids, fiber[f].pc \in {"start_lock", "delete_lock"}, Back(f),
           UNCHANGED <<registry, nextId, made, obj, active, heap, handlers, stopRequested, stop>>
    PROVE  LInv'
<1>1. /\ slot = f /\ fiber[f].pc # "none" /\ fiber[f].who \in Ids
      /\ stopRequested \/ RegisteredOK(f)
  BY Bounds DEF LInv, SlotInv, InCall, FiberOK, PlaceOK, Starting, Deleting
<1>2. /\ fiber' \in [Ids -> FiberStates] /\ slot' = None
      /\ fiber'[f].pc = "run" /\ fiber'[f].info = None
      /\ \A g \in Ids \ {f} : fiber'[g] = fiber[g]
  BY BackTo
<1>3. FiberOK(f)'
  <2>1. stopRequested \/ f \notin Tids \/ (registry[f] # None /\ ~Dormant(registry[f]))
    BY <1>1 DEF RegisteredOK, Alive, Reaping
  <2>. QED  BY <1>2, <2>1 DEF FiberOK, PlaceOK, StartOK, RegisteredOK, Starting, Deleting,
                              Hooked, Dormant
<1>4. fiber'[f].pc \in InCall <=> slot' = f
  BY <1>2, Bounds DEF InCall
<1>5. stopRequested \/ \A i \in Objects : obj[i].counted /\ HeldBy(f, i) => HeldBy(f, i)'
  BY <1>1, <1>2 DEF HeldBy, Alive
<1>6. stopRequested \/ \A i \in heap :
          OwnedBy(f, i) => obj[i].terminated \/ \E g \in Ids : OwnedBy(g, i)'
  BY <1>1, <1>2 DEF OwnedBy, RegisteredOK, Starting, Deleting
<1>7. fiber[f].pc \notin Reaping /\ handlers' \in SUBSET Ids
  BY DEF Reaping, LInv, Types
<1>. QED  BY <1>1, <1>2, <1>3, <1>4, <1>5, <1>6, <1>7, PlainStep

\* StartThread marks a dormant object started, and allocates its stack.
LEMMA StartLockKeeps == ASSUME LInv, NEW f \in Ids, StartLock(f) PROVE LInv'
<1>1. PICK i : i = fiber[f].info
  OBVIOUS
<1>2. /\ slot = f /\ fiber[f].pc = "start_lock" /\ i \in Objects /\ i <= made
      /\ fiber[f].who \in Tids /\ PlaceOK(f) /\ StartOK(f) /\ (stopRequested \/ RegisteredOK(f))
      /\ UNCHANGED <<registry, nextId, made, active, handlers, stopRequested, stop>>
  BY <1>1, Bounds DEF LInv, Types, FiberStates, FiberOK, PlaceOK, Starting, RegistryInv, StartLock,
                      At
<1>3. CASE Back(f) /\ UNCHANGED <<obj, heap>>
  BY <1>2, <1>3, BackKeeps
<1>4. CASE /\ ~obj[i].started /\ obj[i].dormant /\ Goes(f, "start_mint")
           /\ obj' = [obj EXCEPT ![i] = [@ EXCEPT !.started = TRUE, !.dormant = FALSE,
                            !.terminated = FALSE,
                            !.stack = IF obj[i].stack = "ask" THEN "auto" ELSE obj[i].stack]]
           /\ heap' = IF obj[i].stack = "ask" THEN heap \cup {i} ELSE heap
  <2>1. /\ fiber' \in [Ids -> FiberStates] /\ slot' = f
        /\ fiber'[f].pc = "start_mint" /\ fiber'[f].who = fiber[f].who /\ fiber'[f].info = i
        /\ \A g \in Ids \ {f} : fiber'[g] = fiber[g]
    <3>1. "start_mint" \in InCall
      BY DEF InCall
    <3>. QED  BY <1>1, <1>4, <3>1, PlaceTyped, Moved DEF Goes, LInv
  <2> DEFINE r == [started |-> TRUE, dormant |-> FALSE, terminated |-> FALSE,
                   counted |-> obj[i].counted,
                   stack |-> IF obj[i].stack = "ask" THEN "auto" ELSE obj[i].stack]
  <2>r. obj[i] \in Infos /\ r \in Infos
    <3>1. obj[i] \in Infos
      BY <1>2 DEF LInv, Types
    <3>. QED  BY <3>1 DEF Infos
  <2>s. obj' = [obj EXCEPT ![i] = r]
    <3>1. [obj[i] EXCEPT !.started = TRUE, !.dormant = FALSE, !.terminated = FALSE,
                         !.stack = IF obj[i].stack = "ask" THEN "auto" ELSE obj[i].stack] = r
      BY <2>r DEF Infos
    <3>. QED  BY <1>4, <3>1
  <2>t. obj'[i] = r /\ \A j \in Objects \ {i} : obj'[j] = obj[j]
    BY <1>2, <2>s DEF LInv, Types
  <2>2. /\ obj' \in [Objects -> Infos] /\ obj'[i].started /\ ~obj'[i].dormant
        /\ obj'[i].counted <=> obj[i].counted
        /\ \A j \in Objects \ {i} : obj'[j] = obj[j]
    <3>1. obj' \in [Objects -> Infos]
      BY <1>2, <2>r, <2>s DEF LInv, Types
    <3>. QED  BY <2>t, <3>1
  <2>3. obj'[i].stack = "auto" => i \in heap'
    BY <1>2, <1>4, <2>t DEF LInv, ObjectInv
  <2>4. heap \subseteq heap' /\ heap' \subseteq heap \cup {i} /\ heap' \in SUBSET Objects
    BY <1>2, <1>4 DEF LInv, Types
  <2>5. ~obj[i].counted
    <3>1. \A g \in Ids : fiber[g].pc \notin Reaping
      BY <1>2 DEF LInv, SlotInv, InCall, Reaping
    <3>. QED  BY <1>2, <1>4, <3>1 DEF LInv, ObjectInv
  <2>6. Types'
    BY <1>2, <2>1, <2>2, <2>4 DEF LInv, Types
  <2>7. FiberOK(f)'
    <3>1. PlaceOK(f)'
      BY <1>2, <2>1, Bounds DEF PlaceOK, Starting
    <3>2. StartOK(f)'
      <4>1. ~Alive(fiber[f].who)
        BY <1>1, <1>2, <1>4 DEF StartOK, Dormant
      <4>2. fiber[f].who # f
        BY <1>2, <4>1 DEF Alive
      <4>. QED  BY <1>2, <2>1, <2>2, <2>5, <4>1, <4>2, Bounds DEF StartOK, Alive
    <3>3. stopRequested' \/ RegisteredOK(f)'
      <4>1. CASE stopRequested
        BY <1>2, <4>1
      <4>2. CASE ~stopRequested
        <5>1. fiber[f].pc = "start_lock" /\ RegisteredOK(f)
          BY <1>2, <4>2
        <5>2. registry[fiber[f].who] = i
          BY <1>1, <5>1 DEF RegisteredOK, Starting
        <5>3. f \in Tids => registry[f] # None /\ (registry[f] = i \/ ~Dormant(registry[f]))
          BY <5>1 DEF RegisteredOK, Alive, Reaping
        <5>4. registry[f] \in Objects \cup {None}
          BY DEF LInv, Types
        <5>5. registry[f] \in Objects /\ ~Dormant(registry[f]) => ~Dormant(registry[f])'
          BY <1>2, <2>2 DEF Dormant
        <5>6. f \in Tids => ~Dormant(registry[f])'
          BY <1>2, <2>2, <5>3, <5>4, <5>5 DEF Dormant
        <5>. QED  BY <1>2, <2>1, <5>2, <5>3, <5>6 DEF RegisteredOK, Starting, Deleting, Reaping,
                                                      Hooked, Alive
      <4>. QED  BY <4>1, <4>2
    <3>. QED  BY <3>1, <3>2, <3>3 DEF FiberOK
  <2>8. RegistryInv'
    BY <1>1, <1>2, <2>1, <2>4 DEF LInv, RegistryInv
  <2>9. ObjectInv'
    <3>1. \A j \in Objects : obj'[j].counted => obj[j].counted
      BY <2>2
    <3>2. \A j \in Objects \ {i} : obj'[j].stack = "auto" => j \in heap'
      BY <2>2, <2>4 DEF LInv, ObjectInv
    <3>3. \A g \in Ids : fiber[g].pc \notin Reaping
      BY <1>2 DEF LInv, SlotInv, InCall, Reaping
    <3>4. \A j \in Objects : obj'[j].counted => obj'[j].started /\ j <= made
      BY <2>2, <2>5, <3>1, <3>3 DEF LInv, ObjectInv
    <3>. QED  BY <1>2, <2>3, <3>2, <3>4 DEF ObjectInv
  <2>10. CountInv'
    <3>1. Counted' = Counted
      BY <2>2 DEF Counted
    <3>. QED  BY <1>2, <3>1 DEF LInv, CountInv
  <2>11. \A g \in Ids \ {f} :
          /\ registry'[g] = registry[g]
          /\ (registry[g] # None /\ ~obj'[registry[g]].started /\ obj'[registry[g]].dormant)
                => Dormant(registry[g])
    BY <1>2, <2>2 DEF LInv, Types, Dormant
  <2>12. stopRequested \/ \A j \in Objects :
          /\ obj'[j].counted => obj[j].counted \/ HeldBy(f, j)'
          /\ obj'[j].counted /\ HeldBy(f, j) => HeldBy(f, j)'
    BY <1>2, <2>1, <2>2, <2>5 DEF HeldBy, Alive
  <2>13. stopRequested \/ \A j \in heap' :
          /\ j \in heap \/ \E g \in Ids : OwnedBy(g, j)'
          /\ obj[j].terminated => obj'[j].terminated \/ \E g \in Ids : OwnedBy(g, j)'
          /\ OwnedBy(f, j) => obj'[j].terminated \/ \E g \in Ids : OwnedBy(g, j)'
    <3>1. OwnedBy(f, i)'
      BY <2>1 DEF OwnedBy, Alive
    <3>2. \A j \in Objects : OwnedBy(f, j) => OwnedBy(f, j)'
      BY <1>1, <1>2, <2>1 DEF OwnedBy, Alive
    <3>3. \A j \in heap' : j = i \/ (j \in heap /\ obj'[j] = obj[j])
      BY <2>2, <2>4
    <3>. QED  BY <2>4, <3>1, <3>2, <3>3
  <2>14. fiber'[f].pc \in InCall <=> slot' = f
    BY <2>1 DEF InCall
  <2>. QED  BY <1>2, <2>1, <2>6, <2>7, <2>8, <2>9, <2>10, <2>11, <2>12, <2>13, <2>14, FiberStep
<1>. QED  BY <1>1, <1>3, <1>4 DEF StartLock

\* A fiber inside a call has the slot, and is the only one inside a call.
LEMMA InSlot ==
    ASSUME LInv, NEW f \in Ids, fiber[f].pc \in InCall
    PROVE  slot = f /\ \A g \in Ids \ {f} : fiber[g].pc \notin InCall
  BY DEF LInv, SlotInv

\* What the registry and the fibers refer to.
LEMMA Refs ==
    ASSUME LInv, NEW g \in Ids
    PROVE  /\ registry[g] \in Objects \cup {None} /\ fiber[g].info \in Objects \cup {None}
           /\ fiber[g].who \in Ids
           /\ registry[g] # None => \A u \in Ids : registry[u] = registry[g] => u = g
  BY DEF LInv, Types, FiberStates, RegistryInv

\* No reference is added.
LEMMA RefsKept ==
    ASSUME LInv, NEW f \in Ids, UNCHANGED <<registry, made>>, heap' \subseteq heap,
           fiber'[f].info \in {None, fiber[f].info},
           \A g \in Ids \ {f} : fiber'[g] = fiber[g]
    PROVE  RegistryInv'
  BY DEF LInv, RegistryInv

\* The counted objects are finitely many.
LEMMA CountedFinite == IsFiniteSet(Counted) /\ IsFiniteSet(Counted)'
<1>1. IsFiniteSet(Objects)
  BY FS_Interval, Bounds DEF Objects
<1>. QED  BY <1>1, FS_Subset DEF Counted

\* A token is minted.
LEMMA Minted ==
    ASSUME LInv, NEW i \in Objects, ~obj[i].counted, obj'[i].counted,
           \A j \in Objects \ {i} : obj'[j].counted <=> obj[j].counted, active' = active + 1
    PROVE  CountInv'
<1>1. Counted' = Counted \cup {i} /\ i \notin Counted
  BY DEF Counted
<1>2. Cardinality(Counted \cup {i}) = Cardinality(Counted) + 1
  BY <1>1, CountedFinite, FS_AddElement
<1>. QED  BY <1>1, <1>2 DEF LInv, CountInv

\* A token is taken back.
LEMMA Consumed ==
    ASSUME LInv, NEW i \in Objects, obj[i].counted, ~obj'[i].counted,
           \A j \in Objects \ {i} : obj'[j].counted <=> obj[j].counted, active' = active - 1
    PROVE  CountInv'
<1>1. Counted' = Counted \ {i} /\ i \in Counted
  BY DEF Counted
<1>2. Cardinality(Counted \ {i}) = Cardinality(Counted) - 1
  BY <1>1, CountedFinite, FS_RemoveElement
<1>. QED  BY <1>1, <1>2 DEF LInv, CountInv

\* The tokens stay as they are.
LEMMA NotConsumed ==
    ASSUME LInv, \A j \in Objects : obj'[j].counted <=> obj[j].counted, active' = active
    PROVE  CountInv'
<1>1. Counted' = Counted
  BY DEF Counted
<1>. QED  BY <1>1 DEF LInv, CountInv

\* consumeActiveToken keeps the count, and leaves the object uncounted.
LEMMA ConsumeKeeps ==
    ASSUME LInv, NEW i \in Objects \cup {None}, consumeActiveToken(i)
    PROVE  /\ obj' \in [Objects -> Infos] /\ CountInv'
           /\ i # None => ~obj'[i].counted
           /\ \A j \in Objects :
                /\ obj'[j].started = obj[j].started /\ obj'[j].dormant = obj[j].dormant
                /\ obj'[j].terminated = obj[j].terminated /\ obj'[j].stack = obj[j].stack
                /\ obj'[j].counted => obj[j].counted
<1>1. CASE ~(i # None /\ obj[i].counted)
  <2>1. obj' = obj /\ active' = active
    BY <1>1 DEF consumeActiveToken
  <2>2. CountInv'
    BY <2>1, NotConsumed
  <2>. QED  BY <1>1, <2>1, <2>2 DEF LInv, Types
<1>2. CASE i # None /\ obj[i].counted
  <2>1. obj' = [obj EXCEPT ![i].counted = FALSE] /\ active' = active - 1 /\ i \in Objects
    BY <1>2 DEF consumeActiveToken
  <2>2. /\ obj' \in [Objects -> Infos] /\ ~obj'[i].counted
        /\ \A j \in Objects \ {i} : obj'[j] = obj[j]
    BY <2>1 DEF LInv, Types, Infos
  <2>3. /\ obj'[i].started = obj[i].started /\ obj'[i].dormant = obj[i].dormant
        /\ obj'[i].terminated = obj[i].terminated /\ obj'[i].stack = obj[i].stack
    BY <2>1 DEF LInv, Types, Infos
  <2>4. CountInv'
    BY <1>2, <2>1, <2>2, Consumed
  <2>. QED  BY <2>2, <2>3, <2>4
<1>. QED  BY <1>1, <1>2

\* The token is minted while the StartThread holds the object.
LEMMA StartMintKeeps == ASSUME LInv, NEW f \in Ids, StartMint(f) PROVE LInv'
<1>1. PICK i : i = fiber[f].info
  OBVIOUS
<1>2. /\ slot = f /\ fiber[f].pc = "start_mint" /\ i \in Objects /\ i <= made
      /\ fiber[f].who \in Tids /\ PlaceOK(f) /\ StartOK(f) /\ (stopRequested \/ RegisteredOK(f))
      /\ UNCHANGED <<registry, nextId, made, heap, handlers, stopRequested, stop>>
      /\ active' = active + 1 /\ obj' = [obj EXCEPT ![i].counted = TRUE]
      /\ Goes(f, "start_create")
  BY <1>1, Bounds DEF LInv, Types, FiberStates, FiberOK, PlaceOK, Starting, RegistryInv, StartMint,
                      At
<1>3. /\ fiber' \in [Ids -> FiberStates] /\ slot' = f
      /\ fiber'[f].pc = "start_create" /\ fiber'[f].who = fiber[f].who /\ fiber'[f].info = i
      /\ \A g \in Ids \ {f} : fiber'[g] = fiber[g]
  <2>1. "start_create" \in InCall
    BY DEF InCall
  <2>. QED  BY <1>1, <1>2, <2>1, PlaceTyped, Moved DEF Goes, LInv
<1>4. /\ obj' \in [Objects -> Infos] /\ obj'[i].counted
      /\ \A j \in Objects \ {i} : obj'[j] = obj[j]
  BY <1>2 DEF LInv, Types, Infos
<1>5. /\ obj'[i].started = obj[i].started /\ obj'[i].dormant = obj[i].dormant
      /\ obj'[i].terminated = obj[i].terminated /\ obj'[i].stack = obj[i].stack
  BY <1>2 DEF LInv, Types, Infos
<1>6. ~obj[i].counted /\ ~Alive(fiber[f].who) /\ obj[i].started /\ fiber[f].who # f
  BY <1>1, <1>2 DEF StartOK, Alive
<1>7. Types'
  BY <1>2, <1>3, <1>4 DEF LInv, Types
<1>8. FiberOK(f)'
  <2>1. PlaceOK(f)'
    BY <1>2, <1>3, Bounds DEF PlaceOK, Starting
  <2>2. StartOK(f)'
    BY <1>2, <1>3, <1>5, <1>6, Bounds DEF StartOK, Alive
  <2>3. stopRequested' \/ RegisteredOK(f)'
    <3>1. registry[f] \in Objects => (Dormant(registry[f])' <=> Dormant(registry[f]))
      BY <1>2, <1>4, <1>5 DEF Dormant
    <3>. QED  BY <1>1, <1>2, <1>3, <3>1, Refs DEF RegisteredOK, Starting, Deleting, Reaping,
                                                  Hooked, Alive
  <2>. QED  BY <2>1, <2>2, <2>3 DEF FiberOK
<1>9. RegistryInv'
  BY <1>1, <1>2, <1>3, RefsKept
<1>10. ObjectInv'
  <2>1. \A g \in Ids : fiber[g].pc \notin Reaping
    BY <1>2 DEF LInv, SlotInv, InCall, Reaping
  <2>2. \A j \in Objects : obj'[j].counted => obj'[j].started /\ j <= made
    BY <1>2, <1>4, <1>5, <1>6, <2>1 DEF LInv, ObjectInv
  <2>3. \A j \in Objects : obj'[j].stack = "auto" => j \in heap
    BY <1>4, <1>5 DEF LInv, ObjectInv
  <2>. QED  BY <1>2, <2>2, <2>3 DEF ObjectInv
<1>11. CountInv'
  BY <1>2, <1>4, <1>6, Minted
<1>12. \A g \in Ids \ {f} :
          /\ registry'[g] = registry[g]
          /\ \/ ~Alive(g) \/ registry[g] = None \/ Dormant(registry[g])
             \/ obj'[registry[g]].started \/ ~obj'[registry[g]].dormant
  BY <1>2, <1>4, <1>5, Refs DEF Dormant
<1>13. stopRequested \/ \A j \in Objects :
          /\ obj'[j].counted => obj[j].counted \/ HeldBy(f, j)'
          /\ obj'[j].counted /\ HeldBy(f, j) => HeldBy(f, j)'
  BY <1>2, <1>3, <1>4 DEF HeldBy, Alive
<1>14. \A j \in heap' :
          /\ j \in heap \/ \E g \in Ids : OwnedBy(g, j)'
          /\ obj[j].terminated => obj'[j].terminated \/ \E g \in Ids : OwnedBy(g, j)'
          /\ OwnedBy(f, j) => obj'[j].terminated \/ \E g \in Ids : OwnedBy(g, j)'
  <2>1. \A j \in Objects : OwnedBy(f, j) => OwnedBy(f, j)'
    BY <1>1, <1>2, <1>3 DEF OwnedBy, Alive
  <2>2. \A j \in heap' : j \in heap /\ j \in Objects /\ obj'[j].terminated = obj[j].terminated
    BY <1>2, <1>4, <1>5 DEF LInv, Types
  <2>. QED  BY <2>1, <2>2
<1>15. fiber'[f].pc \in InCall <=> slot' = f
  BY <1>3 DEF InCall
<1>. QED  BY <1>2, <1>3, <1>7, <1>8, <1>9, <1>10, <1>11, <1>12, <1>13, <1>14, <1>15, FiberStep

\* The new fiber takes a free place, and the token with it.
LEMMA StartCreateKeeps == ASSUME LInv, NEW f \in Ids, StartCreate(f) PROVE LInv'
<1>1. PICK i, t : i = fiber[f].info /\ t = fiber[f].who
  OBVIOUS
<1>2. /\ slot = f /\ fiber[f].pc = "start_create" /\ i \in Objects /\ t \in Tids /\ t \in Ids
      /\ StartOK(f) /\ (stopRequested \/ RegisteredOK(f))
      /\ UNCHANGED <<registry, nextId, made, obj, active, heap, handlers, stopRequested, stop>>
      /\ slot' = None
  BY <1>1, Bounds DEF LInv, Types, FiberStates, FiberOK, PlaceOK, Starting, StartCreate, At
<1>3. fiber[t].pc = "none" /\ t # f /\ fiber[t].info = None /\ obj[i].started
  <2>1. ~Alive(t) /\ obj[i].started
    BY <1>1, <1>2 DEF StartOK
  <2>. QED  BY <1>2, <2>1 DEF LInv, FiberOK, PlaceOK, Alive
<1>4. /\ fiber' \in [Ids -> FiberStates]
      /\ fiber'[f].pc = "run" /\ fiber'[f].info = None
      /\ fiber'[t].pc = "run" /\ fiber'[t].info = None
      /\ \A g \in Ids \ {f, t} : fiber'[g] = fiber[g]
  <2> DEFINE r == [NoFiber EXCEPT !.pc = "run"]
  <2>1. r \in FiberStates /\ r.pc = "run" /\ r.info = None
    BY DEF NoFiber, FiberStates, Ids
  <2>2. fiber' = [fiber EXCEPT ![f] = r, ![t] = r]
    BY <1>1 DEF StartCreate
  <2>. HIDE DEF r
  <2>. QED  BY <1>2, <2>1, <2>2 DEF LInv, Types
<1>5. \A g \in Ids \ {f} : fiber[g].pc \notin InCall
  BY <1>2, InSlot DEF InCall
<1>6. stopRequested \/ registry[t] = i
  BY <1>1, <1>2 DEF RegisteredOK, Starting
<1>7. Types'
  BY <1>2, <1>4, Bounds DEF LInv, Types
<1>8. SlotInv'
  BY <1>2, <1>4, <1>5, Bounds DEF SlotInv, InCall
<1>9. RegistryInv'
  BY <1>2, <1>4 DEF LInv, RegistryInv
<1>10. ObjectInv'
  <2>1. \A g \in Ids : fiber[g].pc \notin Reaping
    BY <1>2, <1>5 DEF InCall, Reaping
  <2>. QED  BY <1>2, <2>1 DEF LInv, ObjectInv
<1>11. CountInv'
  BY <1>2, NotConsumed
<1>12. StopInv'
  BY <1>2 DEF LInv, StopInv
<1>13. ASSUME NEW g \in Ids PROVE FiberOK(g)'
  <2>1. CASE g \in {f, t}
    <3>1. stopRequested \/ g \notin Tids \/ (registry[g] # None /\ ~Dormant(registry[g]))
      <4>1. f \in Tids /\ ~stopRequested => registry[f] # None /\ ~Dormant(registry[f])
        BY <1>2 DEF RegisteredOK, Alive, Reaping
      <4>2. ~stopRequested => registry[t] # None /\ ~Dormant(registry[t])
        BY <1>2, <1>3, <1>6, Bounds DEF Dormant
      <4>. QED  BY <2>1, <4>1, <4>2
    <3>. QED  BY <1>2, <1>4, <2>1, <3>1 DEF FiberOK, PlaceOK, StartOK, RegisteredOK, Starting,
                                            Deleting, Hooked, Dormant
  <2>2. CASE g \notin {f, t}
    BY <1>2, <1>4, <2>2, OthersOK DEF Dormant
  <2>. QED  BY <2>1, <2>2
<1>14. HeldInv'
  <2>. SUFFICES ASSUME ~stopRequested, NEW j \in Objects, obj[j].counted
                PROVE  \E g \in Ids : HeldBy(g, j)'
    BY <1>2 DEF HeldInv
  <2>1. PICK g \in Ids : HeldBy(g, j)
    BY DEF LInv, HeldInv
  <2>2. g # t
    BY <1>3, <2>1, Bounds DEF HeldBy, Alive
  <2>3. CASE g = f
    <3>1. (registry[f] = j /\ f \in Tids) \/ j = i
      BY <1>1, <2>1, <2>3 DEF HeldBy
    <3>. QED  BY <1>2, <1>4, <1>6, <3>1 DEF HeldBy, Alive
  <2>4. CASE g # f
    BY <1>2, <1>4, <2>1, <2>2, <2>4 DEF HeldBy, Alive
  <2>. QED  BY <2>3, <2>4
<1>15. OwnedInv'
  <2>. SUFFICES ASSUME ~stopRequested, NEW j \in heap, ~obj[j].terminated
                PROVE  \E g \in Ids : OwnedBy(g, j)'
    BY <1>2 DEF OwnedInv
  <2>1. PICK g \in Ids : OwnedBy(g, j)
    BY DEF LInv, OwnedInv
  <2>2. CASE registry[g] = j
    BY <1>2, <2>2 DEF OwnedBy
  <2>3. CASE registry[g] # j
    <3>1. Alive(g) /\ fiber[g].info = j /\ g # t
      BY <1>3, <2>1, <2>3 DEF OwnedBy, Alive
    <3>2. CASE g = f
      BY <1>1, <1>2, <1>6, <3>1, <3>2 DEF OwnedBy
    <3>3. CASE g # f
      BY <1>4, <3>1, <3>3 DEF OwnedBy, Alive
    <3>. QED  BY <3>2, <3>3
  <2>. QED  BY <2>2, <2>3
<1>. QED  BY <1>7, <1>8, <1>9, <1>10, <1>11, <1>12, <1>13, <1>14, <1>15 DEF LInv

\* A StartThread that fails takes its token back and leaves the thread dormant.
LEMMA StartFailsKeeps == ASSUME LInv, NEW f \in Ids, StartFails(f) PROVE LInv'
<1>1. PICK i, t : i = fiber[f].info /\ t = fiber[f].who
  OBVIOUS
<1>2. /\ slot = f /\ fiber[f].pc = "start_create" /\ i \in Objects /\ t \in Tids /\ t \in Ids
      /\ StartOK(f) /\ (stopRequested \/ RegisteredOK(f)) /\ Back(f)
      /\ UNCHANGED <<registry, nextId, made, heap, handlers, stopRequested, stop>>
      /\ obj' = [obj EXCEPT ![i] = [@ EXCEPT !.counted = FALSE, !.started = FALSE,
                                             !.dormant = TRUE]]
      /\ active' = IF obj[i].counted THEN active - 1 ELSE active
  BY <1>1, Bounds DEF LInv, Types, FiberStates, FiberOK, PlaceOK, Starting, StartFails, At
<1>3. /\ fiber' \in [Ids -> FiberStates] /\ slot' = None
      /\ fiber'[f].pc = "run" /\ fiber'[f].info = None
      /\ \A g \in Ids \ {f} : fiber'[g] = fiber[g]
  BY <1>2, BackTo
<1>4. /\ obj' \in [Objects -> Infos] /\ ~obj'[i].counted
      /\ \A j \in Objects \ {i} : obj'[j] = obj[j]
  BY <1>2 DEF LInv, Types, Infos
<1>5. obj'[i].terminated = obj[i].terminated /\ obj'[i].stack = obj[i].stack
  BY <1>2 DEF LInv, Types, Infos
<1>6. ~Alive(t) /\ t # f /\ (stopRequested \/ registry[t] = i)
  BY <1>1, <1>2 DEF StartOK, RegisteredOK, Starting, Alive
<1>7. Types'
  BY <1>2, <1>3, <1>4 DEF LInv, Types
<1>8. stopRequested \/ \A g \in Ids \ {t} : registry[g] # i
  BY <1>2, <1>6, Refs, Bounds
<1>9. FiberOK(f)'
  <2>1. stopRequested \/ f \notin Tids \/ (registry[f] # None /\ ~Dormant(registry[f]))
    BY <1>2 DEF RegisteredOK, Alive, Reaping
  <2>2. stopRequested \/ f \notin Tids \/ (registry[f] # None /\ ~Dormant(registry[f])')
    BY <1>2, <1>4, <1>6, <1>8, <2>1, Refs DEF Dormant
  <2>. QED  BY <1>2, <1>3, <2>2 DEF FiberOK, PlaceOK, StartOK, RegisteredOK, Starting, Deleting,
                                    Hooked, Dormant
<1>10. RegistryInv'
  BY <1>2, <1>3, RefsKept
<1>11. ObjectInv'
  <2>1. \A g \in Ids : fiber[g].pc \notin Reaping
    BY <1>2 DEF LInv, SlotInv, InCall, Reaping
  <2>2. \A j \in Objects : obj'[j].counted => obj'[j].started /\ j <= made
    BY <1>2, <1>4, <2>1 DEF LInv, ObjectInv
  <2>3. \A j \in Objects : obj'[j].stack = "auto" => j \in heap
    BY <1>4, <1>5 DEF LInv, ObjectInv
  <2>. QED  BY <1>2, <2>2, <2>3 DEF ObjectInv
<1>12. CountInv'
  <2>1. CASE obj[i].counted
    BY <1>2, <1>4, <2>1, Consumed
  <2>2. CASE ~obj[i].counted
    BY <1>2, <1>4, <2>2, NotConsumed
  <2>. QED  BY <2>1, <2>2
<1>13. \A g \in Ids \ {f} :
          \/ stopRequested
          \/ /\ registry'[g] = registry[g]
             /\ \/ ~Alive(g) \/ registry[g] = None \/ Dormant(registry[g])
                \/ obj'[registry[g]].started \/ ~obj'[registry[g]].dormant
  <2>. SUFFICES ASSUME NEW g \in Ids \ {f}, ~stopRequested, Alive(g), registry[g] # None
                PROVE  \/ Dormant(registry[g])
                       \/ obj'[registry[g]].started \/ ~obj'[registry[g]].dormant
    BY <1>2
  <2>1. registry[g] \in Objects \ {i}
    BY <1>6, <1>8, Refs
  <2>. QED  BY <1>4, <2>1 DEF Dormant
<1>14. stopRequested \/ \A j \in Objects :
          /\ obj'[j].counted => obj[j].counted \/ HeldBy(f, j)'
          /\ obj'[j].counted /\ HeldBy(f, j) => HeldBy(f, j)'
  <2>1. \A j \in Objects : obj'[j].counted => j # i /\ obj[j].counted
    BY <1>4
  <2>2. \A j \in Objects \ {i} : HeldBy(f, j) => HeldBy(f, j)'
    BY <1>1, <1>2, <1>3 DEF HeldBy, Alive
  <2>. QED  BY <2>1, <2>2
<1>15. stopRequested \/ \A j \in heap' :
          /\ j \in heap \/ \E g \in Ids : OwnedBy(g, j)'
          /\ obj[j].terminated => obj'[j].terminated \/ \E g \in Ids : OwnedBy(g, j)'
          /\ OwnedBy(f, j) => obj'[j].terminated \/ \E g \in Ids : OwnedBy(g, j)'
  <2>1. stopRequested \/ \A j \in Objects : OwnedBy(f, j) => OwnedBy(f, j)' \/ OwnedBy(t, j)'
    BY <1>1, <1>2, <1>3, <1>6 DEF OwnedBy
  <2>2. \A j \in heap' : j \in heap /\ j \in Objects /\ obj'[j].terminated = obj[j].terminated
    BY <1>2, <1>4, <1>5 DEF LInv, Types
  <2>. QED  BY <1>2, <2>1, <2>2
<1>16. fiber'[f].pc \in InCall <=> slot' = f
  BY <1>3, Bounds DEF InCall
<1>. QED  BY <1>2, <1>3, <1>7, <1>9, <1>10, <1>11, <1>12, <1>13, <1>14, <1>15, <1>16, FiberStep

\* DeleteThread takes the stack of a dormant thread, which has no living fiber.
LEMMA DeleteLockKeeps == ASSUME LInv, NEW f \in Ids, DeleteLock(f) PROVE LInv'
<1>1. PICK i, t : i = fiber[f].info /\ t = fiber[f].who
  OBVIOUS
<1>2. /\ slot = f /\ fiber[f].pc = "delete_lock" /\ i \in Objects /\ t \in Tids /\ t \in Ids
      /\ PlaceOK(f) /\ (stopRequested \/ RegisteredOK(f))
      /\ UNCHANGED <<registry, nextId, made, active, handlers, stopRequested, stop>>
  BY <1>1, Bounds DEF LInv, Types, FiberStates, FiberOK, PlaceOK, Deleting, DeleteLock, At
<1>3. CASE Back(f) /\ UNCHANGED <<obj, heap>>
  BY <1>2, <1>3, BackKeeps
<1>4. CASE /\ ~obj[i].started /\ obj[i].dormant /\ Goes(f, "delete_erase")
           /\ obj' = [obj EXCEPT ![i].stack = IF @ = "auto" THEN "own" ELSE @]
           /\ heap' = heap \ {i}
  <2>1. /\ fiber' \in [Ids -> FiberStates] /\ slot' = f
        /\ fiber'[f].pc = "delete_erase" /\ fiber'[f].who = t /\ fiber'[f].info = i
        /\ \A g \in Ids \ {f} : fiber'[g] = fiber[g]
    <3>1. "delete_erase" \in InCall
      BY DEF InCall
    <3>. QED  BY <1>1, <1>4, <3>1, PlaceTyped, Moved DEF Goes, LInv
  <2>2. /\ obj' \in [Objects -> Infos] /\ obj'[i].stack # "auto"
        /\ \A j \in Objects \ {i} : obj'[j] = obj[j]
    BY <1>2, <1>4 DEF LInv, Types, Infos
  <2>3. /\ obj'[i].started = obj[i].started /\ obj'[i].dormant = obj[i].dormant
        /\ obj'[i].terminated = obj[i].terminated /\ obj'[i].counted = obj[i].counted
    BY <1>2, <1>4 DEF LInv, Types, Infos
  <2>4. Types'
    BY <1>2, <1>4, <2>1, <2>2 DEF LInv, Types
  <2>5. \A j \in Objects : Dormant(j)' <=> Dormant(j)
    BY <2>2, <2>3 DEF Dormant
  <2>6. \A g \in Ids : fiber[g].pc \notin Reaping
    BY <1>2 DEF LInv, SlotInv, InCall, Reaping
  <2>7. stopRequested \/ (registry[t] = i /\ ~Alive(t) /\ t # f)
    <3>1. stopRequested \/ registry[t] = i
      BY <1>1, <1>2 DEF RegisteredOK, Deleting
    <3>2. stopRequested \/ ~Alive(t)
      BY <1>2, <1>4, <2>6, <3>1, Bounds DEF LInv, FiberOK, RegisteredOK, Dormant
    <3>. QED  BY <1>2, <3>1, <3>2 DEF Alive
  <2>8. FiberOK(f)'
    <3>1. PlaceOK(f)'
      BY <1>2, <1>4, <2>1, Bounds DEF PlaceOK, Starting, Deleting
    <3>2. StartOK(f)'
      BY <2>1 DEF StartOK
    <3>3. stopRequested' \/ RegisteredOK(f)'
      BY <1>2, <2>1, <2>5, <2>7, Refs DEF RegisteredOK, Starting, Deleting, Reaping, Hooked, Alive
    <3>. QED  BY <3>1, <3>2, <3>3 DEF FiberOK
  <2>9. RegistryInv'
    BY <1>1, <1>2, <1>4, <2>1, RefsKept
  <2>10. ObjectInv'
    <3>1. \A j \in Objects : obj'[j].counted => obj'[j].started /\ j <= made
      BY <2>2, <2>3, <2>6 DEF LInv, ObjectInv
    <3>2. \A j \in Objects : obj'[j].stack = "auto" => j \in heap'
      BY <1>4, <2>2 DEF LInv, ObjectInv
    <3>. QED  BY <1>2, <3>1, <3>2 DEF ObjectInv
  <2>11. CountInv'
    BY <1>2, <2>2, <2>3, NotConsumed
  <2>12. \A g \in Ids \ {f} :
          /\ registry'[g] = registry[g]
          /\ \/ ~Alive(g) \/ registry[g] = None \/ Dormant(registry[g])
             \/ obj'[registry[g]].started \/ ~obj'[registry[g]].dormant
    BY <1>2, <2>2, <2>3, Refs DEF Dormant
  <2>13. stopRequested \/ \A j \in Objects :
          /\ obj'[j].counted => obj[j].counted \/ HeldBy(f, j)'
          /\ obj'[j].counted /\ HeldBy(f, j) => HeldBy(f, j)'
    <3>1. \A j \in Objects : obj'[j].counted => obj[j].counted
      BY <2>2, <2>3
    <3>2. \A j \in Objects : HeldBy(f, j) => HeldBy(f, j)'
      BY <1>2, <2>1 DEF HeldBy, Alive
    <3>. QED  BY <3>1, <3>2
  <2>14. \A j \in heap' :
          /\ j \in heap \/ \E g \in Ids : OwnedBy(g, j)'
          /\ obj[j].terminated => obj'[j].terminated \/ \E g \in Ids : OwnedBy(g, j)'
          /\ OwnedBy(f, j) => obj'[j].terminated \/ \E g \in Ids : OwnedBy(g, j)'
    <3>1. \A j \in Objects : OwnedBy(f, j) => OwnedBy(f, j)'
      BY <1>1, <1>2, <2>1 DEF OwnedBy, Alive
    <3>2. \A j \in heap' : j \in heap /\ j \in Objects /\ obj'[j].terminated = obj[j].terminated
      BY <1>4, <2>2, <2>3 DEF LInv, Types
    <3>. QED  BY <3>1, <3>2
  <2>15. fiber'[f].pc \in InCall <=> slot' = f
    BY <2>1 DEF InCall
  <2>. QED  BY <1>2, <2>1, <2>4, <2>8, <2>9, <2>10, <2>11, <2>12, <2>13, <2>14, <2>15, FiberStep
<1>. QED  BY <1>1, <1>3, <1>4 DEF DeleteLock

\* Then it removes the entry.
LEMMA DeleteEraseKeeps == ASSUME LInv, NEW f \in Ids, DeleteErase(f) PROVE LInv'
<1>1. PICK i, t : i = fiber[f].info /\ t = fiber[f].who
  OBVIOUS
<1>2. /\ slot = f /\ fiber[f].pc = "delete_erase" /\ i \in Objects /\ t \in Tids /\ t \in Ids
      /\ i \notin heap /\ (stopRequested \/ RegisteredOK(f)) /\ Back(f)
      /\ UNCHANGED <<nextId, made, obj, active, heap, stopRequested, stop>>
      /\ registry' = [registry EXCEPT ![t] = None] /\ handlers' = handlers \ {t}
  BY <1>1, Bounds DEF LInv, Types, FiberStates, FiberOK, PlaceOK, Deleting, DeleteErase, At
<1>3. /\ fiber' \in [Ids -> FiberStates] /\ slot' = None
      /\ fiber'[f].pc = "run" /\ fiber'[f].info = None
      /\ \A g \in Ids \ {f} : fiber'[g] = fiber[g]
  BY <1>2, BackTo
<1>4. registry'[t] = None /\ \A g \in Ids \ {t} : registry'[g] = registry[g]
  BY <1>2 DEF LInv, Types
<1>5. stopRequested \/ (registry[t] = i /\ ~Alive(t) /\ t # f)
  BY <1>1, <1>2 DEF RegisteredOK, Deleting, Alive
<1>6. Types'
  BY <1>2, <1>3 DEF LInv, Types
<1>7. FiberOK(f)'
  <2>1. stopRequested \/ f \notin Tids \/ (registry[f] # None /\ ~Dormant(registry[f]))
    BY <1>2 DEF RegisteredOK, Alive, Reaping
  <2>. QED  BY <1>2, <1>3, <1>4, <1>5, <2>1 DEF FiberOK, PlaceOK, StartOK, RegisteredOK, Starting,
                                    Deleting, Hooked, Dormant
<1>8. RegistryInv'
  BY <1>2, <1>3, <1>4 DEF LInv, RegistryInv
<1>9. ObjectInv'
  <2>1. \A g \in Ids : fiber[g].pc \notin Reaping
    BY <1>2 DEF LInv, SlotInv, InCall, Reaping
  <2>. QED  BY <1>2, <2>1 DEF LInv, ObjectInv
<1>10. CountInv'
  BY <1>2, NotConsumed
<1>11. \A g \in Ids \ {f} :
          \/ stopRequested
          \/ /\ registry'[g] = registry[g]
             /\ \/ ~Alive(g) \/ registry[g] = None \/ Dormant(registry[g])
                \/ obj'[registry[g]].started \/ ~obj'[registry[g]].dormant
          \/ ~Alive(g) /\ registry[g] \notin heap'
  BY <1>2, <1>4, <1>5 DEF Dormant
<1>12. stopRequested \/ \A j \in Objects : HeldBy(f, j) => HeldBy(f, j)'
  BY <1>2, <1>3, <1>4, <1>5 DEF HeldBy, Alive
<1>13. stopRequested \/ \A j \in heap : OwnedBy(f, j) => OwnedBy(f, j)'
  BY <1>1, <1>2, <1>4, <1>5 DEF OwnedBy
<1>14. fiber'[f].pc \in InCall <=> slot' = f
  BY <1>3, Bounds DEF InCall
<1>. QED  BY <1>2, <1>3, <1>6, <1>7, <1>8, <1>9, <1>10, <1>11, <1>12, <1>13, <1>14, FiberStep

-----------------------------------------------------------------------------
(* The ends of a thread *)

\* A running thread is registered, and holds no object but its own.
LEMMA Running ==
    ASSUME LInv, NEW f \in Ids, MayCall(f)
    PROVE  /\ slot = None /\ fiber[f].pc = "run" /\ fiber[f].info = None
           /\ stopRequested \/ f \notin Tids \/ (registry[f] # None /\ ~Dormant(registry[f]))
  BY DEF LInv, FiberOK, PlaceOK, RegisteredOK, Alive, Reaping, MayCall

\* A handler is registered by a running thread for itself.
LEMMA RegisterExitHandlerKeeps ==
    ASSUME LInv, NEW f \in Ids, RegisterExitHandler(f)
    PROVE  LInv'
<1>1. /\ slot = None /\ fiber[f].pc = "run" /\ fiber[f].info = None
      /\ stopRequested \/ f \notin Tids \/ (registry[f] # None /\ ~Dormant(registry[f]))
      /\ handlers' = handlers \cup {f}
      /\ UNCHANGED <<registry, nextId, made, obj, active, heap, fiber, slot, stopRequested, stop>>
  BY Running DEF RegisterExitHandler
<1>2. FiberOK(f)'
  BY <1>1 DEF FiberOK, PlaceOK, StartOK, RegisteredOK, Starting, Deleting, Hooked, Dormant
<1>3. fiber'[f].pc \in InCall <=> slot' = f
  BY <1>1, Bounds DEF InCall
<1>4. handlers' \in SUBSET Ids /\ fiber' \in [Ids -> FiberStates] /\ fiber[f].pc \notin Reaping
  BY <1>1 DEF LInv, Types, Reaping
<1>5. \A i \in Objects : HeldBy(f, i) => HeldBy(f, i)'
  BY <1>1 DEF HeldBy, Alive
<1>6. \A i \in heap : OwnedBy(f, i) => OwnedBy(f, i)'
  BY <1>1 DEF OwnedBy, Alive
<1>. QED  BY <1>1, <1>2, <1>3, <1>4, <1>5, <1>6, PlainStep

\* The handlers have run, and the exit goes on where it had left off.
LEMMA HandlersDoneKeeps == ASSUME LInv, NEW f \in Ids, HandlersDone(f) PROVE LInv'
<1>1. PICK p : p = fiber[f].then
  OBVIOUS
<1>2. /\ slot = None /\ fiber[f].pc = "handlers" /\ f \notin handlers
      /\ (p \in {"exit_mark", "exit_delete"} /\ fiber[f].info = None) \/ p = "hook_reset"
      /\ stopRequested \/ RegisteredOK(f)
      /\ UNCHANGED <<registry, nextId, made, obj, active, heap, handlers, stopRequested, stop>>
      /\ Goes(f, p)
  BY <1>1 DEF LInv, FiberOK, PlaceOK, HandlersDone
<1>3. /\ fiber' \in [Ids -> FiberStates] /\ slot' = f
      /\ fiber'[f].pc = p /\ fiber'[f].info = fiber[f].info
      /\ \A g \in Ids \ {f} : fiber'[g] = fiber[g]
  <2>1. p \in InCall
    BY <1>2 DEF InCall
  <2>. QED  BY <1>2, <2>1, PlaceTyped, Moved DEF Goes, LInv
<1>4. /\ stopRequested \/ f \notin Tids \/ (registry[f] # None /\ ~Dormant(registry[f]))
      /\ stopRequested \/ p # "hook_reset" \/ registry[f] = fiber[f].info
  BY <1>1, <1>2 DEF RegisteredOK, Hooked, Alive, Reaping
<1>5. FiberOK(f)'
  <2>1. PlaceOK(f)'
    BY <1>2, <1>3 DEF PlaceOK, Starting, Deleting
  <2>2. StartOK(f)'
    BY <1>2, <1>3 DEF StartOK
  <2>3. stopRequested' \/ RegisteredOK(f)'
    BY <1>2, <1>3, <1>4 DEF RegisteredOK, Starting, Deleting, Hooked, Dormant
  <2>. QED  BY <2>1, <2>2, <2>3 DEF FiberOK
<1>6. fiber'[f].pc \in InCall <=> slot' = f
  BY <1>2, <1>3 DEF InCall
<1>7. handlers' \in SUBSET Ids /\ fiber[f].pc \notin Reaping
  BY <1>2 DEF LInv, Types, Reaping
<1>8. fiber'[f].info # None => fiber'[f].info <= made
  BY <1>3 DEF LInv, RegistryInv
<1>9. stopRequested \/ \A i \in Objects : HeldBy(f, i) => HeldBy(f, i)'
  BY <1>2, <1>3, <1>4, Bounds DEF HeldBy, Alive
<1>10. \A i \in heap : OwnedBy(f, i) => OwnedBy(f, i)'
  BY <1>2, <1>3 DEF OwnedBy, Alive
<1>. QED  BY <1>2, <1>3, <1>5, <1>6, <1>7, <1>8, <1>9, <1>10, PlainStep

\* ExitThread and ExitDeleteThread run the handlers first.
LEMMA ExitThreadKeeps ==
    ASSUME LInv, NEW f \in Ids, NEW p \in {"exit_mark", "exit_delete"}, ExitThread(f, p)
    PROVE  LInv'
<1>1. /\ slot = None /\ fiber[f].pc = "run" /\ fiber[f].info = None
      /\ stopRequested \/ f \notin Tids \/ (registry[f] # None /\ ~Dormant(registry[f]))
      /\ UNCHANGED <<registry, nextId, made, obj, active, heap, stopRequested, stop>>
      /\ handlers' = handlers \ {f} /\ RunHandlers(f, p)
  BY Running DEF ExitThread, RunHandlers
<1>2. fiber[f] \in FiberStates
  BY DEF LInv, Types
<1>3. /\ fiber' \in [Ids -> FiberStates] /\ fiber'[f].info = None
      /\ \/ fiber'[f].pc = p /\ slot' = f
         \/ fiber'[f].pc = "handlers" /\ fiber'[f].then = p /\ slot' = None
      /\ \A g \in Ids \ {f} : fiber'[g] = fiber[g]
  <2>1. CASE f \in handlers
    <3>1. fiber' = [fiber EXCEPT ![f].pc = "handlers", ![f].then = p] /\ slot' = None
      BY <1>1, <2>1 DEF RunHandlers
    <3>. QED  BY <1>1, <1>2, <3>1 DEF LInv, Types, FiberStates
  <2>2. CASE f \notin handlers
    <3>1. fiber' = [fiber EXCEPT ![f].pc = p] /\ slot' = f
      BY <1>1, <2>2 DEF RunHandlers
    <3>2. p \in InCall
      BY DEF InCall
    <3>. QED  BY <1>1, <3>1, <3>2, PlaceTyped, Moved DEF LInv
  <2>. QED  BY <2>1, <2>2
<1>4. FiberOK(f)'
  <2>1. PlaceOK(f)'
    BY <1>1, <1>3 DEF PlaceOK, Starting, Deleting
  <2>2. StartOK(f)'
    BY <1>3 DEF StartOK
  <2>3. stopRequested' \/ RegisteredOK(f)'
    BY <1>1, <1>3 DEF RegisteredOK, Starting, Deleting, Hooked, Dormant
  <2>. QED  BY <2>1, <2>2, <2>3 DEF FiberOK
<1>5. fiber'[f].pc \in InCall <=> slot' = f
  BY <1>3, Bounds DEF InCall
<1>6. handlers' \in SUBSET Ids /\ fiber[f].pc \notin Reaping
  BY <1>1 DEF LInv, Types, Reaping
<1>7. \A i \in Objects : HeldBy(f, i) => HeldBy(f, i)'
  BY <1>1, <1>3 DEF HeldBy, Alive
<1>8. \A i \in heap : OwnedBy(f, i) => OwnedBy(f, i)'
  BY <1>1, <1>3 DEF OwnedBy, Alive
<1>. QED  BY <1>1, <1>3, <1>4, <1>5, <1>6, <1>7, <1>8, PlainStep

\* A return out of the thread's function goes straight to the hook.
LEMMA ThreadReturnsKeeps == ASSUME LInv, NEW f \in Ids, ThreadReturns(f) PROVE LInv'
<1>1. /\ slot = None /\ fiber[f].pc = "run" /\ fiber[f].info = None
      /\ stopRequested \/ f \notin Tids \/ (registry[f] # None /\ ~Dormant(registry[f]))
      /\ UNCHANGED <<registry, nextId, made, obj, active, heap, handlers, stopRequested, stop>>
      /\ Goes(f, "hook_lookup")
  BY Running DEF ThreadReturns
<1>2. /\ fiber' \in [Ids -> FiberStates] /\ slot' = f
      /\ fiber'[f].pc = "hook_lookup" /\ fiber'[f].info = None
      /\ \A g \in Ids \ {f} : fiber'[g] = fiber[g]
  <2>1. "hook_lookup" \in InCall
    BY DEF InCall
  <2>. QED  BY <1>1, <2>1, PlaceTyped, Moved DEF Goes, LInv
<1>3. FiberOK(f)'
  <2>1. PlaceOK(f)' /\ StartOK(f)'
    BY <1>2 DEF PlaceOK, StartOK, Starting, Deleting
  <2>2. stopRequested' \/ RegisteredOK(f)'
    BY <1>1, <1>2 DEF RegisteredOK, Starting, Deleting, Hooked, Dormant
  <2>. QED  BY <2>1, <2>2 DEF FiberOK
<1>4. fiber'[f].pc \in InCall <=> slot' = f
  BY <1>2 DEF InCall
<1>5. handlers' \in SUBSET Ids /\ fiber[f].pc \notin Reaping
  BY <1>1 DEF LInv, Types, Reaping
<1>6. \A i \in Objects : HeldBy(f, i) => HeldBy(f, i)'
  BY <1>1, <1>2 DEF HeldBy, Alive
<1>7. \A i \in heap : OwnedBy(f, i) => OwnedBy(f, i)'
  BY <1>1, <1>2 DEF OwnedBy, Alive
<1>. QED  BY <1>1, <1>2, <1>3, <1>4, <1>5, <1>6, <1>7, PlainStep

\* on_fiber_exit looks the thread up and runs its handlers; the object it held
\* before, if any, is marked terminated.
LEMMA HookLookupKeeps == ASSUME LInv, NEW f \in Ids, HookLookup(f) PROVE LInv'
<1>1. PICK p : p = IF f \in handlers THEN "handlers" ELSE "hook_reset"
  OBVIOUS
<1>2. /\ slot = f /\ fiber[f].pc = "hook_lookup" /\ (stopRequested \/ RegisteredOK(f))
      /\ UNCHANGED <<registry, nextId, made, obj, active, heap, stopRequested, stop>>
      /\ handlers' = handlers \ {f}
      /\ fiber' = [fiber EXCEPT ![f] = [pc |-> p, then |-> "hook_reset", who |-> Boot,
                                        info |-> registry[f]]]
      /\ slot' = IF f \in handlers THEN None ELSE f
  BY <1>1 DEF LInv, FiberOK, HookLookup, At
<1>3. [pc |-> p, then |-> "hook_reset", who |-> Boot, info |-> registry[f]] \in FiberStates
  BY <1>1, Refs DEF FiberStates, Ids
<1>4. /\ fiber' \in [Ids -> FiberStates] /\ fiber'[f].info = registry[f]
      /\ fiber'[f].then = "hook_reset" /\ fiber'[f].pc = p
      /\ \A g \in Ids \ {f} : fiber'[g] = fiber[g]
  BY <1>2, <1>3 DEF LInv, Types
<1>5. FiberOK(f)'
  <2>1. PlaceOK(f)' /\ StartOK(f)'
    BY <1>1, <1>2, <1>4 DEF PlaceOK, StartOK, Starting, Deleting
  <2>2. /\ stopRequested \/ f \notin Tids \/ registry[f] = None \/ ~Dormant(registry[f])
        /\ stopRequested \/ f \notin Tids \/ registry[f] # None \/ p = "hook_reset"
    BY <1>1, <1>2 DEF RegisteredOK, Reaping, Alive
  <2>3. stopRequested' \/ RegisteredOK(f)'
    BY <1>1, <1>2, <1>4, <2>2 DEF RegisteredOK, Starting, Deleting, Hooked, Dormant
  <2>. QED  BY <2>1, <2>3 DEF FiberOK
<1>6. fiber'[f].pc \in InCall <=> slot' = f
  BY <1>1, <1>2, <1>4, Bounds DEF InCall
<1>7. slot' \in {None, f} /\ handlers' \in SUBSET Ids /\ fiber[f].pc \notin Reaping
  BY <1>2 DEF LInv, Types, Reaping
<1>8. fiber'[f].info # None => fiber'[f].info <= made
  BY <1>4 DEF LInv, RegistryInv
<1>9. \A i \in Objects : HeldBy(f, i) => HeldBy(f, i)'
  BY <1>1, <1>2, <1>4 DEF HeldBy, Alive
<1>10. stopRequested \/ \A i \in heap : OwnedBy(f, i) => obj[i].terminated \/ OwnedBy(f, i)'
  <2>1. \A i \in heap : i # None
    BY Bounds DEF LInv, Types
  <2>. QED  BY <1>2, <1>4, <2>1 DEF OwnedBy, RegisteredOK
<1>. QED  BY <1>2, <1>4, <1>5, <1>6, <1>7, <1>8, <1>9, <1>10, PlainStep

\* The exit marks the thread's object terminated, or makes one where there is none.
LEMMA ExitMarkKeeps == ASSUME LInv, NEW f \in Ids, ExitMark(f) PROVE LInv'
<1>1. PICK p : p = IF fiber[f].pc = "exit_mark" THEN "hook_lookup" ELSE "exit_consume"
  OBVIOUS
<1>2. /\ slot = f /\ slot' = f /\ fiber[f].pc \in {"exit_mark", "exit_delete"}
      /\ fiber[f].info = None /\ f \notin handlers
      /\ stopRequested \/ RegisteredOK(f)
      /\ UNCHANGED <<nextId, active, heap, handlers, stopRequested, stop>>
      /\ fiber[f] \in FiberStates /\ p \in {"hook_lookup", "exit_consume"}
  BY <1>1 DEF LInv, Types, FiberOK, PlaceOK, ExitMark, At
<1>3. \A g \in Ids : fiber[g].pc \notin Reaping
  BY <1>2 DEF LInv, SlotInv, InCall, Reaping
<1>4. stopRequested \/ f \notin Tids \/ (registry[f] # None /\ ~Dormant(registry[f]))
  BY <1>2, <1>3 DEF RegisteredOK, Alive
<1>5. ASSUME NEW i \in Objects, fiber' = [fiber EXCEPT ![f].info = i, ![f].pc =
                IF @ = "exit_mark" THEN "hook_lookup" ELSE "exit_consume"]
      PROVE  /\ fiber' \in [Ids -> FiberStates] /\ fiber'[f].info = i /\ fiber'[f].pc = p
             /\ \A g \in Ids \ {f} : fiber'[g] = fiber[g]
             /\ fiber'[f].pc \in InCall
  BY <1>1, <1>2, <1>5 DEF LInv, Types, FiberStates, InCall
<1>6. CASE /\ registry[f] # None /\ UNCHANGED <<registry, made>>
           /\ obj' = [obj EXCEPT ![registry[f]].terminated = TRUE]
           /\ fiber' = [fiber EXCEPT ![f].info = registry[f],
                         ![f].pc = IF @ = "exit_mark" THEN "hook_lookup" ELSE "exit_consume"]
  <2>1. PICK i \in Objects : i = registry[f]
    BY <1>6, Refs
  <2>2. /\ fiber' \in [Ids -> FiberStates] /\ fiber'[f].info = i /\ fiber'[f].pc = p
        /\ \A g \in Ids \ {f} : fiber'[g] = fiber[g]
        /\ fiber'[f].pc \in InCall
    BY <1>5, <1>6, <2>1
  <2>3. /\ obj' \in [Objects -> Infos] /\ obj'[i].terminated
        /\ \A j \in Objects \ {i} : obj'[j] = obj[j]
    <3>1. obj' = [obj EXCEPT ![i].terminated = TRUE]
      BY <1>6, <2>1
    <3>. QED  BY <3>1 DEF LInv, Types, Infos
  <2>4. /\ obj'[i].started = obj[i].started /\ obj'[i].dormant = obj[i].dormant
        /\ obj'[i].counted = obj[i].counted /\ obj'[i].stack = obj[i].stack
    BY <1>6, <2>1 DEF LInv, Types, Infos
  <2>5. Types'
    BY <1>2, <1>6, <2>2, <2>3 DEF LInv, Types
  <2>6. FiberOK(f)'
    <3>1. PlaceOK(f)' /\ StartOK(f)'
      BY <1>2, <2>2, Bounds DEF PlaceOK, StartOK, Starting, Deleting
    <3>2. stopRequested' \/ RegisteredOK(f)'
      BY <1>2, <1>4, <1>6, <2>1, <2>2, <2>3, <2>4
         DEF RegisteredOK, Starting, Deleting, Hooked, Dormant
    <3>. QED  BY <3>1, <3>2 DEF FiberOK
  <2>7. RegistryInv'
    BY <1>2, <1>6, <2>1, <2>2 DEF LInv, RegistryInv
  <2>8. ObjectInv'
    <3>1. \A j \in Objects : obj'[j].counted => obj'[j].started /\ j <= made
      BY <1>3, <2>3, <2>4 DEF LInv, ObjectInv
    <3>2. \A j \in Objects : obj'[j].stack = "auto" => j \in heap
      BY <2>3, <2>4 DEF LInv, ObjectInv
    <3>. QED  BY <1>2, <1>6, <3>1, <3>2 DEF ObjectInv
  <2>9. CountInv'
    BY <1>2, <2>3, <2>4, NotConsumed
  <2>10. \A g \in Ids \ {f} :
          /\ registry'[g] = registry[g]
          /\ \/ ~Alive(g) \/ registry[g] = None \/ Dormant(registry[g])
             \/ obj'[registry[g]].started \/ ~obj'[registry[g]].dormant
    BY <1>6, <2>3, <2>4, Refs DEF Dormant
  <2>11. \A j \in Objects :
          /\ obj'[j].counted => obj[j].counted
          /\ HeldBy(f, j) => HeldBy(f, j)'
    BY <1>2, <1>6, <2>2, <2>3, <2>4 DEF HeldBy, Alive
  <2>12. \A j \in heap' :
          /\ j \in heap
          /\ obj[j].terminated => obj'[j].terminated
          /\ OwnedBy(f, j) => OwnedBy(f, j)'
    <3>1. \A j \in heap : j \in Objects /\ j # None
      BY Bounds DEF LInv, Types
    <3>. QED  BY <1>2, <1>6, <2>3, <3>1 DEF OwnedBy
  <2>. QED  BY <1>2, <2>2, <2>5, <2>6, <2>7, <2>8, <2>9, <2>10, <2>11, <2>12, FiberStep
<1>7. CASE /\ registry[f] = None /\ made < MaxInfos /\ made' = made + 1
           /\ obj' = [obj EXCEPT ![made + 1] = [Fresh("own") EXCEPT !.started = TRUE,
                                                !.dormant = FALSE, !.terminated = TRUE]]
           /\ registry' = [registry EXCEPT ![f] = made + 1]
           /\ fiber' = [fiber EXCEPT ![f].info = made + 1,
                         ![f].pc = IF @ = "exit_mark" THEN "hook_lookup" ELSE "exit_consume"]
  <2>1. PICK n \in Objects : n = made + 1 /\ Unused(n)
    BY <1>7, NewObject
  <2>2. /\ fiber' \in [Ids -> FiberStates] /\ fiber'[f].info = n /\ fiber'[f].pc = p
        /\ \A g \in Ids \ {f} : fiber'[g] = fiber[g]
        /\ fiber'[f].pc \in InCall
    BY <1>5, <1>7, <2>1
  <2> DEFINE r == [Fresh("own") EXCEPT !.started = TRUE, !.dormant = FALSE, !.terminated = TRUE]
  <2>3. /\ r \in Infos /\ r.started /\ ~r.dormant /\ r.terminated /\ ~r.counted
        /\ r.stack # "auto"
    BY DEF Fresh, Infos
  <2>4. /\ obj' \in [Objects -> Infos] /\ obj'[n] = r
        /\ \A j \in Objects \ {n} : obj'[j] = obj[j]
        /\ registry' \in [Ids -> Objects \cup {None}] /\ registry'[f] = n
        /\ \A g \in Ids \ {f} : registry'[g] = registry[g]
    <3>1. obj' = [obj EXCEPT ![n] = r] /\ registry' = [registry EXCEPT ![f] = n]
      BY <1>7, <2>1
    <3>. HIDE DEF r
    <3>. QED  BY <2>3, <3>1 DEF LInv, Types
  <2>. HIDE DEF r
  <2>5. Types'
    <3>1. made' \in 0..MaxInfos
      BY <1>7, Bounds DEF LInv, Types
    <3>. QED  BY <1>2, <2>2, <2>4, <3>1 DEF LInv, Types
  <2>6. FiberOK(f)'
    <3>1. PlaceOK(f)' /\ StartOK(f)'
      BY <1>2, <2>2, Bounds DEF PlaceOK, StartOK, Starting, Deleting
    <3>2. stopRequested' \/ RegisteredOK(f)'
      BY <1>2, <2>2, <2>3, <2>4, Bounds DEF RegisteredOK, Starting, Deleting, Hooked, Dormant
    <3>. QED  BY <3>1, <3>2 DEF FiberOK
  <2>7. \A i \in Objects : i <= made => i <= made'
    BY <1>7, MadeGrows
  <2>8. RegistryInv'
    <3>1. n <= made'
      BY <1>7, <2>1, Bounds
    <3>2. \A t \in Ids : registry'[t] # None
            => registry'[t] <= made' /\ \A u \in Ids : registry'[u] = registry'[t] => u = t
      <4>1. \A t \in Ids : registry[t] # None => registry[t] \in Objects /\ registry[t] <= made
        BY Refs DEF LInv, RegistryInv
      <4>2. \A t \in Ids \ {f} : registry[t] # n
        BY <2>1 DEF Unused
      <4>. QED  BY <2>4, <2>7, <3>1, <4>1, <4>2, Refs
    <3>3. \A i \in heap' : i <= made'
      BY <1>2, <2>7 DEF LInv, Types, RegistryInv
    <3>4. \A g \in Ids : fiber'[g].info # None => fiber'[g].info <= made'
      BY <2>2, <2>7, <3>1, Refs DEF LInv, RegistryInv
    <3>. QED  BY <3>2, <3>3, <3>4 DEF RegistryInv
  <2>9. ObjectInv'
    <3>1. \A j \in Objects : obj'[j].counted => obj'[j].started /\ j <= made
      BY <1>3, <2>3, <2>4 DEF LInv, ObjectInv
    <3>2. \A j \in Objects : obj'[j].stack = "auto" => j \in heap
      BY <2>3, <2>4 DEF LInv, ObjectInv
    <3>. QED  BY <1>2, <2>7, <3>1, <3>2 DEF ObjectInv
  <2>10. CountInv'
    BY <1>2, <2>1, <2>3, <2>4, NotConsumed DEF Unused
  <2>11. \A g \in Ids \ {f} :
          /\ registry'[g] = registry[g]
          /\ \/ ~Alive(g) \/ registry[g] = None \/ Dormant(registry[g])
             \/ obj'[registry[g]].started \/ ~obj'[registry[g]].dormant
    BY <2>1, <2>4, Refs DEF Dormant, Unused
  <2>12. stopRequested \/ \A j \in Objects :
          /\ obj'[j].counted => obj[j].counted
          /\ ~HeldBy(f, j)
    BY <1>2, <1>4, <1>7, <2>3, <2>4 DEF HeldBy
  <2>13. \A j \in heap' :
          /\ j \in heap
          /\ obj[j].terminated => obj'[j].terminated
          /\ ~OwnedBy(f, j)
    <3>1. \A j \in heap : j \in Objects /\ j # None /\ j # n
      BY <2>1, Bounds DEF LInv, Types, Unused
    <3>. QED  BY <1>2, <1>7, <2>4, <3>1 DEF OwnedBy
  <2>. QED  BY <1>2, <2>2, <2>4, <2>5, <2>6, <2>8, <2>9, <2>10, <2>11, <2>12, <2>13, FiberStep
<1>. QED  BY <1>6, <1>7 DEF ExitMark

\* ExitDeleteThread removes the entry and takes the token back with it.
LEMMA ExitDeleteKeeps == ASSUME LInv, NEW f \in Ids, ExitDeleteThread(f) PROVE LInv'
<1>1. PICK i : i = fiber[f].info
  OBVIOUS
<1>2. /\ slot = f /\ fiber[f].pc = "exit_consume" /\ i \in Objects /\ f \notin handlers
      /\ (stopRequested \/ RegisteredOK(f)) /\ consumeActiveToken(i)
      /\ UNCHANGED <<nextId, made, heap, handlers, stopRequested, stop>>
      /\ registry' = [registry EXCEPT ![f] = None] /\ Goes(f, "hook_lookup")
  BY <1>1, Refs DEF LInv, FiberOK, PlaceOK, ExitDeleteThread, At
<1>3. /\ fiber' \in [Ids -> FiberStates] /\ slot' = f
      /\ fiber'[f].pc = "hook_lookup" /\ fiber'[f].info = i
      /\ \A g \in Ids \ {f} : fiber'[g] = fiber[g]
  <2>1. "hook_lookup" \in InCall
    BY DEF InCall
  <2>. QED  BY <1>1, <1>2, <2>1, PlaceTyped, Moved DEF Goes, LInv
<1>4. /\ obj' \in [Objects -> Infos] /\ CountInv' /\ ~obj'[i].counted
      /\ \A j \in Objects :
           /\ obj'[j].started = obj[j].started /\ obj'[j].dormant = obj[j].dormant
           /\ obj'[j].terminated = obj[j].terminated /\ obj'[j].stack = obj[j].stack
           /\ obj'[j].counted => obj[j].counted
  BY <1>2, ConsumeKeeps, Bounds
<1>5. /\ registry' \in [Ids -> Objects \cup {None}] /\ registry'[f] = None
      /\ \A g \in Ids \ {f} : registry'[g] = registry[g]
  BY <1>2 DEF LInv, Types
<1>6. stopRequested \/ (registry[f] = i /\ obj[i].terminated)
  BY <1>1, <1>2 DEF RegisteredOK
<1>7. Types'
  BY <1>2, <1>3, <1>4, <1>5 DEF LInv, Types
<1>8. FiberOK(f)'
  <2>1. PlaceOK(f)' /\ StartOK(f)'
    BY <1>3 DEF PlaceOK, StartOK, Starting, Deleting
  <2>2. stopRequested' \/ RegisteredOK(f)'
    BY <1>2, <1>3, <1>4, <1>5, <1>6 DEF RegisteredOK, Starting, Deleting, Hooked
  <2>. QED  BY <2>1, <2>2 DEF FiberOK
<1>9. RegistryInv'
  <2>1. fiber[f].info <= made
    BY <1>1, <1>2, Bounds DEF LInv, RegistryInv
  <2>. QED  BY <1>1, <1>2, <1>3, <1>5, <2>1 DEF LInv, RegistryInv
<1>10. ObjectInv'
  <2>1. \A g \in Ids : fiber[g].pc \notin Reaping
    BY <1>2 DEF LInv, SlotInv, InCall, Reaping
  <2>2. \A j \in Objects : obj'[j].counted => obj'[j].started /\ j <= made
    BY <1>4, <2>1 DEF LInv, ObjectInv
  <2>3. \A j \in Objects : obj'[j].stack = "auto" => j \in heap
    BY <1>4 DEF LInv, ObjectInv
  <2>. QED  BY <1>2, <2>2, <2>3 DEF ObjectInv
<1>11. \A g \in Ids \ {f} :
          /\ registry'[g] = registry[g]
          /\ \/ ~Alive(g) \/ registry[g] = None \/ Dormant(registry[g])
             \/ obj'[registry[g]].started \/ ~obj'[registry[g]].dormant
  BY <1>4, <1>5, Refs DEF Dormant
<1>12. stopRequested \/ \A j \in Objects :
          /\ obj'[j].counted => obj[j].counted
          /\ obj'[j].counted => ~HeldBy(f, j)
  BY <1>1, <1>4, <1>6 DEF HeldBy
<1>13. stopRequested \/ \A j \in heap' :
          /\ j \in heap
          /\ obj[j].terminated => obj'[j].terminated
          /\ OwnedBy(f, j) => OwnedBy(f, j)'
  <2>1. heap \subseteq Objects
    BY DEF LInv, Types
  <2>2. stopRequested \/ \A j \in heap : OwnedBy(f, j) => j = i
    BY <1>1, <1>6 DEF OwnedBy
  <2>3. OwnedBy(f, i)'
    BY <1>3 DEF OwnedBy, Alive
  <2>. QED  BY <1>2, <1>4, <2>1, <2>2, <2>3
<1>14. fiber'[f].pc \in InCall <=> slot' = f
  BY <1>3 DEF InCall
<1>. QED  BY <1>2, <1>3, <1>4, <1>7, <1>8, <1>9, <1>10, <1>11, <1>12, <1>13, <1>14, FiberStep

\* The hook makes the object dormant again; no other living thread has it.
LEMMA HookResetKeeps == ASSUME LInv, NEW f \in Ids, HookReset(f) PROVE LInv'
<1>1. PICK i : i = fiber[f].info
  OBVIOUS
<1>2. /\ slot = f /\ fiber[f].pc = "hook_reset" /\ i \in Objects \cup {None}
      /\ stopRequested \/ RegisteredOK(f)
      /\ UNCHANGED <<registry, nextId, made, active, heap, handlers, stopRequested, stop>>
      /\ obj' = IF i = None THEN obj ELSE [obj EXCEPT ![i] =
                   [@ EXCEPT !.started = FALSE, !.dormant = TRUE, !.terminated = FALSE]]
      /\ Goes(f, "hook_stack")
  BY <1>1, Refs DEF LInv, FiberOK, HookReset, At
<1>3. /\ fiber' \in [Ids -> FiberStates] /\ slot' = f
      /\ fiber'[f].pc = "hook_stack" /\ fiber'[f].info = i
      /\ \A g \in Ids \ {f} : fiber'[g] = fiber[g]
  <2>1. "hook_stack" \in InCall
    BY DEF InCall
  <2>. QED  BY <1>1, <1>2, <2>1, PlaceTyped, Moved DEF Goes, LInv
<1>4. obj' \in [Objects -> Infos] /\ \A j \in Objects \ {i} : obj'[j] = obj[j]
  BY <1>2 DEF LInv, Types, Infos
<1>5. i # None => obj'[i].counted = obj[i].counted /\ obj'[i].stack = obj[i].stack
  BY <1>2 DEF LInv, Types, Infos
<1>6. stopRequested \/ registry[f] = i
  BY <1>1, <1>2 DEF RegisteredOK, Hooked
<1>7. Types'
  BY <1>2, <1>3, <1>4 DEF LInv, Types
<1>8. FiberOK(f)'
  <2>1. PlaceOK(f)' /\ StartOK(f)'
    BY <1>3 DEF PlaceOK, StartOK, Starting, Deleting
  <2>2. stopRequested \/ f \notin Tids \/ registry[f] # None \/ f \notin handlers
    BY <1>2 DEF RegisteredOK, Alive
  <2>3. stopRequested' \/ RegisteredOK(f)'
    BY <1>2, <1>3, <1>6, <2>2 DEF RegisteredOK, Starting, Deleting, Hooked, Reaping
  <2>. QED  BY <2>1, <2>3 DEF FiberOK
<1>9. RegistryInv'
  BY <1>1, <1>2, <1>3, RefsKept
<1>10. ObjectInv'
  <2>1. \A g \in Ids : fiber[g].pc \notin Reaping
    BY <1>2 DEF LInv, SlotInv, InCall, Reaping
  <2>2. \A j \in Objects \ {i} : obj'[j].counted => obj'[j].started
    BY <1>4, <2>1 DEF LInv, ObjectInv
  <2>3. \A j \in Objects : /\ obj'[j].stack = "auto" => j \in heap
                           /\ obj'[j].counted => j <= made
    BY <1>4, <1>5, Bounds DEF LInv, ObjectInv
  <2>4. fiber'[f].pc \in Reaping /\ fiber'[f].info = i
    BY <1>3 DEF Reaping
  <2>5. Reaping' = Reaping
    BY DEF Reaping
  <2>. QED  BY <1>2, <2>2, <2>3, <2>4, <2>5 DEF ObjectInv
<1>11. CountInv'
  BY <1>2, <1>4, <1>5, NotConsumed, Bounds
<1>12. \A g \in Ids \ {f} :
          \/ stopRequested
          \/ /\ registry'[g] = registry[g]
             /\ \/ ~Alive(g) \/ registry[g] = None \/ Dormant(registry[g])
                \/ obj'[registry[g]].started \/ ~obj'[registry[g]].dormant
  <2>. SUFFICES ASSUME NEW g \in Ids \ {f}, ~stopRequested, registry[g] # None
                PROVE  \/ Dormant(registry[g])
                       \/ obj'[registry[g]].started \/ ~obj'[registry[g]].dormant
    BY <1>2
  <2>1. registry[g] \in Objects \ {i}
    BY <1>6, Refs
  <2>. QED  BY <1>4, <2>1 DEF Dormant
<1>13. stopRequested \/ \A j \in Objects :
          /\ obj'[j].counted => obj[j].counted
          /\ HeldBy(f, j) => HeldBy(f, j)'
  BY <1>1, <1>2, <1>3, <1>4, <1>5, Bounds DEF HeldBy
<1>14. stopRequested \/ \A j \in heap' :
          /\ j \in heap
          /\ obj[j].terminated => obj'[j].terminated \/ OwnedBy(f, j)'
          /\ OwnedBy(f, j) => OwnedBy(f, j)'
  <2>1. \A j \in heap : j \in Objects
    BY DEF LInv, Types
  <2>2. stopRequested \/ OwnedBy(f, i)'
    BY <1>2, <1>6 DEF OwnedBy
  <2>3. \A j \in heap : OwnedBy(f, j) => OwnedBy(f, j)'
    BY <1>1, <1>2, <1>3 DEF OwnedBy, Alive
  <2>. QED  BY <1>2, <1>4, <2>1, <2>2, <2>3
<1>15. fiber'[f].pc \in InCall <=> slot' = f
  BY <1>3 DEF InCall
<1>. QED  BY <1>2, <1>3, <1>7, <1>8, <1>9, <1>10, <1>11, <1>12, <1>13, <1>14, <1>15, FiberStep

\* The stack of an unregistered thread is freed.
LEMMA HookStackKeeps == ASSUME LInv, NEW f \in Ids, HookStack(f) PROVE LInv'
<1>1. PICK i : i = fiber[f].info
  OBVIOUS
<1>2. /\ slot = f /\ fiber[f].pc = "hook_stack" /\ i \in Objects \cup {None}
      /\ stopRequested \/ RegisteredOK(f)
      /\ UNCHANGED <<registry, nextId, made, active, handlers, stopRequested, stop>>
      /\ IF registry[f] = None /\ i # None /\ obj[i].stack = "auto"
         THEN obj' = [obj EXCEPT ![i].stack = "own"] /\ heap' = heap \ {i}
         ELSE UNCHANGED <<obj, heap>>
      /\ Goes(f, "hook_consume")
  BY <1>1, Refs DEF LInv, FiberOK, HookStack, At
<1>3. /\ fiber' \in [Ids -> FiberStates] /\ slot' = f
      /\ fiber'[f].pc = "hook_consume" /\ fiber'[f].info = i
      /\ \A g \in Ids \ {f} : fiber'[g] = fiber[g]
  <2>1. "hook_consume" \in InCall
    BY DEF InCall
  <2>. QED  BY <1>1, <1>2, <2>1, PlaceTyped, Moved DEF Goes, LInv
<1>4. /\ obj' \in [Objects -> Infos] /\ heap' \subseteq heap
      /\ \A j \in Objects :
           /\ obj'[j].started = obj[j].started /\ obj'[j].dormant = obj[j].dormant
           /\ obj'[j].terminated = obj[j].terminated /\ obj'[j].counted = obj[j].counted
           /\ obj'[j].stack = "auto" => j \in heap'
  <2>1. CASE registry[f] = None /\ i # None /\ obj[i].stack = "auto"
    <3>1. obj' = [obj EXCEPT ![i].stack = "own"] /\ heap' = heap \ {i} /\ i \in Objects
      BY <1>2, <2>1
    <3>2. /\ obj' \in [Objects -> Infos] /\ \A j \in Objects \ {i} : obj'[j] = obj[j]
          /\ obj'[i].stack = "own"
      BY <3>1 DEF LInv, Types, Infos
    <3>3. /\ obj'[i].started = obj[i].started /\ obj'[i].dormant = obj[i].dormant
          /\ obj'[i].terminated = obj[i].terminated /\ obj'[i].counted = obj[i].counted
      BY <3>1 DEF LInv, Types, Infos
    <3>4. \A j \in Objects : obj'[j].stack = "auto" => j \in heap'
      BY <3>1, <3>2 DEF LInv, ObjectInv
    <3>. QED  BY <3>1, <3>2, <3>3, <3>4
  <2>2. CASE UNCHANGED <<obj, heap>>
    BY <2>2 DEF LInv, Types, ObjectInv
  <2>. QED  BY <1>2, <2>1, <2>2
<1>5. stopRequested \/ registry[f] = i
  BY <1>1, <1>2 DEF RegisteredOK, Hooked
<1>6. Types'
  BY <1>2, <1>3, <1>4 DEF LInv, Types
<1>7. FiberOK(f)'
  <2>1. PlaceOK(f)' /\ StartOK(f)'
    BY <1>3 DEF PlaceOK, StartOK, Starting, Deleting
  <2>2. stopRequested \/ f \notin Tids \/ registry[f] # None \/ f \notin handlers
    BY <1>2 DEF RegisteredOK, Alive
  <2>3. stopRequested' \/ RegisteredOK(f)'
    BY <1>2, <1>3, <1>5, <2>2 DEF RegisteredOK, Starting, Deleting, Hooked, Reaping
  <2>. QED  BY <2>1, <2>3 DEF FiberOK
<1>8. RegistryInv'
  BY <1>1, <1>2, <1>3, <1>4, RefsKept
<1>9. ObjectInv'
  <2>1. ASSUME NEW j \in Objects, obj'[j].counted, ~obj'[j].started
        PROVE  \E g \in Ids : fiber'[g].pc \in Reaping /\ fiber'[g].info = j
    <3>1. PICK g \in Ids : fiber[g].pc \in Reaping /\ fiber[g].info = j
      BY <1>4, <2>1 DEF LInv, ObjectInv
    <3>2. g = f
      BY <1>2, <3>1 DEF LInv, SlotInv, InCall, Reaping
    <3>. QED  BY <1>1, <1>3, <3>1, <3>2 DEF Reaping
  <2>2. \A j \in Objects : obj'[j].counted => j <= made
    BY <1>4 DEF LInv, ObjectInv
  <2>3. Reaping' = Reaping
    BY DEF Reaping
  <2>. QED  BY <1>2, <1>4, <2>1, <2>2, <2>3 DEF ObjectInv
<1>10. CountInv'
  BY <1>2, <1>4, NotConsumed
<1>11. \A g \in Ids \ {f} :
          /\ registry'[g] = registry[g]
          /\ \/ ~Alive(g) \/ registry[g] = None \/ Dormant(registry[g])
             \/ obj'[registry[g]].started \/ ~obj'[registry[g]].dormant
  BY <1>2, <1>4, Refs DEF Dormant
<1>12. \A j \in Objects :
          /\ obj'[j].counted => obj[j].counted
          /\ HeldBy(f, j) => HeldBy(f, j)'
  BY <1>1, <1>2, <1>3, <1>4 DEF HeldBy
<1>13. \A j \in heap' :
          /\ j \in heap
          /\ obj[j].terminated => obj'[j].terminated
          /\ OwnedBy(f, j) => OwnedBy(f, j)'
  <2>1. \A j \in heap : j \in Objects
    BY DEF LInv, Types
  <2>. QED  BY <1>1, <1>2, <1>3, <1>4, <2>1 DEF OwnedBy, Alive
<1>14. fiber'[f].pc \in InCall <=> slot' = f
  BY <1>3 DEF InCall
<1>. QED  BY <1>2, <1>3, <1>6, <1>7, <1>8, <1>9, <1>10, <1>11, <1>12, <1>13, <1>14, FiberStep

\* The last step of the hook takes the token back, and the fiber is gone.
LEMMA HookConsumeKeeps == ASSUME LInv, NEW f \in Ids, HookConsume(f) PROVE LInv'
<1>1. PICK i : i = fiber[f].info
  OBVIOUS
<1>2. /\ slot = f /\ slot' = None /\ fiber[f].pc = "hook_consume" /\ i \in Objects \cup {None}
      /\ (stopRequested \/ RegisteredOK(f)) /\ consumeActiveToken(i)
      /\ UNCHANGED <<registry, nextId, made, heap, handlers, stopRequested, stop>>
      /\ fiber' = [fiber EXCEPT ![f] = NoFiber]
  BY <1>1, Refs DEF LInv, FiberOK, HookConsume, At
<1>3. /\ fiber' \in [Ids -> FiberStates] /\ fiber'[f].pc = "none" /\ fiber'[f].info = None
      /\ \A g \in Ids \ {f} : fiber'[g] = fiber[g]
  <2>1. NoFiber \in FiberStates /\ NoFiber.pc = "none" /\ NoFiber.info = None
    BY DEF NoFiber, FiberStates, Ids
  <2>. QED  BY <1>2, <2>1 DEF LInv, Types
<1>4. /\ obj' \in [Objects -> Infos] /\ CountInv' /\ (i # None => ~obj'[i].counted)
      /\ \A j \in Objects :
           /\ obj'[j].started = obj[j].started /\ obj'[j].dormant = obj[j].dormant
           /\ obj'[j].terminated = obj[j].terminated /\ obj'[j].stack = obj[j].stack
           /\ obj'[j].counted => obj[j].counted
  BY <1>2, ConsumeKeeps
<1>5. stopRequested \/ registry[f] = i
  BY <1>1, <1>2 DEF RegisteredOK, Hooked
<1>6. Types'
  BY <1>2, <1>3, <1>4 DEF LInv, Types
<1>7. FiberOK(f)'
  BY <1>3 DEF FiberOK, PlaceOK, StartOK, RegisteredOK, Starting, Deleting, Hooked, Alive
<1>8. RegistryInv'
  BY <1>2, <1>3, RefsKept
<1>9. ObjectInv'
  <2>1. ASSUME NEW j \in Objects, obj'[j].counted PROVE obj'[j].started
    <3>1. \A g \in Ids : fiber[g].pc \in Reaping => g = f
      BY <1>2 DEF LInv, SlotInv, InCall, Reaping
    <3>2. j # i /\ obj[j].counted
      BY <1>4, <2>1, Bounds
    <3>3. obj[j].started
      BY <1>1, <3>1, <3>2 DEF LInv, ObjectInv
    <3>. QED  BY <1>4, <3>3
  <2>2. \A j \in Objects : /\ obj'[j].counted => j <= made
                           /\ obj'[j].stack = "auto" => j \in heap
    BY <1>4 DEF LInv, ObjectInv
  <2>. QED  BY <1>2, <2>1, <2>2 DEF ObjectInv
<1>10. \A g \in Ids \ {f} :
          /\ registry'[g] = registry[g]
          /\ \/ ~Alive(g) \/ registry[g] = None \/ Dormant(registry[g])
             \/ obj'[registry[g]].started \/ ~obj'[registry[g]].dormant
  BY <1>2, <1>4, Refs DEF Dormant
<1>11. \A j \in Objects :
          /\ obj'[j].counted => obj[j].counted
          /\ obj'[j].counted => ~HeldBy(f, j)
  BY <1>1, <1>2, <1>4, Bounds DEF HeldBy
<1>12. stopRequested \/ \A j \in heap' :
          /\ j \in heap
          /\ obj[j].terminated => obj'[j].terminated
          /\ OwnedBy(f, j) => OwnedBy(f, j)'
  <2>1. \A j \in heap : j \in Objects
    BY DEF LInv, Types
  <2>. QED  BY <1>1, <1>2, <1>4, <1>5, <2>1 DEF OwnedBy
<1>13. fiber'[f].pc \in InCall <=> slot' = f
  BY <1>2, <1>3, Bounds DEF InCall
<1>. QED  BY <1>2, <1>3, <1>4, <1>6, <1>7, <1>8, <1>9, <1>10, <1>11, <1>12, <1>13, FiberStep

-----------------------------------------------------------------------------
(* The stop *)

\* A step of the stop moves no fiber and makes no object dormant.
LEMMA StopStep ==
    ASSUME LInv, Types', stopRequested', UNCHANGED <<made, heap, fiber, slot>>,
           handlers' \subseteq handlers, CountInv',
           \A t \in Ids : registry'[t] \in {None, registry[t]},
           \A j \in Objects :
              /\ obj'[j].started = obj[j].started /\ obj'[j].dormant = obj[j].dormant
              /\ obj'[j].stack = obj[j].stack
              /\ obj'[j].counted => obj[j].counted
    PROVE  LInv'
<1>1. SlotInv' /\ HeldInv' /\ OwnedInv' /\ StopInv'
  BY DEF LInv, SlotInv, HeldInv, OwnedInv, StopInv
<1>2. RegistryInv'
  BY DEF LInv, RegistryInv
<1>3. ObjectInv'
  BY DEF LInv, ObjectInv
<1>4. ASSUME NEW f \in Ids PROVE FiberOK(f)'
  <2>1. PlaceOK(f)'
    BY DEF LInv, FiberOK, PlaceOK
  <2>2. StartOK(f)'
    <3>1. fiber[f].pc \in Starting => fiber[f].info \in Objects
      BY Refs DEF LInv, FiberOK, PlaceOK
    <3>. QED  BY <3>1 DEF LInv, FiberOK, StartOK, Starting, Alive, Dormant
  <2>. QED  BY <2>1, <2>2 DEF FiberOK
<1>. QED  BY <1>1, <1>2, <1>3, <1>4 DEF LInv

\* requestStop sets the flag.
LEMMA RequestStopKeeps == ASSUME LInv, RequestStop PROVE LInv'
<1>1. Types' /\ stopRequested'
  BY DEF LInv, Types, RequestStop
<1>2. UNCHANGED <<registry, made, obj, active, heap, handlers, fiber, slot>>
  BY DEF RequestStop
<1>3. CountInv'
  BY <1>2, NotConsumed
<1>. QED  BY <1>1, <1>2, <1>3, StopStep

\* It clears the registry, and keeps the objects it held.
LEMMA StopClearKeeps == ASSUME LInv, StopClear PROVE LInv'
<1>1. /\ UNCHANGED <<made, obj, active, heap, handlers, fiber, slot, stopRequested>>
      /\ registry' = [t \in Ids |-> None] /\ stopRequested
  BY DEF LInv, StopInv, StopClear
<1>2. Types'
  <2> DEFINE found == {registry[t] : t \in {u \in Ids : registry[u] # None}}
  <2>1. found \in SUBSET Objects
    BY Refs
  <2>2. stop' = [pc |-> "consume", left |-> found, all |-> found]
    BY DEF StopClear
  <2>3. stop' \in [pc : {"idle", "clear", "consume", "mark", "done"}, left : SUBSET Objects,
                   all : SUBSET Objects]
    <3>. HIDE DEF found
    <3>. QED  BY <2>1, <2>2
  <2>4. nextId' \in Tids
    BY Bounds DEF StopClear, Tids
  <2>. QED  BY <1>1, <2>3, <2>4 DEF LInv, Types
<1>3. CountInv'
  BY <1>1, NotConsumed
<1>. QED  BY <1>1, <1>2, <1>3, StopStep

\* It takes back the tokens of those objects.
LEMMA StopConsumeKeeps == ASSUME LInv, NEW i \in Objects, StopConsume(i) PROVE LInv'
<1>1. /\ UNCHANGED <<registry, nextId, made, heap, handlers, fiber, slot, stopRequested>>
      /\ consumeActiveToken(i) /\ stopRequested /\ stop' = [stop EXCEPT !.left = @ \ {i}]
  BY DEF LInv, StopInv, StopConsume
<1>2. /\ obj' \in [Objects -> Infos] /\ CountInv'
      /\ \A j \in Objects :
           /\ obj'[j].started = obj[j].started /\ obj'[j].dormant = obj[j].dormant
           /\ obj'[j].stack = obj[j].stack
           /\ obj'[j].counted => obj[j].counted
  BY <1>1, ConsumeKeeps
<1>3. Types'
  BY <1>1, <1>2 DEF LInv, Types
<1>. QED  BY <1>1, <1>2, <1>3, StopStep

\* It starts over with all of them.
LEMMA StopMarkKeeps == ASSUME LInv, StopMark PROVE LInv'
<1>1. /\ UNCHANGED <<registry, nextId, made, obj, active, heap, handlers, fiber, slot>>
      /\ stopRequested' /\ Types'
  BY DEF LInv, Types, StopInv, StopMark
<1>2. CountInv'
  BY <1>1, NotConsumed
<1>. QED  BY <1>1, <1>2, StopStep

\* It marks each one terminated.
LEMMA StopTerminatesKeeps == ASSUME LInv, NEW i \in Objects, StopTerminates(i) PROVE LInv'
<1>1. /\ UNCHANGED <<registry, nextId, made, active, heap, handlers, fiber, slot, stopRequested>>
      /\ obj' = [obj EXCEPT ![i].terminated = TRUE] /\ stopRequested
      /\ stop' = [stop EXCEPT !.left = @ \ {i}]
  BY DEF LInv, StopInv, StopTerminates
<1>2. obj' \in [Objects -> Infos] /\ \A j \in Objects \ {i} : obj'[j] = obj[j]
  BY <1>1 DEF LInv, Types, Infos
<1>3. /\ obj'[i].started = obj[i].started /\ obj'[i].dormant = obj[i].dormant
      /\ obj'[i].counted = obj[i].counted /\ obj'[i].stack = obj[i].stack
  BY <1>1 DEF LInv, Types, Infos
<1>4. Types'
  BY <1>1, <1>2 DEF LInv, Types
<1>5. CountInv'
  BY <1>1, <1>2, <1>3, NotConsumed
<1>. QED  BY <1>1, <1>2, <1>3, <1>4, <1>5, StopStep

\* It drops the exit handlers.
LEMMA StopEndsKeeps == ASSUME LInv, StopEnds PROVE LInv'
<1>1. /\ UNCHANGED <<registry, nextId, made, obj, active, heap, fiber, slot, stopRequested>>
      /\ handlers' = {} /\ stopRequested /\ stop' = [stop EXCEPT !.pc = "done"]
  BY DEF LInv, StopInv, StopEnds
<1>2. Types'
  BY <1>1 DEF LInv, Types
<1>3. CountInv'
  BY <1>1, NotConsumed
<1>. QED  BY <1>1, <1>2, <1>3, StopStep

-----------------------------------------------------------------------------
(* The theorems *)

\* The boot thread alone runs, and nothing is registered.
LEMMA InitLInv == Init => LInv
<1>. SUFFICES ASSUME Init PROVE LInv
  OBVIOUS
<1>1. \A i \in Objects : obj[i] = Fresh("own")
  BY DEF Init
<1>2. \A f \in Ids : /\ fiber[f].pc = IF f = Boot THEN "run" ELSE "none"
                     /\ fiber[f].info = None /\ registry[f] = None
  BY DEF Init, NoFiber
<1>3. Types
  <2>1. Fresh("own") \in Infos
    BY DEF Fresh, Infos
  <2>2. fiber \in [Ids -> FiberStates]
    <3>1. NoFiber \in FiberStates /\ [NoFiber EXCEPT !.pc = "run"] \in FiberStates
      BY DEF NoFiber, FiberStates, Ids
    <3>. QED  BY <3>1 DEF Init
  <2>3. nextId \in Tids /\ made \in 0..MaxInfos
    BY Bounds DEF Init, Tids
  <2>. QED  BY <2>1, <2>2, <2>3 DEF Init, Types
<1>4. SlotInv
  BY <1>2, Bounds DEF Init, SlotInv, InCall
<1>5. RegistryInv /\ StopInv
  BY <1>2 DEF Init, RegistryInv, StopInv
<1>6. \A i \in Objects : ~obj[i].counted /\ obj[i].stack # "auto"
  BY <1>1 DEF Fresh
<1>7. ObjectInv /\ HeldInv /\ OwnedInv
  BY <1>6 DEF Init, ObjectInv, HeldInv, OwnedInv
<1>8. CountInv
  <2>1. Counted = {}
    BY <1>6 DEF Counted
  <2>. QED  BY <2>1, FS_EmptySet DEF CountInv, Init
<1>9. \A f \in Ids : FiberOK(f)
  BY <1>2, Bounds DEF FiberOK, PlaceOK, StartOK, RegisteredOK, Starting, Deleting, Hooked, Alive
<1>. QED  BY <1>3, <1>4, <1>5, <1>7, <1>8, <1>9 DEF LInv

\* Every step preserves the invariant.
LEMMA StepLInv == LInv /\ [Next]_vars => LInv'
<1>. SUFFICES ASSUME LInv, [Next]_vars PROVE LInv'
  OBVIOUS
<1>1. ASSUME NEW f \in Ids, Call(f) PROVE LInv'
  <2>1. CASE \E stack \in {"ask", "own"} : CreateThread(f, stack)
    BY <2>1, CreateThreadKeeps
  <2>2. CASE \E t \in Tids : StartThread(f, t) \/ DeleteThread(f, t)
    BY <2>2, StartThreadKeeps, DeleteThreadKeeps
  <2>3. CASE StartLock(f) \/ StartMint(f) \/ StartCreate(f) \/ StartFails(f)
    BY <2>3, StartLockKeeps, StartMintKeeps, StartCreateKeeps, StartFailsKeeps
  <2>4. CASE DeleteLock(f) \/ DeleteErase(f)
    BY <2>4, DeleteLockKeeps, DeleteEraseKeeps
  <2>5. CASE RegisterExitHandler(f) \/ HandlersDone(f)
    BY <2>5, RegisterExitHandlerKeeps, HandlersDoneKeeps
  <2>6. CASE \E then \in {"exit_mark", "exit_delete"} : ExitThread(f, then)
    BY <2>6, ExitThreadKeeps
  <2>7. CASE ExitMark(f) \/ ExitDeleteThread(f) \/ ThreadReturns(f)
    BY <2>7, ExitMarkKeeps, ExitDeleteKeeps, ThreadReturnsKeeps
  <2>8. CASE HookLookup(f) \/ HookReset(f) \/ HookStack(f) \/ HookConsume(f)
    BY <2>8, HookLookupKeeps, HookResetKeeps, HookStackKeeps, HookConsumeKeeps
  <2>. QED  BY <1>1, <2>1, <2>2, <2>3, <2>4, <2>5, <2>6, <2>7, <2>8 DEF Call
<1>2. CASE Stopping
  BY <1>2, RequestStopKeeps, StopClearKeeps, StopConsumeKeeps, StopMarkKeeps, StopTerminatesKeeps,
     StopEndsKeeps DEF Stopping
<1>3. CASE UNCHANGED vars
  <2>1. UNCHANGED <<registry, nextId, made, obj, active, heap, handlers, fiber, slot,
                    stopRequested, stop>>
    BY <1>3 DEF vars
  <2>2. Types' /\ SlotInv' /\ RegistryInv' /\ ObjectInv' /\ StopInv'
    BY <2>1 DEF LInv, Types, SlotInv, RegistryInv, ObjectInv, StopInv
  <2>3. CountInv'
    BY <2>1, NotConsumed
  <2>4. HeldInv' /\ OwnedInv'
    BY <2>1 DEF LInv, HeldInv, OwnedInv, HeldBy, OwnedBy, Alive
  <2>5. \A f \in Ids : FiberOK(f)'
    BY <2>1 DEF LInv, FiberOK, PlaceOK, StartOK, RegisteredOK, Hooked, Alive, Dormant
  <2>. QED  BY <2>2, <2>3, <2>4, <2>5 DEF LInv
<1>. QED  BY <1>1, <1>2, <1>3 DEF Next

\* No fiber is replaced in g_fiber_map while it is alive, whenever StartThread is
\* called and the stop comes (ps2_scheduler.cpp 818-822, Thread.cpp 243-256).
THEOREM NoFiberReplaced == Spec => []FiberNotReplaced
<1>1. LInv => FiberNotReplaced
  BY DEF LInv, FiberOK, StartOK, FiberNotReplaced
<1>. QED  BY <1>1, InitLInv, StepLInv, PTL DEF Spec

\* g_activeThreads is the number of tokens, and until the stop each of them has
\* a thread or call left that takes it back (State.h 34-42, 249-260).
THEOREM TokensAccounted == Spec => []TokenHeld
<1>1. LInv => TokenHeld
  <2>. SUFFICES ASSUME LInv PROVE TokenHeld
    OBVIOUS
  <2>1. active = Cardinality({i \in Objects : obj[i].counted})
    BY DEF LInv, CountInv, Counted
  <2>2. ASSUME NEW i \in Objects, NEW f \in Ids, HeldBy(f, i) PROVE Holder(i)
    BY <2>2 DEF HeldBy, Holder
  <2>. QED  BY <2>1, <2>2 DEF LInv, HeldInv, TokenHeld
<1>. QED  BY <1>1, InitLInv, StepLInv, PTL DEF Spec

\* A stack StartThread allocated is freed with its thread and not before
\* (Thread.cpp 263-278, 473-503).
THEOREM StacksAccounted == Spec => []StackReclaimed
<1>1. LInv => StackReclaimed
  <2>. SUFFICES ASSUME LInv PROVE StackReclaimed
    OBVIOUS
  <2>1. ASSUME NEW i \in heap
        PROVE  \/ \E t \in Ids : registry[t] = i \/ (Alive(t) /\ fiber[t].info = i)
               \/ obj[i].terminated \/ stopRequested
    BY DEF LInv, OwnedInv, OwnedBy
  <2>2. ASSUME NEW t \in Tids, registry[t] # None, obj[registry[t]].stack = "auto"
        PROVE  registry[t] \in heap
    BY <2>2, Refs, Bounds DEF LInv, ObjectInv
  <2>. QED  BY <2>1, <2>2 DEF StackReclaimed
<1>. QED  BY <1>1, InitLInv, StepLInv, PTL DEF Spec

\* Every variable keeps its type; g_activeThreads never goes below zero, nor
\* above the number of threads made (State.h 249-260).
THEOREM LifecycleTypeCorrect == Spec => []TypeOK
<1>1. LInv => TypeOK
  <2>. SUFFICES ASSUME LInv PROVE TypeOK
    OBVIOUS
  <2>1. Cardinality(Counted) \in 0..MaxInfos
    <3>1. IsFiniteSet(Objects) /\ Cardinality(Objects) = MaxInfos
      BY FS_Interval, Bounds DEF Objects
    <3>2. Counted \subseteq Objects
      BY DEF Counted
    <3>3. Cardinality(Counted) <= MaxInfos /\ Cardinality(Counted) \in Nat
      BY <3>1, <3>2, FS_Subset, FS_CardinalityType
    <3>. QED  BY <3>3, Bounds
  <2>. QED  BY <2>1 DEF LInv, CountInv, Types, TypeOK
<1>. QED  BY <1>1, InitLInv, StepLInv, PTL DEF Spec
=============================================================================
