------------------------------ MODULE GuestHeap ------------------------------
(***************************************************************************)
(* The allocator the runtime and the guest's malloc share (guestMalloc and *)
(* its kin in ps2_runtime.cpp): a list of blocks in address order, first   *)
(* fit, each request taken from the top of the block it fits, and the pool *)
(* the stacks of host callbacks are carved from.                           *)
(*                                                                         *)
(* An address is a small number and a word of memory holds the name of the *)
(* client that wrote it, so a block that is handed out twice, or one whose *)
(* contents realloc does not carry along, shows.                           *)
(***************************************************************************)
EXTENDS Integers, Sequences, SequencesExt

CONSTANTS
    Clients,       \* holders of at most one block each
    HeapAlign,     \* kGuestHeapDefaultAlignment
    HeapHardLimit, \* kGuestHeapHardLimit, below PS2_RAM_SIZE
    HeapBase,      \* the base before SetupHeap: the default one, or the end of the program
    RamSize,       \* PS2_RAM_SIZE
    MaxWord,       \* the largest value of 32 bits
    HeapSizes,     \* sizes asked for
    HeapAligns,    \* alignments asked for
    HeapBases, HeapLimits,   \* what SetupHeap gives
    PoolFloor, PoolTop   \* kAsyncCallbackStackFloor, kAsyncCallbackStackTop

ASSUME GuestHeapAssumption ==
    /\ HeapAlign \in Nat \ {0} /\ HeapAligns \subseteq Nat /\ HeapBase % HeapAlign = 0
    /\ HeapBase \in Nat \ {0} /\ HeapHardLimit \in Nat /\ MaxWord \in Nat
    /\ HeapBase < HeapHardLimit /\ HeapHardLimit < MaxWord
    /\ HeapBases \cup HeapLimits \cup HeapSizes \subseteq 0..MaxWord
    /\ RamSize \in Nat \ {0}
    /\ PoolFloor \in Nat /\ PoolTop \in Nat /\ PoolFloor < PoolTop /\ PoolTop <= HeapBase

VARIABLES
    blocks,    \* m_guestHeapBlocks
    heapBase,  \* m_guestHeapBase
    suggestedBase,   \* m_guestHeapSuggestedBase
    limit,     \* m_guestHeapLimit
    heapEnd,   \* m_guestHeapEnd
    held,      \* the block a client has; size 0 for none
    words,     \* guest memory
    poolTop,   \* KernelStackPool::top
    stacks     \* the callback stacks carved from it, as <<base, top>>

heapVars == <<blocks, heapBase, suggestedBase, limit, heapEnd, held, words, poolTop, stacks>>

Free == "free"
Nothing == [addr |-> 0, size |-> 0]

HeapTypeOK ==
    /\ blocks \in Seq([addr : 0..HeapHardLimit, size : 1..HeapHardLimit, free : BOOLEAN])
    /\ heapBase \in 0..HeapHardLimit /\ suggestedBase \in 1..MaxWord
    /\ limit \in 0..HeapHardLimit /\ heapEnd \in 0..HeapHardLimit
    /\ held \in [Clients -> [addr : 0..HeapHardLimit, size : 0..HeapHardLimit]]
    /\ words \in [0..HeapHardLimit -> Clients \cup {Free}]
    /\ poolTop \in PoolFloor..PoolTop

-----------------------------------------------------------------------------
PowersOfTwo == {2^k : k \in 0..10}

\* Saturates instead of wrapping around.
alignGuestHeapValue(v, a) ==
    IF v > MaxWord - (a - 1) THEN MaxWord ELSE ((v + a - 1) \div a) * a

normalizeGuestHeapAlignment(a) ==
    IF a \in PowersOfTwo /\ a > HeapAlign THEN a ELSE HeapAlign

\* An address beyond the memory is taken into it first.
clampGuestHeapBase(b) ==
    LET a == IF b >= RamSize THEN b % RamSize ELSE b
    IN  IF a < HeapHardLimit THEN a ELSE HeapHardLimit

clampGuestHeapLimit(l) == IF l = 0 \/ l > HeapHardLimit THEN HeapHardLimit ELSE l

EndOf(b) == b.addr + b.size

\* Where a request is placed in the free block b: as high as its alignment lets it.
TopFit(b, size, a) == ((EndOf(b) - size) \div a) * a

\* Mutant of Fits: whether the block is free is not asked.
FitsAny(b, size, a) == size <= b.size /\ TopFit(b, size, a) >= b.addr

Fits(b, size, a) == b.free /\ size <= b.size /\ TopFit(b, size, a) >= b.addr

\* First fit; the block falls into a prefix, the allocation and a suffix.
allocateGuestBlockLocked(bs, size, a) ==
    LET n    == alignGuestHeapValue(size, HeapAlign)
        fits == {i \in 1..Len(bs) : Fits(bs[i], n, a)}
    IN  IF size = 0 \/ size > MaxWord - (HeapAlign - 1) \/ fits = {}
        THEN [blocks |-> bs, addr |-> 0, size |-> 0]
        ELSE LET i     == CHOOSE k \in fits : \A j \in fits : k <= j
                 start == TopFit(bs[i], n, a)
                 rest(from, to) == IF from < to THEN <<[addr |-> from, size |-> to - from, free |-> TRUE]>>
                                   ELSE <<>>
             IN  [blocks |-> SubSeq(bs, 1, i - 1) \o rest(bs[i].addr, start)
                             \o <<[addr |-> start, size |-> n, free |-> FALSE]>>
                             \o rest(start + n, EndOf(bs[i])) \o SubSeq(bs, i + 1, Len(bs)),
                  addr |-> start, size |-> n]

\* The next block is joined to the last one, when both are free and touch.
Merged(acc, b) ==
    IF acc # <<>> /\ Last(acc).free /\ b.free /\ EndOf(Last(acc)) = b.addr
    THEN [acc EXCEPT ![Len(acc)].size = @ + b.size]
    ELSE Append(acc, b)

\* What has become of the first i blocks, for each i.
MergedUpTo(bs) ==
    LET acc[i \in 0..Len(bs)] == IF i = 0 THEN <<>> ELSE Merged(acc[i - 1], bs[i])
    IN  acc

coalesceGuestHeapLocked(bs) == MergedUpTo(bs)[Len(bs)]

\* findGuestHeapBlockIndexLocked; 0 for none.
findGuestHeapBlockIndexLocked(bs, addr) ==
    SelectInSeq(bs, LAMBDA b : ~b.free /\ b.addr = addr)

freeGuestBlockLocked(bs, addr) ==
    LET i == findGuestHeapBlockIndexLocked(bs, addr)
    IN  IF i = 0 THEN bs ELSE coalesceGuestHeapLocked([bs EXCEPT ![i].free = TRUE])

-----------------------------------------------------------------------------
\* c writes the words it was given; Free: nobody counts on what they hold.
Written(c, addr, size) == [w \in DOMAIN words |-> IF addr <= w /\ w < addr + size THEN c ELSE words[w]]

Higher(end) == IF end > heapEnd THEN end ELSE heapEnd

\* guestMalloc, guestCalloc: a request that fails returns 0 and changes nothing.
guestMalloc(c, size, align) ==
    /\ held[c].size = 0
    /\ LET r == allocateGuestBlockLocked(blocks, size, normalizeGuestHeapAlignment(align))
       IN  /\ r.addr # 0
           /\ blocks' = r.blocks
           /\ held' = [held EXCEPT ![c] = [addr |-> r.addr, size |-> r.size]]
           /\ words' = Written(c, r.addr, r.size)
           /\ heapEnd' = Higher(r.addr + r.size)
    /\ UNCHANGED <<heapBase, suggestedBase, limit, poolTop, stacks>>

guestFree(c) ==
    /\ held[c].size > 0
    /\ blocks' = freeGuestBlockLocked(blocks, held[c].addr)
    /\ held' = [held EXCEPT ![c] = Nothing]
    /\ words' = Written(Free, held[c].addr, held[c].size)
    /\ UNCHANGED <<heapBase, suggestedBase, limit, heapEnd, poolTop, stacks>>

\* Shrinks in place, grows into the next block, or moves and copies the words.
guestRealloc(c, size, align) ==
    LET i    == findGuestHeapBlockIndexLocked(blocks, held[c].addr)
        n    == alignGuestHeapValue(size, HeapAlign)
        old  == blocks[i]
        next == blocks[i + 1]
        room == i < Len(blocks) /\ next.free /\ EndOf(old) = next.addr /\ old.size + next.size >= n
        more == n - old.size
    IN  /\ held[c].size > 0 /\ size > 0 /\ size <= MaxWord - (HeapAlign - 1) /\ i > 0
        /\ \/ /\ n <= old.size
              /\ blocks' = IF n = old.size THEN blocks
                           ELSE coalesceGuestHeapLocked(
                                   SubSeq(blocks, 1, i - 1)
                                   \o <<[old EXCEPT !.size = n],
                                        [addr |-> old.addr + n, size |-> old.size - n, free |-> TRUE]>>
                                   \o SubSeq(blocks, i + 1, Len(blocks)))
              /\ held' = [held EXCEPT ![c].size = n]
              /\ words' = Written(Free, old.addr + n, old.size - n)
              /\ UNCHANGED heapEnd
           \/ /\ n > old.size /\ room /\ next.size > more
              /\ blocks' = [blocks EXCEPT ![i].size = n, ![i + 1].addr = @ + more,
                                          ![i + 1].size = @ - more]
              /\ held' = [held EXCEPT ![c].size = n]
              /\ words' = Written(c, EndOf(old), more)
              /\ heapEnd' = Higher(old.addr + n)
           \/ /\ n > old.size /\ room /\ next.size = more
              /\ blocks' = RemoveAt([blocks EXCEPT ![i].size = n], i + 1)
              /\ held' = [held EXCEPT ![c].size = n]
              /\ words' = Written(c, EndOf(old), more)
              /\ heapEnd' = Higher(old.addr + n)
           \/ /\ n > old.size /\ ~room
              /\ LET r == allocateGuestBlockLocked(blocks, size, normalizeGuestHeapAlignment(align))
                     copied == IF old.size < size THEN old.size ELSE size
                 IN  /\ r.addr # 0
                     /\ blocks' = freeGuestBlockLocked(r.blocks, old.addr)
                     /\ held' = [held EXCEPT ![c] = [addr |-> r.addr, size |-> r.size]]
                     /\ words' = [w \in DOMAIN words |->
                           IF w \in r.addr..(r.addr + copied - 1) THEN words[old.addr + (w - r.addr)]
                           ELSE IF w \in (r.addr + copied)..(r.addr + r.size - 1) THEN c
                           ELSE IF w \in old.addr..(EndOf(old) - 1) THEN Free
                           ELSE words[w]]
                     /\ heapEnd' = Higher(r.addr + r.size)
        /\ UNCHANGED <<heapBase, suggestedBase, limit, poolTop, stacks>>

\* configureGuestHeap, from SetupHeap: a base of 0 is the one suggested before, and a
\* limit that is not above the base the hard one.  The block list is laid out anew,
\* whatever is allocated: nobody holds a block of the new list.
configureGuestHeap(b, l) ==
    LET aligned == alignGuestHeapValue(clampGuestHeapBase(b), HeapAlign)
        from == IF aligned = 0 THEN suggestedBase ELSE aligned
        to == IF clampGuestHeapLimit(l) <= from THEN HeapHardLimit ELSE clampGuestHeapLimit(l)
    IN  /\ suggestedBase' = from
        /\ \/ /\ from < to
              /\ blocks' = <<[addr |-> from, size |-> to - from, free |-> TRUE]>>
              /\ heapBase' = from /\ limit' = to /\ heapEnd' = from
           \/ from >= to /\ blocks' = <<>> /\ heapBase' = 0 /\ limit' = 0 /\ heapEnd' = 0
        /\ held' = [c \in Clients |-> Nothing]
        /\ words' = [w \in DOMAIN words |-> Free]
        /\ UNCHANGED <<poolTop, stacks>>

\* reserveAsyncCallbackStack: nothing is ever given back.
carve(size, align) ==
    LET n    == alignGuestHeapValue(size, HeapAlign)
        base == ((poolTop - n) \div align) * align
    IN  /\ size > 0 /\ poolTop > n /\ base >= PoolFloor /\ base < poolTop
        /\ poolTop' = base
        /\ stacks' = stacks \cup {<<base, poolTop>>}
        /\ UNCHANGED <<blocks, heapBase, suggestedBase, limit, heapEnd, held, words>>

-----------------------------------------------------------------------------
\* ensureGuestHeapInitializedLocked has run.
HeapInit ==
    /\ blocks = <<[addr |-> HeapBase, size |-> HeapHardLimit - HeapBase, free |-> TRUE]>>
    /\ heapBase = HeapBase /\ suggestedBase = HeapBase /\ limit = HeapHardLimit
    /\ heapEnd = HeapBase
    /\ held = [c \in Clients |-> Nothing]
    /\ words = [w \in 0..HeapHardLimit |-> Free]
    /\ poolTop = PoolTop /\ stacks = {}

HeapNext ==
    \/ \E c \in Clients :
          \/ guestFree(c)
          \/ \E size \in HeapSizes, align \in HeapAligns :
                guestMalloc(c, size, align) \/ guestRealloc(c, size, align)
    \/ \E b \in HeapBases, l \in HeapLimits : configureGuestHeap(b, l)
    \/ \E size \in HeapSizes, align \in HeapAligns : carve(size, normalizeGuestHeapAlignment(align))

-----------------------------------------------------------------------------
(* Properties *)

\* Whoever holds a block finds in it what it wrote, through every malloc, free
\* and realloc of the others and through its own reallocs: no two blocks
\* overlap, and a move carries the words along (ps2_runtime.cpp 2319-2568).
ContentsKept ==
    \A c \in Clients : \A w \in held[c].addr..(held[c].addr + held[c].size - 1) : words[w] = c

\* The list tiles the heap from base to limit, what is not held is free, and no
\* two free blocks are neighbours, so that what was freed can be had again in
\* one piece (ps2_runtime.cpp 2394-2427).
HeapTiled ==
    /\ IF blocks = <<>> THEN heapBase = limit
       ELSE blocks[1].addr = heapBase /\ EndOf(Last(blocks)) = limit
    /\ \A i \in 1..(Len(blocks) - 1) :
          EndOf(blocks[i]) = blocks[i + 1].addr /\ ~(blocks[i].free /\ blocks[i + 1].free)
    /\ {[addr |-> b.addr, size |-> b.size] : b \in {x \in ToSet(blocks) : ~x.free}}
       = {held[c] : c \in {d \in Clients : held[d].size > 0}}

\* The callback stacks are disjoint and stay within the kernel's pool
\* (ps2_runtime.cpp 2613-2654).
StacksDisjoint ==
    \A s \in stacks : /\ PoolFloor <= s[1] /\ s[2] <= PoolTop
                      /\ \A r \in stacks : r = s \/ r[2] <= s[1] \/ s[2] <= r[1]

\* What the allocator and the pool keep, whatever their callers ask for.
HeapSound == ContentsKept /\ HeapTiled /\ StacksDisjoint
=============================================================================
