--------------------------- MODULE RunQueueProofs ---------------------------
(***************************************************************************)
(* What the run queue's operations keep, for every queue and every number  *)
(* of fibers: proofs about the operators of RunQueue.  And the induction   *)
(* the proofs about data rest on, taken over sets of positions: what holds *)
(* at 0 and is passed on holds up to n, and a function defined step by     *)
(* step exists and has the type of its steps.                              *)
(***************************************************************************)
EXTENDS RunQueue, TLAPS, SequenceTheorems, WellFoundedInduction

\* A nonempty set of positions has a least element, and Min is it.
LEMMA MinPosition ==
    ASSUME NEW S \in SUBSET Nat, S # {}
    PROVE  Min(S) \in S /\ \A x \in S : Min(S) <= x
<1> DEFINE R == {ss \in Nat \X Nat : ss[1] < ss[2]}
<1>1. OpToRel(<, Nat) = R
  BY Zenon DEF OpToRel
<1>2. IsWellFoundedOn(R, Nat)
  BY <1>1, NatLessThanWellFounded, Zenon
<1>3. PICK x \in S : \A y \in S : ~(<<y, x>> \in R)
  <2>. HIDE DEF R
  <2>. QED  BY <1>2, WFMin
<1>4. ASSUME NEW y \in S PROVE x <= y
  <2>1. <<y, x>> \in Nat \X Nat /\ <<y, x>>[1] = y /\ <<y, x>>[2] = x
    OBVIOUS
  <2>2. y < x => <<y, x>> \in R
    BY <2>1, Zenon
  <2>. HIDE DEF R
  <2>. QED  BY <1>3, <2>2
<1>. QED
  BY <1>4 DEF Min

\* What holds at 0 and is passed on by each step holds up to n.
LEMMA Upwards ==
    ASSUME NEW n \in Nat, NEW S, 0 \in S, \A i \in 1..n : i - 1 \in S => i \in S
    PROVE  \A i \in 0..n : i \in S
<1> DEFINE Bad == {i \in 0..n : i \notin S}
<1>1. ASSUME Bad # {} PROVE FALSE
  <2>1. Min(Bad) \in Bad /\ \A j \in Bad : Min(Bad) <= j
    BY <1>1, MinPosition, Bad \in SUBSET Nat
  <2>. QED  BY <2>1
<1>. QED  BY <1>1

\* f is v0 at first and step takes each value to the next.
Stepwise(f, n, v0, step) == f[0] = v0 /\ \A i \in 1..n : f[i] = step[i][f[i - 1]]

\* A function that is defined step by step exists.
LEMMA Recursion ==
    ASSUME NEW n \in Nat, NEW V, NEW v0 \in V, NEW step \in [1..n -> [V -> V]]
    PROVE  \E f \in [0..n -> V] : Stepwise(f, n, v0, step)
<1> DEFINE Upto(k) == \E f \in [0..k -> V] : f[0] = v0 /\ \A i \in 1..k : f[i] = step[i][f[i - 1]]
           Good == {k \in 0..n : Upto(k)}
<1>1. Upto(0)
  <2>1. PICK f : f = [i \in 0..0 |-> v0]
    OBVIOUS
  <2>2. f \in [0..0 -> V] /\ f[0] = v0
    BY <2>1
  <2>. QED  BY <2>2
<1>2. ASSUME NEW k \in 1..n, Upto(k - 1) PROVE Upto(k)
  <2>1. PICK f \in [0..k - 1 -> V] : f[0] = v0 /\ \A i \in 1..k - 1 : f[i] = step[i][f[i - 1]]
    BY <1>2
  <2>2. PICK g : g = [i \in 0..k |-> IF i = k THEN step[k][f[k - 1]] ELSE f[i]]
    OBVIOUS
  <2>3. g \in [0..k -> V] /\ g[0] = v0 /\ \A i \in 1..k : g[i] = step[i][g[i - 1]]
    BY <2>1, <2>2
  <2>. QED  BY <2>3
<1>. HIDE DEF Upto
<1>3. \A k \in 0..n : k \in Good
  <2>1. 0 \in Good /\ \A k \in 1..n : k - 1 \in Good => k \in Good
    BY <1>1, <1>2
  <2>. HIDE DEF Good
  <2>. QED  BY <2>1, Upwards
<1>. QED  BY <1>3 DEF Upto, Stepwise

\* The values of a function are where its first is and its steps stay.
LEMMA StepwiseType ==
    ASSUME NEW n \in Nat, NEW V, NEW f, f = [i \in 0..n |-> f[i]],
           f[0] \in V, \A i \in 1..n : f[i - 1] \in V => f[i] \in V
    PROVE  f \in [0..n -> V]
<1> DEFINE Good == {i \in 0..n : f[i] \in V}
<1>1. 0 \in Good /\ \A i \in 1..n : i - 1 \in Good => i \in Good
  OBVIOUS
<1>2. \A i \in 0..n : i \in Good
  <2>. HIDE DEF Good
  <2>. QED  BY <1>1, Upwards
<1>. QED  BY <1>2

\* InsertAt, position by position.
LEMMA InsertAtPointwise ==
    ASSUME NEW F, NEW q \in Seq(F), NEW f \in F, NEW i \in 1..Len(q) + 1
    PROVE  /\ InsertAt(q, i, f) \in Seq(F)
           /\ Len(InsertAt(q, i, f)) = Len(q) + 1
           /\ \A j \in 1..Len(q) + 1 :
                 InsertAt(q, i, f)[j] = IF j < i THEN q[j]
                                        ELSE IF j = i THEN f ELSE q[j - 1]
<1> DEFINE l == SubSeq(q, 1, i - 1)
           r == SubSeq(q, i, Len(q))
<1>1. /\ l \in Seq(F) /\ Len(l) = i - 1
      /\ \A j \in 1..i - 1 : l[j] = q[j]
  BY SubSeqProperties, \A j \in 1..i - 1 : q[j] \in F
<1>2. /\ r \in Seq(F) /\ Len(r) = Len(q) - i + 1
      /\ \A j \in 1..Len(q) - i + 1 : r[j] = q[i + j - 1]
  BY SubSeqProperties, \A j \in i..Len(q) : q[j] \in F
<1>. HIDE DEF l, r
<1>3. /\ l \o <<f>> \in Seq(F) /\ Len(l \o <<f>>) = i
      /\ \A j \in 1..i : (l \o <<f>>)[j] = IF j <= i - 1 THEN l[j] ELSE f
  BY <1>1
<1>4. /\ (l \o <<f>>) \o r \in Seq(F)
      /\ Len((l \o <<f>>) \o r) = i + Len(r)
      /\ \A j \in 1..i + Len(r) : ((l \o <<f>>) \o r)[j]
                                    = IF j <= i THEN (l \o <<f>>)[j] ELSE r[j - i]
  BY <1>2, <1>3, ConcatProperties, SMTT(30)
<1>5. InsertAt(q, i, f) = (l \o <<f>>) \o r
  BY DEF InsertAt, l, r
<1>. QED
  BY <1>1, <1>2, <1>3, <1>4, <1>5

\* RemoveAt, position by position.
LEMMA RemoveAtPointwise ==
    ASSUME NEW F, NEW q \in Seq(F), NEW i \in 1..Len(q)
    PROVE  /\ RemoveAt(q, i) \in Seq(F)
           /\ Len(RemoveAt(q, i)) = Len(q) - 1
           /\ \A j \in 1..Len(q) - 1 :
                 RemoveAt(q, i)[j] = IF j < i THEN q[j] ELSE q[j + 1]
<1> DEFINE l == SubSeq(q, 1, i - 1)
           r == SubSeq(q, i + 1, Len(q))
<1>1. /\ l \in Seq(F) /\ Len(l) = i - 1
      /\ \A j \in 1..i - 1 : l[j] = q[j]
  BY SubSeqProperties, \A j \in 1..i - 1 : q[j] \in F
<1>2. /\ r \in Seq(F) /\ Len(r) = Len(q) - i
      /\ \A j \in 1..Len(q) - i : r[j] = q[i + j]
  BY SubSeqProperties, \A j \in i + 1..Len(q) : q[j] \in F
<1>. HIDE DEF l, r
<1>3. /\ l \o r \in Seq(F)
      /\ Len(l \o r) = Len(l) + Len(r)
      /\ \A j \in 1..Len(l) + Len(r) : (l \o r)[j] = IF j <= Len(l) THEN l[j]
                                                     ELSE r[j - Len(l)]
  BY <1>1, <1>2, ConcatProperties
<1>4. RemoveAt(q, i) = l \o r
  BY DEF RemoveAt, l, r
<1>5. ASSUME NEW j \in 1..Len(q) - 1
      PROVE  (l \o r)[j] = IF j < i THEN q[j] ELSE q[j + 1]
  <2>1. CASE j < i
    BY <2>1, <1>1, <1>2, <1>3
  <2>2. CASE ~(j < i)
    <3>1. j - Len(l) \in 1..Len(q) - i /\ i + (j - Len(l)) = j + 1
      BY <2>2, <1>1
    <3>2. (l \o r)[j] = r[j - Len(l)]
      BY <2>2, <1>1, <1>2, <1>3
    <3>. QED  BY <2>2, <3>1, <3>2, <1>2
  <2>. QED  BY <2>1, <2>2
<1>6. l \o r \in Seq(F) /\ Len(l \o r) = Len(q) - 1
  BY <1>1, <1>2, <1>3
<1>. QED
  BY <1>4, <1>5, <1>6, Zenon

-----------------------------------------------------------------------------
\* enqueue_locked: the queue stays sorted and free of duplicates, and gains
\* exactly the new node.
LEMMA EnqueueKeeps ==
    ASSUME NEW F, NEW q \in Seq(F), NEW f \in F, NEW pr \in [F -> Int],
           Sorted(q, pr), NoDuplicates(q)
    PROVE  /\ Enqueue(q, pr, f) \in Seq(F)
           /\ Sorted(Enqueue(q, pr, f), pr)
           /\ NoDuplicates(Enqueue(q, pr, f))
           /\ \A g : InRunQueue(Enqueue(q, pr, f), g) <=> InRunQueue(q, g) \/ g = f
<1>1. CASE InRunQueue(q, f)
  BY <1>1 DEF Enqueue
<1>2. CASE ~InRunQueue(q, f)
  <2> DEFINE worse == {i \in 1..Len(q) : pr[q[i]] > pr[f]}
             k == InsertPosition(q, pr, f)
             e == InsertAt(q, k, f)
  <2>1. /\ k \in 1..Len(q) + 1
        /\ \A i \in 1..Len(q) : i < k => pr[q[i]] <= pr[f]
        /\ \A i \in 1..Len(q) : i >= k => pr[q[i]] > pr[f]
    <3>1. CASE worse = {}
      <4>1. k = Len(q) + 1
        BY <3>1 DEF InsertPosition
      <4>. QED  BY <3>1, <4>1
    <3>2. CASE worse # {}
      <4>1. k = Min(worse)
        BY <3>2 DEF InsertPosition
      <4>2. worse \in SUBSET Nat
        OBVIOUS
      <4>3. k \in worse /\ \A i \in worse : k <= i
        BY <3>2, <4>1, <4>2, MinPosition
      <4>. QED  BY <4>3, SMTT(30) DEF Sorted
    <3>. QED  BY <3>1, <3>2
  <2>. HIDE DEF k
  <2>2. /\ e \in Seq(F) /\ Len(e) = Len(q) + 1
        /\ \A j \in 1..Len(q) + 1 :
              e[j] = IF j < k THEN q[j] ELSE IF j = k THEN f ELSE q[j - 1]
    BY <2>1, InsertAtPointwise
  <2>3. Enqueue(q, pr, f) = e
    BY <1>2 DEF Enqueue, k
  <2>. HIDE DEF e
  <2> DEFINE old(j) == IF j < k THEN j ELSE j - 1
  <2>o. ASSUME NEW j \in 1..Len(e), j # k
        PROVE  old(j) \in 1..Len(q) /\ e[j] = q[old(j)]
    BY <2>o, <2>1, <2>2, SMTT(30)
  <2>n. k \in 1..Len(e) /\ e[k] = f
    BY <2>1, <2>2
  <2>4. Sorted(e, pr)
    <3>1. SUFFICES ASSUME NEW i \in 1..Len(e), NEW j \in 1..Len(e), i < j
                   PROVE  pr[e[i]] <= pr[e[j]]
      BY DEF Sorted
    <3>2. CASE i = k
      <4>1. old(j) \in 1..Len(q) /\ e[j] = q[old(j)] /\ old(j) >= k
        BY <3>1, <3>2, <2>o, <2>1, <2>2
      <4>2. pr[q[old(j)]] > pr[f]
        BY <4>1, <2>1
      <4>3. pr[f] \in Int /\ pr[q[old(j)]] \in Int
        BY <4>1
      <4>. QED  BY <3>2, <4>1, <4>2, <4>3, <2>n
    <3>3. CASE j = k
      <4>1. old(i) \in 1..Len(q) /\ e[i] = q[old(i)] /\ old(i) < k
        BY <3>1, <3>3, <2>o, <2>1, <2>2
      <4>. QED  BY <3>3, <4>1, <2>1, <2>n
    <3>4. CASE i # k /\ j # k
      <4>1. /\ old(i) \in 1..Len(q) /\ e[i] = q[old(i)]
            /\ old(j) \in 1..Len(q) /\ e[j] = q[old(j)]
        BY <3>4, <2>o
      <4>2. old(i) < old(j)
        BY <3>1, <3>4, <2>1, <2>2, SMTT(30)
      <4>. QED  BY <4>1, <4>2 DEF Sorted
    <3>. QED  BY <3>2, <3>3, <3>4
  <2>5. NoDuplicates(e)
    <3>1. SUFFICES ASSUME NEW i \in 1..Len(e), NEW j \in 1..Len(e), i # j
                   PROVE  e[i] # e[j]
      BY DEF NoDuplicates
    <3>2. \A x \in 1..Len(q) : q[x] # f
      BY <1>2 DEF InRunQueue
    <3>3. CASE i = k \/ j = k
      BY <3>1, <3>2, <3>3, <2>o, <2>n, SMTT(30)
    <3>4. CASE i # k /\ j # k
      <4>1. old(i) # old(j)
        BY <3>1, <3>4, <2>1, <2>2, SMTT(30)
      <4>. QED  BY <3>4, <4>1, <2>o DEF NoDuplicates
    <3>. QED  BY <3>3, <3>4
  <2>6. ASSUME NEW g PROVE InRunQueue(e, g) <=> InRunQueue(q, g) \/ g = f
    <3>1. ASSUME NEW i \in 1..Len(q) PROVE \E j \in 1..Len(e) : e[j] = q[i]
      <4>1. CASE i < k
        <5>1. i \in 1..Len(e) /\ e[i] = q[i]
          BY <4>1, <2>1, <2>2
        <5>. QED  BY <5>1
      <4>2. CASE ~(i < k)
        <5>1. i + 1 \in 1..Len(q) + 1 /\ ~(i + 1 < k) /\ i + 1 # k /\ (i + 1) - 1 = i
          BY <4>2, <2>1
        <5>2. e[i + 1] = q[(i + 1) - 1]
          BY <5>1, <2>2
        <5>. QED  BY <5>1, <5>2, <2>2
      <4>. QED  BY <4>1, <4>2
    <3>2. \A j \in 1..Len(e) : e[j] = f \/ \E i \in 1..Len(q) : e[j] = q[i]
      BY <2>o, <2>n
    <3>3. k \in 1..Len(e) /\ e[k] = f
      BY <2>1, <2>2
    <3>. QED  BY <3>1, <3>2, <3>3 DEF InRunQueue
  <2>. QED  BY <2>2, <2>3, <2>4, <2>5, <2>6
<1>. QED  BY <1>1, <1>2

\* remove_locked: the queue stays sorted and free of duplicates, and loses
\* exactly the node.
LEMMA UnlinkKeeps ==
    ASSUME NEW F, NEW q \in Seq(F), NEW f \in F, NEW pr \in [F -> Int],
           Sorted(q, pr), NoDuplicates(q)
    PROVE  /\ Unlink(q, f) \in Seq(F)
           /\ Sorted(Unlink(q, f), pr)
           /\ NoDuplicates(Unlink(q, f))
           /\ \A g : InRunQueue(Unlink(q, f), g) <=> InRunQueue(q, g) /\ g # f
<1>1. CASE ~InRunQueue(q, f)
  BY <1>1 DEF Unlink, InRunQueue
<1>2. CASE InRunQueue(q, f)
  <2> DEFINE at == {i \in 1..Len(q) : q[i] = f}
             k == Min(at)
             e == RemoveAt(q, k)
  <2>1. k \in 1..Len(q) /\ q[k] = f
    <3>1. at \in SUBSET Nat /\ at # {}
      BY <1>2 DEF InRunQueue
    <3>2. k \in at
      BY <3>1, MinPosition
    <3>. QED  BY <3>2
  <2>. HIDE DEF k
  <2>2. /\ e \in Seq(F) /\ Len(e) = Len(q) - 1
        /\ \A j \in 1..Len(q) - 1 : e[j] = IF j < k THEN q[j] ELSE q[j + 1]
    BY <2>1, RemoveAtPointwise
  <2>3. Unlink(q, f) = e
    BY <1>2 DEF Unlink, k
  <2>. HIDE DEF e
  <2> DEFINE old(j) == IF j < k THEN j ELSE j + 1
  <2>o. ASSUME NEW j \in 1..Len(e)
        PROVE  old(j) \in 1..Len(q) /\ e[j] = q[old(j)] /\ old(j) # k
    BY <2>1, <2>2, SMTT(30)
  <2>4. Sorted(e, pr)
    <3>1. SUFFICES ASSUME NEW i \in 1..Len(e), NEW j \in 1..Len(e), i < j
                   PROVE  pr[e[i]] <= pr[e[j]]
      BY DEF Sorted
    <3>2. old(i) < old(j)
      <4>1. i \in Int /\ j \in Int /\ k \in Int
        BY <2>1
      <4>. QED  BY <3>1, <4>1
    <3>. QED  BY <3>2, <2>o DEF Sorted
  <2>5. NoDuplicates(e)
    <3>1. SUFFICES ASSUME NEW i \in 1..Len(e), NEW j \in 1..Len(e), i # j
                   PROVE  e[i] # e[j]
      BY DEF NoDuplicates
    <3>2. old(i) # old(j)
      <4>1. i \in Int /\ j \in Int /\ k \in Int
        BY <2>1
      <4>. QED  BY <3>1, <4>1
    <3>. QED  BY <3>2, <2>o DEF NoDuplicates
  <2>6. ASSUME NEW g PROVE InRunQueue(e, g) <=> InRunQueue(q, g) /\ g # f
    <3>1. ASSUME NEW i \in 1..Len(q), i # k PROVE \E j \in 1..Len(e) : e[j] = q[i]
      <4>1. CASE i < k
        <5>1. i \in 1..Len(e) /\ e[i] = q[i]
          BY <4>1, <2>1, <2>2, SMTT(30)
        <5>. QED  BY <5>1
      <4>2. CASE i > k
        <5>1. i - 1 \in 1..Len(e) /\ e[i - 1] = q[i]
          BY <4>2, <2>1, <2>2
        <5>. QED  BY <5>1
      <4>. QED  BY <3>1, <4>1, <4>2, <2>1
    <3>2. \A j \in 1..Len(e) : \E i \in 1..Len(q) : i # k /\ e[j] = q[i]
      BY <2>o
    <3>3. \A i \in 1..Len(q) : i # k => q[i] # f
      BY <2>1 DEF NoDuplicates
    <3>. QED  BY <2>1, <3>1, <3>2, <3>3 DEF InRunQueue
  <2>. QED  BY <2>2, <2>3, <2>4, <2>5, <2>6
<1>. QED  BY <1>1, <1>2

\* pop_head_locked: the rest of the queue is still sorted and loses the head only.
LEMMA TailKeeps ==
    ASSUME NEW F, NEW q \in Seq(F), NEW pr \in [F -> Int], q # <<>>,
           Sorted(q, pr), NoDuplicates(q)
    PROVE  /\ Head(q) \in F /\ Tail(q) \in Seq(F)
           /\ Sorted(Tail(q), pr)
           /\ NoDuplicates(Tail(q))
           /\ InRunQueue(q, Head(q))
           /\ \A g : InRunQueue(Tail(q), g) <=> InRunQueue(q, g) /\ g # Head(q)
<1>1. /\ Len(q) >= 1 /\ Head(q) = q[1] /\ Head(q) \in F
      /\ Tail(q) \in Seq(F) /\ Len(Tail(q)) = Len(q) - 1
      /\ \A i \in 1..Len(q) - 1 : Tail(q)[i] = q[i + 1]
  OBVIOUS
<1> DEFINE t == Tail(q)
<1>. HIDE DEF t
<1>t. /\ t \in Seq(F) /\ Len(t) = Len(q) - 1
      /\ \A i \in 1..Len(t) : i + 1 \in 1..Len(q) /\ t[i] = q[i + 1]
  BY <1>1 DEF t
<1>2. Sorted(t, pr)
  <2>1. SUFFICES ASSUME NEW i \in 1..Len(t), NEW j \in 1..Len(t), i < j
                 PROVE  pr[t[i]] <= pr[t[j]]
    BY DEF Sorted
  <2>2. i + 1 < j + 1
    BY <2>1
  <2>. QED  BY <2>2, <1>t DEF Sorted
<1>3. NoDuplicates(t)
  <2>1. SUFFICES ASSUME NEW i \in 1..Len(t), NEW j \in 1..Len(t), i # j
                 PROVE  t[i] # t[j]
    BY DEF NoDuplicates
  <2>2. i + 1 # j + 1
    BY <2>1
  <2>. QED  BY <2>2, <1>t DEF NoDuplicates
<1>4. InRunQueue(q, Head(q))
  BY <1>1 DEF InRunQueue
<1>5. ASSUME NEW g PROVE InRunQueue(t, g) <=> InRunQueue(q, g) /\ g # Head(q)
  <2>1. ASSUME NEW i \in 1..Len(q), i # 1 PROVE \E j \in 1..Len(t) : t[j] = q[i]
    <3>1. i - 1 \in 1..Len(t) /\ t[i - 1] = q[i]
      BY <1>t, <2>1
    <3>. QED  BY <3>1
  <2>2. \A j \in 1..Len(t) : \E i \in 1..Len(q) : i # 1 /\ t[j] = q[i]
    <3>1. SUFFICES ASSUME NEW j \in 1..Len(t)
                   PROVE  \E i \in 1..Len(q) : i # 1 /\ t[j] = q[i]
      OBVIOUS
    <3>2. j + 1 \in 1..Len(q) /\ j + 1 # 1 /\ t[j] = q[j + 1]
      BY <1>t
    <3>. QED  BY <3>2
  <2>3. \A i \in 1..Len(q) : i # 1 => q[i] # Head(q)
    BY <1>1 DEF NoDuplicates
  <2>4. ASSUME InRunQueue(q, g), g # Head(q) PROVE InRunQueue(t, g)
    <3>1. PICK i \in 1..Len(q) : q[i] = g
      BY <2>4 DEF InRunQueue
    <3>2. i # 1
      BY <1>1, <2>4, <3>1
    <3>. QED  BY <2>1, <3>1, <3>2 DEF InRunQueue
  <2>5. ASSUME InRunQueue(t, g) PROVE InRunQueue(q, g) /\ g # Head(q)
    BY <2>2, <2>3, <2>5 DEF InRunQueue
  <2>. QED  BY <2>4, <2>5
<1>. QED  BY <1>1, <1>2, <1>3, <1>4, <1>5 DEF t

\* A change of the priority of a fiber that is not queued leaves the order.
LEMMA SortedOffQueue ==
    ASSUME NEW F, NEW q \in Seq(F), NEW pr \in [F -> Int], NEW pr2 \in [F -> Int],
           Sorted(q, pr), \A g \in F : InRunQueue(q, g) => pr2[g] = pr[g]
    PROVE  Sorted(q, pr2)
<1>1. \A i \in 1..Len(q) : q[i] \in F /\ pr2[q[i]] = pr[q[i]]
  BY DEF InRunQueue
<1>. QED  BY <1>1 DEF Sorted

\* rotate_ready_queue only reorders fibers of one priority: the queue stays
\* sorted and free of duplicates and holds the same fibers.
LEMMA RotateKeeps ==
    ASSUME NEW F, NEW q \in Seq(F), NEW p \in Int, NEW pr \in [F -> Int],
           Sorted(q, pr), NoDuplicates(q)
    PROVE  /\ Rotate(q, pr, p) \in Seq(F)
           /\ Sorted(Rotate(q, pr, p), pr)
           /\ NoDuplicates(Rotate(q, pr, p))
           /\ \A g : InRunQueue(Rotate(q, pr, p), g) <=> InRunQueue(q, g)
<1> DEFINE atP == {x \in 1..Len(q) : pr[q[x]] = p}
           i == Min(atP)
           v == q[i]
           rest == RemoveAt(q, i)
           past == {j \in i..Len(rest) : pr[rest[j]] # p}
<1>1. CASE atP = {}
  <2>1. Rotate(q, pr, p) = q
    BY <1>1 DEF Rotate
  <2>. QED  BY <2>1
<1>2. CASE atP # {}
  <2>1. /\ i \in 1..Len(q) /\ pr[v] = p /\ v \in F
        /\ \A x \in 1..Len(q) : pr[q[x]] = p => i <= x
    <3>1. atP \in SUBSET Nat
      OBVIOUS
    <3>2. i \in atP /\ \A x \in atP : i <= x
      BY <1>2, <3>1, MinPosition
    <3>. QED  BY <3>2
  <2>2. Rotate(q, pr, p) = InsertAt(rest, IF past = {} THEN Len(rest) + 1 ELSE Min(past), v)
    BY <1>2 DEF Rotate
  <2>3. Unlink(q, v) = rest
    <3>1. {x \in 1..Len(q) : q[x] = v} = {i}
      BY <2>1 DEF NoDuplicates
    <3>2. {i} \in SUBSET Nat /\ {i} # {}
      BY <2>1
    <3>3. Min({i}) = i
      BY <3>2, MinPosition
    <3>4. InRunQueue(q, v)
      BY <2>1 DEF InRunQueue
    <3>. QED  BY <3>1, <3>3, <3>4, Zenon DEF Unlink
  <2>. HIDE DEF i
  <2>4. /\ rest \in Seq(F) /\ Len(rest) = Len(q) - 1
        /\ \A j \in 1..Len(q) - 1 : rest[j] = IF j < i THEN q[j] ELSE q[j + 1]
    BY <2>1, RemoveAtPointwise
  <2>. HIDE DEF rest
  <2>5. {j \in 1..Len(rest) : pr[rest[j]] > pr[v]} = past
    <3>1. ASSUME NEW j \in 1..Len(rest), j < i PROVE ~(pr[rest[j]] > p)
      <4>1. j \in 1..Len(q) /\ rest[j] = q[j]
        BY <3>1, <2>1, <2>4
      <4>2. pr[q[j]] <= pr[v]
        BY <3>1, <4>1, <2>1 DEF Sorted
      <4>3. pr[q[j]] \in Int
        BY <4>1
      <4>. QED  BY <4>1, <4>2, <4>3, <2>1
    <3>2. ASSUME NEW j \in 1..Len(rest), j >= i PROVE pr[rest[j]] > p <=> pr[rest[j]] # p
      <4>1. j + 1 \in 1..Len(q) /\ rest[j] = q[j + 1]
        BY <3>2, <2>1, <2>4
      <4>2. i < j + 1
        BY <3>2, <2>1
      <4>3. pr[v] <= pr[q[j + 1]]
        BY <4>1, <4>2, <2>1 DEF Sorted
      <4>4. pr[q[j + 1]] \in Int
        BY <4>1
      <4>. QED  BY <4>1, <4>3, <4>4, <2>1
    <3>3. \A j : j \in i..Len(rest) <=> j \in 1..Len(rest) /\ j >= i
      BY <2>1, <2>4
    <3>4. \A j \in 1..Len(rest) : j < i \/ j >= i
      BY <2>1
    <3>. HIDE DEF v
    <3>. QED  BY <2>1, <3>1, <3>2, <3>3, <3>4
  <2>6. /\ Sorted(rest, pr) /\ NoDuplicates(rest)
        /\ \A g : InRunQueue(rest, g) <=> InRunQueue(q, g) /\ g # v
    BY <2>1, <2>3, UnlinkKeeps
  <2>7. Rotate(q, pr, p) = Enqueue(rest, pr, v)
    BY <2>2, <2>5, <2>6, Zenon DEF Enqueue, InsertPosition
  <2>8. InRunQueue(q, v)
    BY <2>1 DEF InRunQueue
  <2>. HIDE DEF v
  <2>9. /\ Enqueue(rest, pr, v) \in Seq(F)
        /\ Sorted(Enqueue(rest, pr, v), pr)
        /\ NoDuplicates(Enqueue(rest, pr, v))
        /\ \A g : InRunQueue(Enqueue(rest, pr, v), g) <=> InRunQueue(rest, g) \/ g = v
    BY <2>1, <2>4, <2>6, EnqueueKeeps
  <2>. QED  BY <2>6, <2>7, <2>8, <2>9
<1>. QED  BY <1>1, <1>2
=============================================================================
