------------------------------ MODULE RunQueue ------------------------------
(***************************************************************************)
(* The run queue of ps2_scheduler_internal.h: an intrusive list of fibers  *)
(* in priority order, a lower number being a higher priority, FIFO among   *)
(* equals.  The list is a sequence of fiber identifiers and pr gives each  *)
(* fiber's priority field.                                                 *)
(***************************************************************************)
EXTENDS Integers, Sequences, FiniteSets, FiniteSetsExt, SequencesExt

InRunQueue(q, f) == \E i \in 1..Len(q) : q[i] = f

\* Where enqueue_locked's walk stops: before the first node of a strictly
\* larger priority number.
InsertPosition(q, pr, f) ==
    LET worse == {i \in 1..Len(q) : pr[q[i]] > pr[f]}
    IN  IF worse = {} THEN Len(q) + 1 ELSE Min(worse)

\* Mutant of Enqueue: the new node goes last, whatever its priority.
EnqueueLast(q, pr, f) == IF InRunQueue(q, f) THEN q ELSE Append(q, f)

\* enqueue_locked on the list alone: idempotent, stable.
Enqueue(q, pr, f) ==
    IF InRunQueue(q, f) THEN q ELSE InsertAt(q, InsertPosition(q, pr, f), f)

\* remove_locked on the list alone: unlinks f if it is there.
Unlink(q, f) ==
    IF InRunQueue(q, f) THEN RemoveAt(q, Min({i \in 1..Len(q) : q[i] = f})) ELSE q

\* rotate_ready_queue: the first node of priority p moves behind the run of
\* nodes of priority p that follows it.
Rotate(q, pr, p) ==
    LET atP  == {i \in 1..Len(q) : pr[q[i]] = p}
        i    == Min(atP)
        rest == RemoveAt(q, i)
        past == {j \in i..Len(rest) : pr[rest[j]] # p}
    IN  IF atP = {} THEN q
        ELSE InsertAt(rest, IF past = {} THEN Len(rest) + 1 ELSE Min(past), q[i])

-----------------------------------------------------------------------------
Sorted(q, pr) ==
    \A i, j \in 1..Len(q) : i < j => pr[q[i]] <= pr[q[j]]

NoDuplicates(q) == \A i, j \in 1..Len(q) : i # j => q[i] # q[j]
=============================================================================
