-------------------------- MODULE AbstractSemaphore --------------------------
(***************************************************************************)
(* What a counting semaphore promises its callers, with no list, no park   *)
(* and no thread status: a wait that succeeds takes one permit, at the     *)
(* step in which it succeeds; a wait that fails takes none; a signal adds  *)
(* one up to the limit; and a deleted semaphore grants nothing more.       *)
(***************************************************************************)
EXTENDS Integers

CONSTANTS Clients

VARIABLES
    value,    \* permits
    limit,    \* most permits; 0 before the semaphore exists
    alive,    \* it exists and is not deleted
    waiting,  \* clients in a wait
    outcome   \* what a client's last wait on this semaphore ended with

svars == <<value, limit, alive, waiting, outcome>>

Create ==
    /\ limit = 0
    /\ limit' \in Nat \ {0} /\ value' \in 0..limit'
    /\ alive' = TRUE
    /\ UNCHANGED <<waiting, outcome>>

Delete ==
    /\ alive /\ alive' = FALSE
    /\ UNCHANGED <<value, limit, waiting, outcome>>

Signal ==
    /\ alive /\ value < limit
    /\ value' = value + 1
    /\ UNCHANGED <<limit, alive, waiting, outcome>>

\* A permit is taken by a poll, or by a client without an identity.
TakeAnonymously ==
    /\ alive /\ value > 0
    /\ value' = value - 1
    /\ UNCHANGED <<limit, alive, waiting, outcome>>

BeginWait(c) ==
    /\ alive /\ value = 0 /\ c \notin waiting
    /\ waiting' = waiting \cup {c}
    /\ outcome' = [outcome EXCEPT ![c] = "none"]
    /\ UNCHANGED <<value, limit, alive>>

\* At once or after a wait.
Succeed(c) ==
    /\ alive /\ value > 0
    /\ value' = value - 1
    /\ waiting' = waiting \ {c}
    /\ outcome' = [outcome EXCEPT ![c] = "KE_OK"]
    /\ UNCHANGED <<limit, alive>>

\* Released, deleted under the client, or the client's thread ended.
Fail(c) ==
    /\ c \in waiting
    /\ waiting' = waiting \ {c}
    /\ \E r \in {"none", "KE_RELEASE_WAIT", "KE_WAIT_DELETE"} :
          /\ r = "KE_WAIT_DELETE" => ~alive
          /\ outcome' = [outcome EXCEPT ![c] = r]
    /\ UNCHANGED <<value, limit, alive>>

\* The client's last wait is one on something else.
Forget(c) ==
    /\ c \notin waiting
    /\ outcome' = [outcome EXCEPT ![c] = "none"]
    /\ UNCHANGED <<value, limit, alive, waiting>>

AInit ==
    /\ value = 0 /\ limit = 0 /\ alive = FALSE
    /\ waiting = {} /\ outcome = [c \in Clients |-> "none"]

ANext ==
    \/ Create \/ Delete \/ Signal \/ TakeAnonymously
    \/ \E c \in Clients : BeginWait(c) \/ Succeed(c) \/ Fail(c) \/ Forget(c)

ASpec == AInit /\ [][ANext]_svars
=============================================================================
