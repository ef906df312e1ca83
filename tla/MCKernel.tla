------------------------------ MODULE MCKernel ------------------------------
(***************************************************************************)
(* Kernel on a small instance: three threads, a semaphore, a flag of two   *)
(* bits, and one program for each way the calls can meet.                  *)
(***************************************************************************)
EXTENDS Kernel

CONSTANTS b1, b2

\* All bits; one bit, taken; any bit, taking all.
KernelWaits ==
    {[bits |-> {b1, b2}, mode |-> {}],
     [bits |-> {b1}, mode |-> {"WEF_CLEAR"}],
     [bits |-> {b1, b2}, mode |-> {"WEF_OR", "WEF_CLEAR_ALL"}]}

KernelPrograms ==
    {{"sema", "poll", "worker", "delete"},
     {"sema", "delete", "suspend"},
     {"sema", "release", "terminate", "start"},
     {"event", "clear", "poll", "delevent"},
     {"event", "release", "terminate"},
     {"event", "suspend"},
     {"sleep", "wakeup", "cancel", "suspend", "release"},
     {"sleep", "wakeup", "release", "terminate", "start", "exit"}}
=============================================================================
