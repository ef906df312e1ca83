SPECIFICATION Spec
CONSTANTS
    b1 = b1
    b2 = b2
    Threads = {t1, t2, t3}
    Terminators = {t1}
    Workers = {w}
    Nothing = Nothing
    Programs <- KernelPrograms
    MaxWakeups = 1
    MaxSuspends = 1
    Semas = {1}
    Observed = 1
    MaxPermits = 2
    Flags = {11}
    EventBits = {b1, b2}
    Waits <- KernelWaits
CHECK_DEADLOCK FALSE
INVARIANTS PermitNotStranded NoEventMissed WakeupNotLost ParkedIsReleasable
PROPERTIES ForcedOut ImplementsSemaphore
