SPECIFICATION Spec
CONSTANTS
    Fibers = {f1, f2}
    Workers = {w1}
    Prios = {1, 2}
    Boot = f1
    NoOne = NoOne
    Terminators = {}
    Ops = {"wait", "create", "worker", "priority", "rotate", "di"}
    HostOps = {"wake", "ready"}
    MaxGeneration = 2
    MaxSuspend = 1
    MaxCalls = 1
    EscapeLimit = 2
INVARIANTS TypeOK QueueWellFormed SlotExclusive NoLostWakeup
