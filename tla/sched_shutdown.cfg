SPECIFICATION FairSpec
CONSTANTS
    Fibers = {f1, f2}
    Workers = {}
    Prios = {1, 2}
    Boot = f1
    NoOne = NoOne
    Terminators = {f1}
    Ops = {"wait", "create", "stop"}
    HostOps = {"wake"}
    MaxGeneration = 1
    MaxSuspend = 1
    MaxCalls = 1
    EscapeLimit = 1
CHECK_DEADLOCK FALSE
INVARIANT ShutdownReapsTerminated
PROPERTY ShutdownCompletes HigherPriorityRuns
