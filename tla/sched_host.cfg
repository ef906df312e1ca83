SPECIFICATION Spec
CONSTANTS
    Fibers = {f1, f2}
    Workers = {}
    Prios = {1}
    Boot = f1
    NoOne = NoOne
    Terminators = {}
    Ops = {"wait", "create"}
    HostOps = {"ready", "terminate", "suspend", "clear"}
    MaxGeneration = 1
    MaxSuspend = 1
    MaxCalls = 1
    EscapeLimit = 1
INVARIANT TerminateReachesParked
