SPECIFICATION Spec
CONSTANTS
    Fibers = {f1, f2}
    Workers = {}
    Prios = {1, 2}
    Boot = f1
    NoOne = NoOne
    Terminators = {f1, f2}
    Ops = {"wait", "create", "suspend", "priority"}
    HostOps = {}
    MaxGeneration = 2
    MaxSuspend = 2
    MaxCalls = 1
    EscapeLimit = 1
INVARIANT SuspendedOffQueue
