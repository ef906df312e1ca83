SPECIFICATION FairSpec
CONSTANTS
    Fibers = {f1, f2}
    Workers = {w1, w2}
    Prios = {1, 2}
    Boot = f1
    NoOne = NoOne
    Terminators = {f1}
    Ops = {"create", "worker", "di"}
    HostOps = {}
    MaxGeneration = 1
    MaxSuspend = 1
    MaxCalls = 1
    EscapeLimit = 2
PROPERTIES WorkerServed ReadyNotStarved JoinCompletes
