SPECIFICATION Spec
CONSTANTS
    Foci = {"heap", "debugger", "rpc", "dtx", "dma"}
    Clients = {c1, c2, c3}
    HeapAlign = 2
    HeapHardLimit = 18
    HeapBase = 8
    RamSize = 32
    HeapBases = {0, 18, 43}
    MaxWord = 63
    HeapSizes = {1, 4, 6, 63}
    HeapAligns = {1, 4}
    HeapLimits = {0, 7, 17}
    PoolFloor = 0
    PoolTop = 8
    DbgThreads = {t1, t2}
    DbgSlots = {1}
    BpSlots = {1}
    Pcs = {p1, p2}
    DbgCalls <- MCDbgCalls
    Attempts = 2
    Nobody = Nobody
    d1 = d1
    d2 = d2
    d3 = d3
    q1 = q1
    q2 = q2
    RpcFibers = {f1, f2}
    Sids = {s1, s2}
    Descriptors = {d1, d2, d3}
    RpcQueues = {q1, q2}
    DtxSid = s2
    DtxIds = {x1}
    PoolSize = 2
    PacketCount = 2
    MaxLinks = 3
    Nil = Nil
    SifPrograms <- MCSifPrograms
    Capacity = 4
    ChunkSizes = {1, 3}
    UrpcObjects = {1, 2, 3, 4}
    MaxObjects = 3
    MaxRings = 1
    DmaChains <- MCDmaChains
    ChainStart = 0
    MaxChainTags = 10
    MaxKicks = 3
CHECK_DEADLOCK FALSE
INVARIANTS HeapSound StepHaltsAtOnce AnswerIsOwn RegistrySound CompletionIsOwn DtxSound ChainResumes Path3InOrder
PROPERTY RegsOfOneUpdate
