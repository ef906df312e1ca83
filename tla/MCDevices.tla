----------------------------- MODULE MCDevices -----------------------------
(***************************************************************************)
(* The services whose correctness is a matter of safety alone and which    *)
(* share no state with each other, each explored by itself: a behaviour    *)
(* takes the steps of one of them, named by focus.                         *)
(***************************************************************************)
EXTENDS GuestHeap, DebugIpc, SifRpc, DtxStream, DmaGif

CONSTANTS
    Foci,                   \* the services a run is about
    d1, d2, d3, q1, q2      \* server descriptors and queues, for MCSifPrograms

VARIABLE focus

vars == <<heapVars, dbgVars, sifVars, dtxVars, dmaVars, focus>>

Init ==
    /\ focus \in Foci
    /\ HeapInit /\ DbgInit /\ SifInitRpc /\ DtxInit /\ DmaInit
    \* One start is enough of the services a behaviour is not about.
    /\ focus # "debugger" => dbgOps = CHOOSE p \in DbgCalls : TRUE
    /\ focus # "rpc" => sifOps = CHOOSE p \in SifPrograms : TRUE
    /\ focus # "dma" => tags = CHOOSE m \in DmaChains : TRUE

Next ==
    \/ focus = "heap" /\ HeapNext /\ UNCHANGED <<dbgVars, sifVars, dtxVars, dmaVars, focus>>
    \/ focus = "debugger" /\ DbgNext /\ UNCHANGED <<heapVars, sifVars, dtxVars, dmaVars, focus>>
    \/ focus = "rpc" /\ SifNext /\ UNCHANGED <<heapVars, dbgVars, dtxVars, dmaVars, focus>>
    \/ focus = "dtx" /\ DtxNext /\ UNCHANGED <<heapVars, dbgVars, sifVars, dmaVars, focus>>
    \/ focus = "dma" /\ DmaNext /\ UNCHANGED <<heapVars, dbgVars, sifVars, dtxVars, focus>>

Spec == Init /\ [][Next]_vars

-----------------------------------------------------------------------------
\* A debugger that sets breakpoints and steps, one that steps over calls, those
\* that step and use one of the mailboxes, and one that steps and reads registers.
MCDbgCalls ==
    {{"break", "resume", "step"}, {"resume", "step", "over"}, {"step", "read"}, {"step", "write"},
     {"resume", "step", "reg"}, {"regs", "step"}}

\* Guest code that works on queues and servers, that registers and binds, and
\* that binds and calls.
MCSifPrograms ==
    {[ops |-> {"queue", "remove"}, queues |-> {q1, q2}, servers |-> {d1, d2, d3}],
     [ops |-> {"remove", "bind"}, queues |-> {q1}, servers |-> {d1, d2, d3}],
     [ops |-> {"bind", "call"}, queues |-> {q1}, servers |-> {d1}]}

\* A chain with every kind of tag and two nested calls that masks PATH3, draws,
\* unmasks it and masks it again; its interrupt tags in three places; and one
\* that carries no payload.
Tag(id, qwc, addr, code) ==
    [id |-> id, qwc |-> qwc, addr |-> addr, code |-> code, irq |-> FALSE]

MCChain ==
    (0 :> Tag("call", 1, 10, "mask")) @@ (2 :> Tag("cnt", 1, 0, "unmask"))
    @@ (4 :> Tag("next", 0, 40, "nop"))
    @@ (10 :> Tag("call", 0, 20, "direct")) @@ (11 :> Tag("ret", 1, 0, "direct"))
    @@ (20 :> Tag("ref", 1, 30, "direct")) @@ (21 :> Tag("ret", 0, 0, "nop"))
    @@ (40 :> Tag("refe", 1, 50, "mask"))

MCDmaChains ==
    {[a \in DOMAIN MCChain |-> [MCChain[a] EXCEPT !.irq = a \in s]] :
        s \in {DOMAIN MCChain, {10, 20}, {21}}}
    \cup {0 :> Tag("end", 0, 0, "unmask"), 0 :> Tag("ret", 0, 0, "mask")}

\* What the theorems about these services suppose of their constants holds here.
ASSUME MCDevicesAssumption ==
    /\ \A m \in DmaChains : ChainEnds(m)
    /\ WalksReach
    /\ Foci \subseteq {"heap", "debugger", "rpc", "dtx", "dma"}
=============================================================================
