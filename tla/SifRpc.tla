-------------------------------- MODULE SifRpc --------------------------------
(***************************************************************************)
(* The SIF remote procedure calls (RPC.cpp): the server descriptors linked *)
(* in guest memory behind their queues, the table of services, the clients *)
(* bound to them, and a call from its request to its completion.           *)
(*                                                                         *)
(* A call runs on the calling fiber.  The server's function and the end    *)
(* callback are guest code in which the fiber may park, so other fibers'   *)
(* calls come in between: g_sif_call_rpc_mutex is recursive and all fibers *)
(* are one host thread.  A fiber uses one client structure of its own.     *)
(*                                                                         *)
(* The semaphore SifCallRpc signals when it stands in for an end callback  *)
(* (signalRpcCompletionSema) is not part of this state; the completion     *)
(* every call leaves is the packet its client points to.                   *)
(***************************************************************************)
EXTENDS Integers, Sequences, FiniteSetsExt, SequencesExt

CONSTANTS
    RpcFibers,    \* fibers, each with its client structure
    Sids,         \* service numbers
    Descriptors,  \* t_SifRpcServerData of the guest
    RpcQueues,    \* t_SifRpcDataQueue of the guest
    DtxSid,       \* the service number of the audio streams, dtxCompat.rpcSid
    DtxIds,       \* the streams' identifiers
    PoolSize,     \* kRpcServerPoolCount
    PacketCount,  \* kRpcPacketPoolCount
    MaxLinks,     \* the links a walk follows before it gives up: 1024
    SifPrograms,  \* what guest code does: operations, and the queues and servers it uses
    Nil           \* the null address

Pool == 1..PoolSize
Servers == Descriptors \cup Pool
RpcPackets == 1..PacketCount

ASSUME SifRpcAssumption ==
    /\ PoolSize \in Nat \ {0} /\ MaxLinks \in Nat \ {0} /\ PacketCount \in Nat \ {0}
    /\ Descriptors \cap Pool = {} /\ Nil \notin Servers \cup RpcQueues \cup Sids \cup DtxIds
    /\ Nil \notin RpcPackets \cup RpcFibers
    /\ \A p \in SifPrograms : p.queues \subseteq RpcQueues /\ p.servers \subseteq Descriptors

VARIABLES
    rpcServers,   \* g_rpc_servers
    rpcClients,   \* g_rpc_clients, and the client structures' server and packet fields
    sd,           \* the server descriptors
    qd,           \* the queues
    activeQueue,  \* g_rpc_active_queue
    serverIndex,  \* g_rpc_server_index
    packets,      \* whose completion a packet of the pool holds
    packetIndex,  \* g_rpc_packet_index
    dtxRemote,    \* g_dtx_remote_by_id
    sifOps,       \* what the guest code of this behaviour does
    call,         \* where a fiber's SifCallRpc is, and if it will run an end callback
    linked,       \* history: the servers registered with a queue and not removed
    queued,       \* history: the queues set and not removed
    taken,        \* history: the slots taken from the pool of servers, to PoolSize + 1
    since         \* history: the packets taken since a client's last, to PacketCount

lists == <<sd, qd, activeQueue, linked, queued>>
pools == <<serverIndex, taken, packets, packetIndex, since, dtxRemote>>
sifVars == <<rpcServers, rpcClients, lists, pools, sifOps, call>>

NoCall == [at |-> "idle", end |-> FALSE]

SifTypeOK ==
    /\ rpcServers \in [Sids -> Servers \cup {Nil}]
    /\ rpcClients \in [RpcFibers -> [sid : Sids \cup {Nil}, busy : BOOLEAN,
                                     server : Servers \cup {Nil}, pkt : RpcPackets \cup {Nil}]]
    /\ sd \in [Servers -> [sid : Sids \cup {Nil}, func : BOOLEAN,
                           link : Servers \cup {Nil}]]
    /\ qd \in [RpcQueues -> [link : Servers \cup {Nil}, next : RpcQueues \cup {Nil}]]
    /\ activeQueue \in RpcQueues \cup {Nil}
    /\ serverIndex \in 0..PoolSize - 1 /\ packetIndex \in 0..PacketCount - 1
    /\ packets \in [RpcPackets -> RpcFibers \cup {Nil}]
    /\ dtxRemote \in [DtxIds -> Pool \cup {Nil}]
    /\ taken \in 0..PoolSize + 1 /\ since \in [RpcFibers -> 0..PacketCount]
    /\ call \in [RpcFibers -> [at : {"idle", "server", "end", "gone"}, end : BOOLEAN]]

-----------------------------------------------------------------------------
(***************************************************************************)
(* Lists linked through a field, of which a walk sees MaxLinks elements.   *)
(***************************************************************************)

\* Where the list that starts at head is after each link.
Places(head, next) ==
    LET at[i \in 0..MaxLinks] ==
            IF i = 0 THEN head ELSE LET x == at[i - 1] IN IF x = Nil THEN Nil ELSE next[x]
    IN  at

\* What a walk along the list sees.
Walk(head, next) ==
    LET at   == Places(head, next)
        ends == {i \in 0..MaxLinks : at[i] = Nil}
    IN  [i \in 1..(IF ends = {} THEN MaxLinks ELSE Min(ends)) |-> at[i - 1]]

\* The walks of the code fit: 1024 is more than the guest has queues or servers.
WalksReach ==
    /\ IsFiniteSet(RpcQueues) /\ Cardinality(RpcQueues) <= MaxLinks
    /\ IsFiniteSet(Descriptors) /\ Cardinality(Descriptors) <= MaxLinks

ServerLinks == [s \in Servers |-> sd[s].link]
QueueLinks == [q \in RpcQueues |-> qd[q].next]

ServersOf(q) == Walk(qd[q].link, ServerLinks)
ActiveQueues == Walk(activeQueue, QueueLinks)

Zeroed == [sid |-> Nil, func |-> FALSE, link |-> Nil]

NoRemotes == [x \in DtxIds |-> Nil]
NoClient == [sid |-> Nil, busy |-> FALSE, server |-> Nil, pkt |-> Nil]

\* SifInitRpc, the first call of it.
SifInitRpc ==
    /\ rpcServers = [s \in Sids |-> Nil]
    /\ rpcClients = [f \in RpcFibers |-> NoClient]
    /\ sd = [s \in Servers |-> Zeroed]
    /\ qd = [q \in RpcQueues |-> [link |-> Nil, next |-> Nil]]
    /\ activeQueue = Nil /\ serverIndex = 0 /\ taken = 0
    /\ packets = [p \in RpcPackets |-> Nil] /\ packetIndex = 0
    /\ since = [f \in RpcFibers |-> PacketCount] /\ dtxRemote = NoRemotes
    /\ sifOps \in SifPrograms
    /\ call = [f \in RpcFibers |-> NoCall]
    /\ linked = [q \in RpcQueues |-> <<>>] /\ queued = <<>>

\* A later call of it leaves all this alone, but for the streams' handles.
SifInitRpcAgain ==
    /\ dtxRemote' = NoRemotes
    /\ UNCHANGED <<rpcServers, rpcClients, lists, serverIndex, taken, packets, packetIndex, since,
                   sifOps, call>>

\* rpcAllocServerAddr: the next slot of the pool, in use or not.
rpcAllocServerAddr(content) ==
    /\ serverIndex' = (serverIndex + 1) % PoolSize
    /\ sd' = [sd EXCEPT ![serverIndex + 1] = content]
    /\ taken' = IF taken <= PoolSize THEN taken + 1 ELSE taken

\* Mutant of Stamp: the packet before the next is taken, and the next comes up again.
StampLast(f, clients) ==
    LET slot == IF packetIndex = 0 THEN PacketCount ELSE packetIndex
    IN  /\ packets' = [packets EXCEPT ![slot] = f]
        /\ rpcClients' = [clients EXCEPT ![f].busy = FALSE, ![f].pkt = slot]
        /\ since' = [g \in RpcFibers |-> IF g = f THEN 0
                                         ELSE IF since[g] < PacketCount THEN since[g] + 1 ELSE since[g]]
        /\ UNCHANGED packetIndex

\* rpcAllocPacketAddr, the completion stamped into the packet, and the client done.
Stamp(f, clients) ==
    /\ packetIndex' = (packetIndex + 1) % PacketCount
    /\ packets' = [packets EXCEPT ![packetIndex + 1] = f]
    /\ rpcClients' = [clients EXCEPT ![f].busy = FALSE, ![f].pkt = packetIndex + 1]
    /\ since' = [g \in RpcFibers |-> IF g = f THEN 0
                                     ELSE IF since[g] < PacketCount THEN since[g] + 1 ELSE since[g]]

-----------------------------------------------------------------------------
(***************************************************************************)
(* Queues and servers.  The guest sets a queue, and registers a server,    *)
(* that is not in a list already.                                          *)
(***************************************************************************)

SifSetRpcQueue(q) ==
    /\ ~Contains(queued, q)
    /\ LET cleared == [qd EXCEPT ![q] = [link |-> Nil, next |-> Nil]]
       IN IF activeQueue = Nil
          THEN activeQueue' = q /\ qd' = cleared
          ELSE /\ qd' = IF qd[Last(ActiveQueues)].next # Nil THEN cleared
                        ELSE [cleared EXCEPT ![Last(ActiveQueues)].next = q]
               /\ UNCHANGED activeQueue
    /\ queued' = Append(queued, q)
    /\ linked' = [linked EXCEPT ![q] = <<>>]
    /\ UNCHANGED <<rpcServers, rpcClients, sd, pools, sifOps, call>>

SifRemoveRpcQueue(q) ==
    /\ Contains(queued, q)
    /\ IF activeQueue = q
       THEN activeQueue' = qd[q].next /\ UNCHANGED qd
       ELSE /\ \E p \in RpcQueues :
                 /\ Contains(ActiveQueues, p) /\ qd[p].next = q
                 /\ qd' = [qd EXCEPT ![p].next = qd[q].next]
            /\ UNCHANGED activeQueue
    /\ queued' = RemoveFirst(queued, q)
    /\ UNCHANGED <<rpcServers, rpcClients, sd, pools, sifOps, call, linked>>

\* Mutant of Remapped: the clients stay where they were bound.
RemappedLater(sid, d) == rpcClients

\* The clients bound to a service follow it to its new server.
Remapped(sid, d) ==
    [f \in RpcFibers |->
        IF rpcClients[f].sid = sid THEN [rpcClients[f] EXCEPT !.server = d] ELSE rpcClients[f]]

SifRegisterRpc(d, sid, q, func) ==
    /\ \A p \in RpcQueues : ~Contains(linked[p], d)
    /\ LET fresh == [sd EXCEPT ![d] = [sid |-> sid, func |-> func, link |-> Nil]]
       IN IF qd[q].link = Nil
          THEN qd' = [qd EXCEPT ![q].link = d] /\ sd' = fresh
          ELSE /\ sd' = IF sd[Last(ServersOf(q))].link # Nil THEN fresh
                        ELSE [fresh EXCEPT ![Last(ServersOf(q))].link = d]
               /\ UNCHANGED qd
    /\ rpcServers' = [rpcServers EXCEPT ![sid] = d]
    /\ rpcClients' = Remapped(sid, d)
    /\ linked' = [linked EXCEPT ![q] = Append(@, d)]
    /\ UNCHANGED <<activeQueue, pools, sifOps, call, queued>>

\* The table of services keeps the removed server.
SifRemoveRpc(d, q) ==
    /\ Contains(linked[q], d)
    /\ IF qd[q].link = d
       THEN qd' = [qd EXCEPT ![q].link = sd[d].link] /\ sd' = [sd EXCEPT ![d].link = Nil]
       ELSE /\ \E s \in Servers :
                 /\ Contains(ServersOf(q), s) /\ sd[s].link = d
                 /\ sd' = [sd EXCEPT ![s].link = sd[d].link, ![d].link = Nil]
            /\ UNCHANGED qd
    /\ linked' = [linked EXCEPT ![q] = RemoveFirst(@, d)]
    /\ UNCHANGED <<rpcServers, rpcClients, activeQueue, pools, sifOps, call, queued>>

\* A bind to a service nobody registered gets a placeholder from the pool.
SifBindRpc(f, sid) ==
    LET placeholder == rpcServers[sid] = Nil
        server == IF placeholder THEN serverIndex + 1 ELSE rpcServers[sid]
    IN  /\ call[f].at \in {"idle", "gone"}
        /\ IF placeholder THEN rpcAllocServerAddr([Zeroed EXCEPT !.sid = sid])
           ELSE UNCHANGED <<serverIndex, sd, taken>>
        /\ rpcServers' = [rpcServers EXCEPT ![sid] = server]
        /\ Stamp(f, [rpcClients EXCEPT ![f] = [NoClient EXCEPT !.sid = sid, !.server = server]])
        /\ call' = [call EXCEPT ![f] = NoCall]
        /\ UNCHANGED <<qd, activeQueue, linked, queued, dtxRemote, sifOps>>

-----------------------------------------------------------------------------
(***************************************************************************)
(* Calls.  end is the end callback: "none", one the layout names as the    *)
(* sound driver's completion ("driver"), or another one ("guest").         *)
(***************************************************************************)

\* The reply is stored and the call's end callback begins or, without one, the
\* call ends; clients is g_rpc_clients so far.
Finish(f, c, clients) ==
    IF c.end
    THEN /\ call' = [call EXCEPT ![f] = [c EXCEPT !.at = "end"]]
         /\ rpcClients' = clients
         /\ UNCHANGED <<packets, packetIndex, since>>
    ELSE call' = [call EXCEPT ![f] = NoCall] /\ Stamp(f, clients)

\* What a call asks for: the function of a server; of the streams' service, one that
\* dtx_rpc_func dispatches, one that is emulated, or a stream created or destroyed.
Requests ==
    [op : {"server", "dispatch", "emulate"}, id : {Nil}]
    \cup [op : {"create", "destroy"}, id : DtxIds]

\* hle says that an emulated IOP module answers the request, and the streams do not.
Streams(req, hle) ==
    IF req.op = "create" /\ ~hle /\ dtxRemote[req.id] = Nil
    THEN /\ rpcAllocServerAddr(Zeroed)
         /\ dtxRemote' = [dtxRemote EXCEPT ![req.id] = serverIndex + 1]
    ELSE /\ UNCHANGED <<serverIndex, sd, taken>>
         /\ dtxRemote' = IF req.op = "destroy" /\ ~hle THEN [dtxRemote EXCEPT ![req.id] = Nil]
                         ELSE dtxRemote

\* Guest code answers what asks for a server's function, if there is one, and what
\* is dispatched.  A driver's completion is not run after an emulated module's answer.
SifCallRpc(f, end, hle, req) ==
    LET sid == rpcClients[f].sid
        server == IF rpcServers[sid] # Nil THEN rpcServers[sid] ELSE rpcClients[f].server
        c == [at |-> "server", end |-> end # "none" /\ ~(hle /\ end = "driver")]
        clients == [rpcClients EXCEPT ![f].busy = TRUE, ![f].server = server]
    IN /\ call[f].at \in {"idle", "gone"} /\ sid # Nil
       /\ req.op # "server" => sid = DtxSid
       /\ Streams(req, hle)
       /\ IF (req.op = "server" /\ sd[server].func) \/ req.op = "dispatch"
          THEN /\ call' = [call EXCEPT ![f] = c]
               /\ rpcClients' = clients
               /\ UNCHANGED <<packets, packetIndex, since>>
          ELSE Finish(f, c, clients)
       /\ UNCHANGED <<rpcServers, qd, activeQueue, linked, queued, sifOps>>

\* The server's function returns, or was not there to be run.
ServerReturns(f) ==
    /\ call[f].at = "server"
    /\ Finish(f, call[f], rpcClients)
    /\ UNCHANGED <<rpcServers, lists, serverIndex, taken, dtxRemote, sifOps>>

\* The end callback returns, or was not there to be run.
EndReturns(f) ==
    /\ call[f].at = "end"
    /\ call' = [call EXCEPT ![f] = NoCall]
    /\ Stamp(f, rpcClients)
    /\ UNCHANGED <<rpcServers, lists, serverIndex, taken, dtxRemote, sifOps>>

\* The fiber is terminated in the guest code it runs: a ThreadExitException leaves
\* SifCallRpc, whose lock is released and whose client stays busy.
CallUnwinds(f) ==
    /\ call[f].at \in {"server", "end"}
    /\ call' = [call EXCEPT ![f] = [NoCall EXCEPT !.at = "gone"]]
    /\ UNCHANGED <<rpcServers, rpcClients, lists, pools, sifOps>>

Does(op) == op \in sifOps.ops

SifNext ==
    \/ Does("queue") /\ \E q \in sifOps.queues : SifSetRpcQueue(q) \/ SifRemoveRpcQueue(q)
    \/ Does("remove") /\ \E q \in sifOps.queues, d \in sifOps.servers : SifRemoveRpc(d, q)
    \/ \E q \in sifOps.queues, d \in sifOps.servers, sid \in Sids, func \in BOOLEAN :
         (func => Does("call")) /\ SifRegisterRpc(d, sid, q, func)
    \/ \E f \in RpcFibers, sid \in Sids : Does("bind") /\ SifBindRpc(f, sid)
    \/ \E f \in RpcFibers :
         \/ \E end \in {"none", "driver", "guest"}, hle \in BOOLEAN, req \in Requests :
               Does("call") /\ SifCallRpc(f, end, hle, req)
         \/ ServerReturns(f) \/ EndReturns(f) \/ CallUnwinds(f)
    \/ Does("call") /\ SifInitRpcAgain

-----------------------------------------------------------------------------
(***************************************************************************)
(* The properties.                                                         *)
(***************************************************************************)

\* The lists linked through guest memory are the servers registered, and the
\* queues set, and not removed since, in that order: SifRegisterRpc,
\* SifRemoveRpc, SifSetRpcQueue and SifRemoveRpcQueue neither drop an element
\* nor leave a removed one reachable nor close a loop.
ListsAsRegistered ==
    /\ ActiveQueues = queued
    /\ \A q \in RpcQueues : ServersOf(q) = linked[q]

\* Whatever the order of binds, registrations, removals and calls, a bound client is
\* at the server its service has now, never left behind at a placeholder or at a
\* server that was replaced; and until the pool comes round, by binds or by streams
\* that are created, a placeholder is the service's own (SifBindRpc, SifRegisterRpc,
\* SifCallRpc, rpcAllocServerAddr).
ClientFollowsServer ==
    \A f \in RpcFibers : rpcClients[f].sid # Nil =>
        LET s == rpcServers[rpcClients[f].sid]
        IN  /\ rpcClients[f].server = s
            /\ s \in Pool /\ taken <= PoolSize => sd[s].sid = rpcClients[f].sid

\* The registry as a whole: the lists the guest's memory holds and the servers its
\* clients point to, over all the calls that change either.
RegistrySound == ListsAsRegistered /\ ClientFollowsServer

\* A client none of whose calls is under way or was cut short is not busy, and the
\* packet it points to holds its own completion until PacketCount more were stamped:
\* "Stamp a real completion packet from the existing scratch pool so the client
\* header points at genuine data" (RPC.cpp 2702-2703).
CompletionIsOwn ==
    \A f \in RpcFibers :
        LET c == rpcClients[f]
        IN  call[f].at = "idle" /\ c.sid # Nil =>
               ~c.busy /\ c.pkt # Nil /\ (since[f] < PacketCount => packets[c.pkt] = f)
=============================================================================
