---------------------------- MODULE DeviceProofs ----------------------------
(***************************************************************************)
(* The devices and the debugger, each for any values of its constants: the *)
(* completion of an RPC and the servers of its clients, the debugger's     *)
(* steps, requests and register reads, the rings and handles of the audio  *)
(* streams, the stacks of host callbacks, the order of PATH3, the chains   *)
(* of the DMA controller that stop at a tag and go on, the queues and      *)
(* servers the guest registers, and the blocks of the guest's heap.        *)
(***************************************************************************)
EXTENDS MCDevices, FiniteSetTheorems, RunQueueProofs

-----------------------------------------------------------------------------
(* The completion of an RPC *)

ClientRecords == [sid : Sids \cup {Nil}, busy : BOOLEAN, server : Servers \cup {Nil},
                  pkt : RpcPackets \cup {Nil}]
CallRecords == [at : {"idle", "server", "end", "gone"}, end : BOOLEAN]
DescRecords == [sid : Sids \cup {Nil}, func : BOOLEAN, link : Servers \cup {Nil}]

RpcTypes ==
    /\ rpcServers \in [Sids -> Servers \cup {Nil}]
    /\ rpcClients \in [RpcFibers -> ClientRecords]
    /\ sd \in [Servers -> DescRecords]
    /\ serverIndex \in 0..PoolSize - 1 /\ taken \in 0..PoolSize + 1
    /\ packetIndex \in 0..PacketCount - 1 /\ packets \in [RpcPackets -> RpcFibers \cup {Nil}]
    /\ since \in [RpcFibers -> 0..PacketCount]
    /\ sifOps \in SifPrograms
    /\ call \in [RpcFibers -> CallRecords]

\* A packet stamped less than PacketCount packets ago lies as far behind the index of
\* the pool, and still holds its client's completion; a client that calls nothing
\* has one.
StampedAt(f) ==
    LET p == rpcClients[f].pkt
    IN  p # Nil /\ since[f] < PacketCount =>
           /\ packets[p] = f
           /\ p + since[f] = packetIndex \/ p + since[f] = packetIndex + PacketCount
Settled(f) ==
    call[f].at = "idle" /\ rpcClients[f].sid # Nil =>
        ~rpcClients[f].busy /\ rpcClients[f].pkt # Nil

PacketInv == \A f \in RpcFibers : StampedAt(f) /\ Settled(f)

\* What the steps of a call do to it: guest code begins, or the call is over.
Begins(f, clients) ==
    /\ \E e \in CallRecords : e.at # "idle" /\ call' = [call EXCEPT ![f] = e]
    /\ rpcClients' = clients
    /\ UNCHANGED <<packets, packetIndex, since>>
Completes(f, clients) == call' = [call EXCEPT ![f] = NoCall] /\ Stamp(f, clients)

\* A packet stamped: the fields of its client.
LEMMA StampTypes ==
    ASSUME RpcTypes, NEW f \in RpcFibers, NEW clients \in [RpcFibers -> ClientRecords],
           Stamp(f, clients)
    PROVE  /\ rpcClients' \in [RpcFibers -> ClientRecords]
           /\ packetIndex' \in 0..PacketCount - 1
           /\ packets' \in [RpcPackets -> RpcFibers \cup {Nil}]
           /\ since' \in [RpcFibers -> 0..PacketCount]
           /\ packetIndex + 1 \in RpcPackets /\ packetIndex + 1 # Nil
           /\ ~rpcClients'[f].busy /\ rpcClients'[f].pkt = packetIndex + 1
           /\ rpcClients'[f].sid = clients[f].sid /\ rpcClients'[f].server = clients[f].server
           /\ \A g \in RpcFibers : g # f => rpcClients'[g] = clients[g]
<1>1. PacketCount \in Nat \ {0} /\ packetIndex \in 0..PacketCount - 1 /\ Nil \notin RpcPackets
  BY SifRpcAssumption DEF RpcTypes
<1>2. packetIndex + 1 \in RpcPackets /\ (packetIndex + 1) % PacketCount \in 0..PacketCount - 1
  BY <1>1 DEF RpcPackets
<1>3. PICK k : k = [clients[f] EXCEPT !.busy = FALSE, !.pkt = packetIndex + 1]
  OBVIOUS
<1>4. /\ k \in ClientRecords /\ ~k.busy /\ k.pkt = packetIndex + 1
      /\ k.sid = clients[f].sid /\ k.server = clients[f].server
  BY <1>2, <1>3 DEF ClientRecords
<1>5. rpcClients' = [clients EXCEPT ![f] = k]
  BY <1>3 DEF Stamp
<1>6. rpcClients'[f] = k /\ \A g \in RpcFibers : g # f => rpcClients'[g] = clients[g]
  BY <1>5
<1>7. packetIndex' \in 0..PacketCount - 1 /\ packets' \in [RpcPackets -> RpcFibers \cup {Nil}]
  BY <1>2 DEF Stamp, RpcTypes
<1>8. since' \in [RpcFibers -> 0..PacketCount]
  BY <1>1 DEF Stamp, RpcTypes
<1>. QED  BY <1>1, <1>2, <1>4, <1>5, <1>6, <1>7, <1>8

\* A call's step keeps the types.
LEMMA StepTypes ==
    ASSUME RpcTypes, NEW f \in RpcFibers, NEW clients \in [RpcFibers -> ClientRecords],
           Begins(f, clients) \/ Completes(f, clients),
           rpcServers' \in [Sids -> Servers \cup {Nil}], sd' \in [Servers -> DescRecords],
           serverIndex' \in 0..PoolSize - 1, taken' \in 0..PoolSize + 1, UNCHANGED sifOps
    PROVE  RpcTypes'
<1>1. CASE Begins(f, clients)
  BY <1>1 DEF Begins, RpcTypes
<1>2. CASE Completes(f, clients)
  <2>1. NoCall \in CallRecords
    BY DEF NoCall, CallRecords
  <2>2. call' \in [RpcFibers -> CallRecords]
    BY <1>2, <2>1 DEF Completes, RpcTypes
  <2>3. Stamp(f, clients)
    BY <1>2 DEF Completes
  <2>. QED  BY <2>2, <2>3, StampTypes DEF RpcTypes
<1>. QED  BY <1>1, <1>2

\* What happens to no packet, and to no client that calls nothing.
LEMMA QuietKeeps ==
    ASSUME RpcTypes, PacketInv, UNCHANGED <<packets, packetIndex, since>>,
           \A g \in RpcFibers : rpcClients'[g].pkt = rpcClients[g].pkt,
           \A g \in RpcFibers : call'[g].at = "idle" =>
               /\ call[g].at = "idle" /\ rpcClients'[g].sid = rpcClients[g].sid
               /\ rpcClients'[g].busy = rpcClients[g].busy
    PROVE  PacketInv'
<1>1. ASSUME NEW g \in RpcFibers PROVE StampedAt(g)' /\ Settled(g)'
  <2>1. StampedAt(g) /\ Settled(g)
    BY DEF PacketInv
  <2>2. StampedAt(g)'
    BY <2>1 DEF StampedAt
  <2>3. Settled(g)'
    BY <2>1 DEF Settled
  <2>. QED  BY <2>2, <2>3
<1>. QED  BY <1>1 DEF PacketInv

\* A packet stamped is PacketCount stamps away from the next use of its slot.
LEMMA StampKeeps ==
    ASSUME RpcTypes, PacketInv, NEW f \in RpcFibers,
           NEW clients \in [RpcFibers -> ClientRecords], Completes(f, clients),
           \A g \in RpcFibers : g # f => clients[g] = rpcClients[g]
    PROVE  PacketInv'
<1>1. /\ PacketCount \in Nat \ {0} /\ packetIndex \in 0..PacketCount - 1
      /\ since \in [RpcFibers -> 0..PacketCount] /\ packets \in [RpcPackets -> RpcFibers \cup {Nil}]
      /\ rpcClients \in [RpcFibers -> ClientRecords] /\ call \in [RpcFibers -> CallRecords]
  BY SifRpcAssumption DEF RpcTypes
<1>2. Stamp(f, clients) /\ call' = [call EXCEPT ![f] = NoCall]
  BY DEF Completes
<1>3. /\ ~rpcClients'[f].busy /\ rpcClients'[f].pkt = packetIndex + 1
      /\ packetIndex + 1 \in RpcPackets /\ packetIndex + 1 # Nil
      /\ \A g \in RpcFibers : g # f => rpcClients'[g] = rpcClients[g]
  BY <1>2, StampTypes
<1>4. /\ packetIndex' = (packetIndex + 1) % PacketCount
      /\ packets'[packetIndex + 1] = f
      /\ \A p \in RpcPackets : p # packetIndex + 1 => packets'[p] = packets[p]
      /\ since'[f] = 0
      /\ \A g \in RpcFibers : g # f =>
            since'[g] = IF since[g] < PacketCount THEN since[g] + 1 ELSE since[g]
  BY <1>1, <1>2, <1>3 DEF Stamp
<1>5. \/ packetIndex + 1 < PacketCount /\ packetIndex' = packetIndex + 1
      \/ packetIndex + 1 = PacketCount /\ packetIndex' = 0
  BY <1>1, <1>4
<1>6. StampedAt(f)' /\ Settled(f)'
  <2>1. StampedAt(f)'
    BY <1>1, <1>3, <1>4, <1>5 DEF StampedAt
  <2>2. Settled(f)'
    BY <1>3 DEF Settled
  <2>. QED  BY <2>1, <2>2
<1>7. ASSUME NEW g \in RpcFibers, g # f PROVE StampedAt(g)' /\ Settled(g)'
  <2>1. PICK p : p = rpcClients[g].pkt
    OBVIOUS
  <2>2. /\ StampedAt(g) /\ Settled(g) /\ rpcClients'[g] = rpcClients[g]
        /\ call'[g] = call[g] /\ p \in RpcPackets \cup {Nil} /\ since[g] \in 0..PacketCount
    BY <1>1, <1>2, <1>3, <1>7, <2>1 DEF PacketInv, ClientRecords
  <2>3. Settled(g)'
    BY <2>2 DEF Settled
  <2>4. ASSUME p # Nil, since'[g] < PacketCount
        PROVE  /\ packets'[p] = g
               /\ p + since'[g] = packetIndex' \/ p + since'[g] = packetIndex' + PacketCount
    <3>1. since[g] < PacketCount - 1 /\ since'[g] = since[g] + 1 /\ p \in 1..PacketCount
      BY <1>1, <1>4, <1>7, <2>2, <2>4 DEF RpcPackets
    <3>2. /\ packets[p] = g
          /\ p + since[g] = packetIndex \/ p + since[g] = packetIndex + PacketCount
      BY <1>1, <2>1, <2>2, <2>4, <3>1 DEF StampedAt
    <3>3. p # packetIndex + 1
      BY <1>1, <2>2, <3>1, <3>2
    <3>4. packets'[p] = g
      BY <1>4, <3>1, <3>2, <3>3 DEF RpcPackets
    <3>5. p + since'[g] = packetIndex' \/ p + since'[g] = packetIndex' + PacketCount
      BY <1>1, <1>5, <2>2, <3>1, <3>2
    <3>. QED  BY <3>4, <3>5
  <2>5. StampedAt(g)'
    BY <2>1, <2>2, <2>4 DEF StampedAt
  <2>. QED  BY <2>3, <2>5
<1>. QED  BY <1>6, <1>7 DEF PacketInv

\* Guest code that begins, or a call that is over.
LEMMA StepKeeps ==
    ASSUME RpcTypes, PacketInv, NEW f \in RpcFibers,
           NEW clients \in [RpcFibers -> ClientRecords],
           Begins(f, clients) \/ Completes(f, clients),
           \A g \in RpcFibers : g # f => clients[g] = rpcClients[g]
    PROVE  clients[f].pkt = rpcClients[f].pkt \/ Completes(f, clients) => PacketInv'
<1>1. CASE Begins(f, clients) /\ clients[f].pkt = rpcClients[f].pkt
  <2>1. PICK e \in CallRecords : e.at # "idle" /\ call' = [call EXCEPT ![f] = e]
    BY <1>1 DEF Begins
  <2>2. call'[f] = e /\ \A g \in RpcFibers : g # f => call'[g] = call[g]
    BY <2>1 DEF RpcTypes
  <2>3. rpcClients' = clients /\ UNCHANGED <<packets, packetIndex, since>>
    BY <1>1 DEF Begins
  <2>4. \A g \in RpcFibers : rpcClients'[g].pkt = rpcClients[g].pkt
    BY <1>1, <2>3
  <2>5. ASSUME NEW g \in RpcFibers, call'[g].at = "idle"
        PROVE  /\ call[g].at = "idle" /\ rpcClients'[g].sid = rpcClients[g].sid
               /\ rpcClients'[g].busy = rpcClients[g].busy
    <3>1. g # f
      BY <2>1, <2>2, <2>5
    <3>. QED  BY <2>2, <2>3, <2>5, <3>1
  <2>. QED  BY <2>3, <2>4, <2>5, QuietKeeps
<1>2. CASE Completes(f, clients)
  BY <1>2, StampKeeps
<1>. QED  BY <1>1, <1>2

\* A reply: the end callback begins, or the call is over.
LEMMA FinishIs ==
    ASSUME NEW f \in RpcFibers, NEW c \in CallRecords, NEW clients, Finish(f, c, clients)
    PROVE  Begins(f, clients) \/ Completes(f, clients)
<1>1. PICK e : e = [c EXCEPT !.at = "end"]
  OBVIOUS
<1>2. e \in CallRecords /\ e.at = "end"
  BY <1>1 DEF CallRecords
<1>. QED  BY <1>1, <1>2 DEF Finish, Begins, Completes

-----------------------------------------------------------------------------
(* The servers of an RPC's clients *)

\* Until the pool of servers comes round its index counts the slots taken.
SlotAt == taken <= PoolSize => serverIndex = taken \/ (taken = PoolSize /\ serverIndex = 0)

\* Till then a service's placeholder is one of those, and its own.
SlotOwn ==
    taken <= PoolSize => \A s \in Sids : rpcServers[s] \in Pool =>
        rpcServers[s] <= taken /\ sd[rpcServers[s]].sid = s

\* A bound client is at its service's server.
BoundTo(f) ==
    rpcClients[f].sid # Nil =>
        /\ rpcServers[rpcClients[f].sid] # Nil
        /\ rpcClients[f].server = rpcServers[rpcClients[f].sid]

BindInv == SlotAt /\ SlotOwn /\ \A f \in RpcFibers : BoundTo(f)

RpcInv == RpcTypes /\ PacketInv /\ BindInv

\* The slot that is taken is in no service's use while the pool has not come round.
LEMMA SlotTaken ==
    ASSUME RpcTypes, BindInv, NEW content \in DescRecords, rpcAllocServerAddr(content)
    PROVE  /\ sd' \in [Servers -> DescRecords] /\ sd'[serverIndex + 1] = content
           /\ serverIndex' \in 0..PoolSize - 1 /\ taken' \in 0..PoolSize + 1
           /\ serverIndex + 1 \in Pool /\ SlotAt'
           /\ taken' <= PoolSize =>
                 /\ serverIndex + 1 <= taken'
                 /\ \A s \in Sids : rpcServers[s] \in Pool =>
                       rpcServers[s] <= taken' /\ sd'[rpcServers[s]].sid = s
<1>1. /\ PoolSize \in Nat \ {0} /\ serverIndex \in 0..PoolSize - 1 /\ taken \in 0..PoolSize + 1
      /\ sd \in [Servers -> DescRecords] /\ rpcServers \in [Sids -> Servers \cup {Nil}]
  BY SifRpcAssumption DEF RpcTypes
<1>2. serverIndex + 1 \in Pool /\ serverIndex + 1 \in Servers
  BY <1>1 DEF Pool, Servers
<1>3. /\ serverIndex' = (serverIndex + 1) % PoolSize
      /\ taken' = IF taken <= PoolSize THEN taken + 1 ELSE taken
      /\ sd' = [sd EXCEPT ![serverIndex + 1] = content]
  BY DEF rpcAllocServerAddr
<1>4. /\ sd' \in [Servers -> DescRecords] /\ sd'[serverIndex + 1] = content
      /\ \A x \in Servers : x # serverIndex + 1 => sd'[x] = sd[x]
  BY <1>1, <1>2, <1>3
<1>5. serverIndex' \in 0..PoolSize - 1 /\ taken' \in 0..PoolSize + 1
  BY <1>1, <1>3
<1>6. ASSUME taken' <= PoolSize
      PROVE  taken < PoolSize /\ serverIndex = taken /\ taken' = taken + 1
  BY <1>1, <1>3, <1>6 DEF BindInv, SlotAt
<1>7. SlotAt'
  <2>1. ASSUME taken' <= PoolSize
        PROVE  serverIndex' = taken' \/ (taken' = PoolSize /\ serverIndex' = 0)
    <3>1. taken < PoolSize /\ serverIndex = taken /\ taken' = taken + 1
      BY <1>6, <2>1
    <3>. QED  BY <1>1, <1>3, <3>1
  <2>. QED  BY <2>1 DEF SlotAt
<1>8. ASSUME taken' <= PoolSize, NEW s \in Sids, rpcServers[s] \in Pool
      PROVE  rpcServers[s] <= taken' /\ sd'[rpcServers[s]].sid = s
  <2>1. taken < PoolSize /\ serverIndex = taken /\ taken' = taken + 1
    BY <1>6, <1>8
  <2>2. rpcServers[s] <= taken /\ sd[rpcServers[s]].sid = s
    BY <1>1, <1>8, <2>1 DEF BindInv, SlotOwn
  <2>3. rpcServers[s] \in Servers /\ rpcServers[s] \in Int /\ rpcServers[s] # serverIndex + 1
    BY <1>1, <1>8, <2>1, <2>2 DEF Pool, Servers
  <2>. QED  BY <1>1, <1>4, <2>1, <2>2, <2>3
<1>9. taken' <= PoolSize => serverIndex + 1 <= taken'
  BY <1>1, <1>6
<1>. QED  BY <1>2, <1>4, <1>5, <1>7, <1>8, <1>9

\* What takes no slot and gives no service another server.
LEMMA SlotsSame ==
    ASSUME RpcTypes, BindInv, UNCHANGED <<rpcServers, serverIndex, taken>>,
           \A s \in Servers : sd'[s].sid = sd[s].sid
    PROVE  SlotAt' /\ SlotOwn'
<1>1. SlotAt'
  BY DEF BindInv, SlotAt
<1>2. ASSUME taken' <= PoolSize, NEW s \in Sids, rpcServers'[s] \in Pool
      PROVE  rpcServers'[s] <= taken' /\ sd'[rpcServers'[s]].sid = s
  <2>1. rpcServers[s] <= taken /\ sd[rpcServers[s]].sid = s /\ rpcServers[s] \in Servers
    BY <1>2 DEF BindInv, SlotOwn, Servers
  <2>. QED  BY <2>1
<1>. QED  BY <1>1, <1>2 DEF SlotOwn

\* A step of a call.
LEMMA CallStep ==
    ASSUME RpcInv, NEW f \in RpcFibers, NEW clients \in [RpcFibers -> ClientRecords],
           Begins(f, clients) \/ Completes(f, clients),
           \A g \in RpcFibers : g # f => clients[g] = rpcClients[g],
           clients[f].pkt = rpcClients[f].pkt, clients[f].sid = rpcClients[f].sid,
           clients[f].server \in {rpcClients[f].server, rpcServers[rpcClients[f].sid]},
           UNCHANGED <<sd, serverIndex, taken>> \/ rpcAllocServerAddr(Zeroed),
           UNCHANGED <<rpcServers, sifOps>>
    PROVE  RpcInv'
<1>0. RpcTypes /\ PacketInv /\ BindInv
  BY DEF RpcInv
<1>1. /\ sd' \in [Servers -> DescRecords] /\ serverIndex' \in 0..PoolSize - 1
      /\ taken' \in 0..PoolSize + 1 /\ SlotAt' /\ SlotOwn'
  <2>1. CASE UNCHANGED <<sd, serverIndex, taken>>
    <3>1. SlotAt' /\ SlotOwn'
      BY <1>0, <2>1, SlotsSame
    <3>. QED  BY <1>0, <2>1, <3>1 DEF RpcTypes
  <2>2. CASE rpcAllocServerAddr(Zeroed)
    <3>1. Zeroed \in DescRecords
      BY DEF Zeroed, DescRecords
    <3>2. /\ sd' \in [Servers -> DescRecords] /\ serverIndex' \in 0..PoolSize - 1
          /\ taken' \in 0..PoolSize + 1 /\ SlotAt'
          /\ taken' <= PoolSize => \A s \in Sids : rpcServers[s] \in Pool =>
                                      rpcServers[s] <= taken' /\ sd'[rpcServers[s]].sid = s
      BY <1>0, <2>2, <3>1, SlotTaken
    <3>3. SlotOwn'
      BY <3>2 DEF SlotOwn
    <3>. QED  BY <3>2, <3>3
  <2>. QED  BY <2>1, <2>2
<1>2. rpcServers' \in [Sids -> Servers \cup {Nil}]
  BY <1>0 DEF RpcTypes
<1>3. RpcTypes'
  BY <1>0, <1>1, <1>2, StepTypes
<1>4. PacketInv'
  BY <1>0, StepKeeps
<1>5. ASSUME NEW g \in RpcFibers
      PROVE  rpcClients'[g].sid = clients[g].sid /\ rpcClients'[g].server = clients[g].server
  <2>1. CASE Begins(f, clients)
    BY <2>1 DEF Begins
  <2>2. CASE Completes(f, clients)
    <3>1. Stamp(f, clients)
      BY <2>2 DEF Completes
    <3>. QED  BY <1>0, <3>1, StampTypes
  <2>. QED  BY <2>1, <2>2
<1>6. ASSUME NEW g \in RpcFibers PROVE BoundTo(g)'
  <2>1. BoundTo(g)
    BY <1>0 DEF BindInv
  <2>2. /\ clients[g].sid = rpcClients[g].sid
        /\ clients[g].server \in {rpcClients[g].server, rpcServers[rpcClients[g].sid]}
    OBVIOUS
  <2>. QED  BY <1>5, <2>1, <2>2 DEF BoundTo
<1>. QED  BY <1>1, <1>3, <1>4, <1>6 DEF RpcInv, BindInv

\* A request begins guest code or is answered at once; one that creates a stream
\* takes a slot.
LEMMA CallKeeps ==
    ASSUME RpcInv, NEW f \in RpcFibers, NEW end, NEW hle, NEW req,
           SifCallRpc(f, end, hle, req)
    PROVE  RpcInv'
<1>0. /\ rpcServers \in [Sids -> Servers \cup {Nil}]
      /\ rpcClients \in [RpcFibers -> ClientRecords]
  BY DEF RpcInv, RpcTypes
<1> DEFINE sid == rpcClients[f].sid
<1>1. PICK server : server = IF rpcServers[sid] # Nil THEN rpcServers[sid]
                             ELSE rpcClients[f].server
  OBVIOUS
<1>2. /\ sid \in Sids /\ server \in Servers \cup {Nil} /\ rpcClients[f] \in ClientRecords
      /\ server \in {rpcClients[f].server, rpcServers[sid]}
  BY <1>0, <1>1 DEF ClientRecords, SifCallRpc
<1>3. PICK c : c = [at |-> "server", end |-> (end # "none" /\ ~(hle /\ end = "driver"))]
  OBVIOUS
<1>4. c \in CallRecords /\ c.at = "server"
  BY <1>3 DEF CallRecords
<1>5. PICK k : k = [rpcClients[f] EXCEPT !.busy = TRUE, !.server = server]
  OBVIOUS
<1>6. /\ k \in ClientRecords /\ k.pkt = rpcClients[f].pkt /\ k.sid = sid
      /\ k.server = server
  BY <1>2, <1>5 DEF ClientRecords
<1>7. PICK clients : clients = [rpcClients EXCEPT ![f] = k]
  OBVIOUS
<1>8. /\ clients \in [RpcFibers -> ClientRecords] /\ clients[f] = k
      /\ \A g \in RpcFibers : g # f => clients[g] = rpcClients[g]
  BY <1>0, <1>6, <1>7
<1>9. clients = [rpcClients EXCEPT ![f].busy = TRUE, ![f].server = server]
  BY <1>0, <1>5, <1>7
<1>10. /\ \/ /\ call' = [call EXCEPT ![f] = c] /\ rpcClients' = clients
             /\ UNCHANGED <<packets, packetIndex, since>>
          \/ Finish(f, c, clients)
       /\ Streams(req, hle)
       /\ UNCHANGED <<rpcServers, sifOps>>
  BY <1>1, <1>3, <1>9 DEF SifCallRpc
<1>11. Begins(f, clients) \/ Completes(f, clients)
  <2>1. CASE Finish(f, c, clients)
    BY <1>4, <2>1, FinishIs
  <2>. QED  BY <1>4, <1>10, <2>1 DEF Begins
<1>12. UNCHANGED <<sd, serverIndex, taken>> \/ rpcAllocServerAddr(Zeroed)
  BY <1>10 DEF Streams
<1>. QED  BY <1>2, <1>6, <1>8, <1>10, <1>11, <1>12, CallStep

\* The two returns, and the end of a call that is cut short.
LEMMA ReturnKeeps ==
    ASSUME RpcInv, NEW f \in RpcFibers, ServerReturns(f) \/ EndReturns(f) \/ CallUnwinds(f)
    PROVE  RpcInv'
<1>1. rpcClients \in [RpcFibers -> ClientRecords] /\ call[f] \in CallRecords
  BY DEF RpcInv, RpcTypes
<1>2. Begins(f, rpcClients) \/ Completes(f, rpcClients)
  <2>1. CASE ServerReturns(f)
    <3>1. Finish(f, call[f], rpcClients)
      BY <2>1 DEF ServerReturns
    <3>. QED  BY <1>1, <3>1, FinishIs
  <2>2. CASE EndReturns(f)
    BY <2>2 DEF EndReturns, Completes
  <2>3. CASE CallUnwinds(f)
    <3>1. PICK e : e = [NoCall EXCEPT !.at = "gone"]
      OBVIOUS
    <3>2. e \in CallRecords /\ e.at # "idle"
      BY <3>1 DEF CallRecords, NoCall
    <3>. QED  BY <2>3, <3>1, <3>2 DEF CallUnwinds, Begins, pools
  <2>. QED  BY <2>1, <2>2, <2>3
<1>3. UNCHANGED <<sd, serverIndex, taken>> /\ UNCHANGED <<rpcServers, sifOps>>
  BY DEF ServerReturns, EndReturns, CallUnwinds, lists, pools
<1>. QED  BY <1>1, <1>2, <1>3, CallStep

\* A bind to a service without server takes a placeholder that no service uses.
LEMMA BindKeeps ==
    ASSUME RpcInv, NEW f \in RpcFibers, NEW sid \in Sids, SifBindRpc(f, sid)
    PROVE  RpcInv'
<1>0. RpcTypes /\ PacketInv /\ BindInv
  BY DEF RpcInv
<1>1. /\ rpcServers \in [Sids -> Servers \cup {Nil}] /\ rpcClients \in [RpcFibers -> ClientRecords]
      /\ Nil \notin Sids /\ Nil \notin Servers
  BY <1>0, SifRpcAssumption DEF RpcTypes
<1>2. PICK server : server = IF rpcServers[sid] = Nil THEN serverIndex + 1 ELSE rpcServers[sid]
  OBVIOUS
<1>3. PICK r : r = [Zeroed EXCEPT !.sid = sid]
  OBVIOUS
<1>4. r \in DescRecords /\ r.sid = sid
  BY <1>3 DEF Zeroed, DescRecords
<1>5. /\ IF rpcServers[sid] = Nil THEN rpcAllocServerAddr(r)
         ELSE UNCHANGED <<serverIndex, sd, taken>>
      /\ rpcServers' = [rpcServers EXCEPT ![sid] = server]
      /\ UNCHANGED sifOps
  BY <1>2, <1>3 DEF SifBindRpc
<1>6. /\ sd' \in [Servers -> DescRecords] /\ serverIndex' \in 0..PoolSize - 1
      /\ taken' \in 0..PoolSize + 1 /\ server \in Servers /\ SlotAt'
      /\ taken' <= PoolSize => \A s \in Sids : rpcServers'[s] \in Pool =>
                                  rpcServers'[s] <= taken' /\ sd'[rpcServers'[s]].sid = s
  <2>1. CASE rpcServers[sid] # Nil
    <3>1. UNCHANGED <<serverIndex, sd, taken, rpcServers>> /\ server = rpcServers[sid]
      BY <1>1, <1>2, <1>5, <2>1
    <3>2. SlotAt' /\ SlotOwn'
      BY <1>0, <3>1, SlotsSame
    <3>3. /\ sd' \in [Servers -> DescRecords] /\ serverIndex' \in 0..PoolSize - 1
          /\ taken' \in 0..PoolSize + 1 /\ server \in Servers
      BY <1>0, <1>1, <2>1, <3>1 DEF RpcTypes
    <3>. QED  BY <3>2, <3>3 DEF SlotOwn
  <2>2. CASE rpcServers[sid] = Nil
    <3>1. rpcAllocServerAddr(r) /\ server = serverIndex + 1
      BY <1>2, <1>5, <2>2
    <3>2. /\ sd' \in [Servers -> DescRecords] /\ sd'[serverIndex + 1] = r
          /\ serverIndex' \in 0..PoolSize - 1 /\ taken' \in 0..PoolSize + 1
          /\ serverIndex + 1 \in Pool /\ SlotAt'
          /\ taken' <= PoolSize =>
                /\ serverIndex + 1 <= taken'
                /\ \A s \in Sids : rpcServers[s] \in Pool =>
                      rpcServers[s] <= taken' /\ sd'[rpcServers[s]].sid = s
      BY <1>0, <1>4, <3>1, SlotTaken
    <3>3. /\ rpcServers'[sid] = server
          /\ \A s \in Sids : s # sid => rpcServers'[s] = rpcServers[s]
      BY <1>1, <1>5
    <3>4. ASSUME taken' <= PoolSize, NEW s \in Sids, rpcServers'[s] \in Pool
          PROVE  rpcServers'[s] <= taken' /\ sd'[rpcServers'[s]].sid = s
      <4>1. CASE s = sid
        BY <1>4, <3>1, <3>2, <3>3, <3>4, <4>1
      <4>2. CASE s # sid
        BY <3>2, <3>3, <3>4, <4>2
      <4>. QED  BY <4>1, <4>2
    <3>. QED  BY <3>1, <3>2, <3>4 DEF Servers
  <2>. QED  BY <2>1, <2>2
<1>7. SlotOwn'
  BY <1>6 DEF SlotOwn
<1>8. PICK k : k = [NoClient EXCEPT !.sid = sid, !.server = server]
  OBVIOUS
<1>9. k \in ClientRecords /\ k.sid = sid /\ k.server = server
  BY <1>6, <1>8 DEF NoClient, ClientRecords
<1>10. PICK clients : clients = [rpcClients EXCEPT ![f] = k]
  OBVIOUS
<1>11. /\ clients \in [RpcFibers -> ClientRecords] /\ clients[f] = k
       /\ \A g \in RpcFibers : g # f => clients[g] = rpcClients[g]
  BY <1>1, <1>9, <1>10
<1>12. Completes(f, clients) /\ Stamp(f, clients)
  BY <1>2, <1>8, <1>10 DEF SifBindRpc, Completes
<1>13. rpcServers' \in [Sids -> Servers \cup {Nil}]
  BY <1>1, <1>5, <1>6
<1>14. RpcTypes'
  BY <1>0, <1>5, <1>6, <1>11, <1>12, <1>13, StepTypes
<1>15. PacketInv'
  BY <1>0, <1>11, <1>12, StampKeeps
<1>16. /\ rpcClients'[f].sid = sid /\ rpcClients'[f].server = server
       /\ \A g \in RpcFibers : g # f => rpcClients'[g] = rpcClients[g]
  BY <1>0, <1>9, <1>11, <1>12, StampTypes
<1>17. ASSUME NEW g \in RpcFibers PROVE BoundTo(g)'
  <2>1. /\ rpcServers'[sid] = server /\ server # Nil
        /\ \A s \in Sids : rpcServers[s] # Nil => rpcServers'[s] = rpcServers[s]
    BY <1>1, <1>2, <1>5, <1>6
  <2>2. CASE g = f
    BY <1>16, <2>1, <2>2 DEF BoundTo
  <2>3. CASE g # f
    <3>1. rpcClients'[g] = rpcClients[g] /\ rpcClients[g] \in ClientRecords /\ BoundTo(g)
      BY <1>0, <1>1, <1>16, <2>3 DEF BindInv
    <3>2. rpcClients[g].sid \in Sids \cup {Nil}
      BY <3>1 DEF ClientRecords
    <3>. QED  BY <2>1, <3>1, <3>2 DEF BoundTo
  <2>. QED  BY <2>2, <2>3
<1>. QED  BY <1>6, <1>7, <1>14, <1>15, <1>17 DEF RpcInv, BindInv

LinkTo(m, x, l) == [m EXCEPT ![x].link = l]

\* A link that is set leaves every descriptor its service.
LEMMA LinkSet ==
    ASSUME NEW m \in [Servers -> DescRecords], NEW x, NEW l \in Servers \cup {Nil}
    PROVE  /\ LinkTo(m, x, l) \in [Servers -> DescRecords]
           /\ \A s \in Servers : LinkTo(m, x, l)[s].sid = m[s].sid
<1>0. PICK n : n = LinkTo(m, x, l) /\ n = [m EXCEPT ![x].link = l]
  BY DEF LinkTo
<1>1. CASE x \in Servers
  <2>1. PICK r : r = [m[x] EXCEPT !.link = l]
    OBVIOUS
  <2>2. r \in DescRecords /\ r.sid = m[x].sid
    BY <1>1, <2>1 DEF DescRecords
  <2>3. n = [m EXCEPT ![x] = r]
    BY <1>0, <2>1
  <2>. QED  BY <1>0, <1>1, <2>2, <2>3
<1>2. CASE x \notin Servers
  BY <1>0, <1>2
<1>. QED  BY <1>1, <1>2

\* A registration takes the clients of the service with it.
LEMMA RegisterKeeps ==
    ASSUME RpcInv, NEW q, NEW d \in sifOps.servers, NEW sid \in Sids, NEW func \in BOOLEAN,
           SifRegisterRpc(d, sid, q, func)
    PROVE  RpcInv'
<1>0. RpcTypes /\ PacketInv /\ BindInv
  BY DEF RpcInv
<1>1. /\ d \in Servers /\ d # Nil /\ d \notin Pool /\ Nil \notin Sids /\ Nil \notin Servers
      /\ sd \in [Servers -> DescRecords] /\ rpcServers \in [Sids -> Servers \cup {Nil}]
      /\ rpcClients \in [RpcFibers -> ClientRecords]
  BY <1>0, SifRpcAssumption DEF RpcTypes, Servers
<1>2. PICK r : r = [sid |-> sid, func |-> func, link |-> Nil]
  OBVIOUS
<1>3. r \in DescRecords /\ r.sid = sid
  BY <1>2 DEF DescRecords
<1>4. PICK fresh : fresh = [sd EXCEPT ![d] = r]
  OBVIOUS
<1>5. /\ fresh \in [Servers -> DescRecords]
      /\ \A s \in Servers : s # d => fresh[s].sid = sd[s].sid
  BY <1>1, <1>3, <1>4
<1>6. sd' = fresh \/ \E x : sd' = [fresh EXCEPT ![x].link = d]
  BY <1>2, <1>4 DEF SifRegisterRpc
<1>7. sd' \in [Servers -> DescRecords] /\ \A s \in Servers : sd'[s].sid = fresh[s].sid
  <2>1. ASSUME NEW x, sd' = [fresh EXCEPT ![x].link = d]
        PROVE  sd' \in [Servers -> DescRecords] /\ \A s \in Servers : sd'[s].sid = fresh[s].sid
    <3>1. sd' = LinkTo(fresh, x, d) /\ d \in Servers \cup {Nil}
      BY <1>1, <2>1 DEF LinkTo
    <3>. QED  BY <1>5, <3>1, LinkSet
  <2>2. CASE sd' = fresh
    BY <1>5, <2>2
  <2>. QED  BY <1>6, <2>1, <2>2
<1>8. /\ rpcServers' = [rpcServers EXCEPT ![sid] = d] /\ rpcClients' = Remapped(sid, d)
      /\ UNCHANGED <<serverIndex, taken, packets, packetIndex, since, sifOps, call>>
  BY DEF SifRegisterRpc, pools
<1>9. /\ rpcServers'[sid] = d /\ \A t \in Sids : t # sid => rpcServers'[t] = rpcServers[t]
      /\ rpcServers' \in [Sids -> Servers \cup {Nil}]
  BY <1>1, <1>8
<1>10. ASSUME NEW f \in RpcFibers
       PROVE  /\ rpcClients'[f] \in ClientRecords /\ rpcClients'[f].sid = rpcClients[f].sid
              /\ rpcClients'[f].busy = rpcClients[f].busy /\ rpcClients'[f].pkt = rpcClients[f].pkt
              /\ rpcClients'[f].server = IF rpcClients[f].sid = sid THEN d ELSE rpcClients[f].server
  <2>1. rpcClients[f] \in ClientRecords
    BY <1>1
  <2>2. PICK k : k = [rpcClients[f] EXCEPT !.server = d]
    OBVIOUS
  <2>3. /\ k \in ClientRecords /\ k.sid = rpcClients[f].sid /\ k.busy = rpcClients[f].busy
        /\ k.pkt = rpcClients[f].pkt /\ k.server = d
    BY <1>1, <2>1, <2>2 DEF ClientRecords
  <2>4. rpcClients'[f] = IF rpcClients[f].sid = sid THEN k ELSE rpcClients[f]
    BY <1>8, <2>2 DEF Remapped
  <2>. QED  BY <2>1, <2>3, <2>4
<1>11. RpcTypes'
  <2>1. rpcClients' \in [RpcFibers -> ClientRecords]
    BY <1>8, <1>10 DEF Remapped
  <2>. QED  BY <1>0, <1>7, <1>8, <1>9, <2>1 DEF RpcTypes
<1>12. PacketInv'
  <2>1. \A g \in RpcFibers : call'[g].at = "idle" =>
           /\ call[g].at = "idle" /\ rpcClients'[g].sid = rpcClients[g].sid
           /\ rpcClients'[g].busy = rpcClients[g].busy
    BY <1>8, <1>10
  <2>. QED  BY <1>0, <1>8, <1>10, <2>1, QuietKeeps
<1>13. SlotAt' /\ SlotOwn'
  <2>1. SlotAt'
    BY <1>0, <1>8 DEF BindInv, SlotAt
  <2>2. ASSUME taken' <= PoolSize, NEW s \in Sids, rpcServers'[s] \in Pool
        PROVE  rpcServers'[s] <= taken' /\ sd'[rpcServers'[s]].sid = s
    <3>1. s # sid /\ rpcServers'[s] = rpcServers[s]
      BY <1>1, <1>9, <2>2
    <3>2. rpcServers[s] <= taken /\ sd[rpcServers[s]].sid = s
      BY <1>0, <1>8, <2>2, <3>1 DEF BindInv, SlotOwn
    <3>3. rpcServers[s] \in Servers /\ rpcServers[s] # d
      BY <1>1, <2>2, <3>1 DEF Servers
    <3>. QED  BY <1>5, <1>7, <1>8, <3>1, <3>2, <3>3
  <2>. QED  BY <2>1, <2>2 DEF SlotOwn
<1>14. ASSUME NEW f \in RpcFibers PROVE BoundTo(f)'
  <2>1. BoundTo(f) /\ rpcClients[f].sid \in Sids \cup {Nil}
    BY <1>0, <1>1 DEF BindInv, ClientRecords
  <2>. QED  BY <1>1, <1>9, <1>10, <2>1 DEF BoundTo
<1>. QED  BY <1>11, <1>12, <1>13, <1>14 DEF RpcInv, BindInv

\* What changes neither services nor clients nor packets, and no service of a descriptor.
LEMMA ElsewhereKeeps ==
    ASSUME RpcInv, UNCHANGED <<rpcServers, rpcClients, serverIndex, taken, packets, packetIndex,
                               since, sifOps, call>>,
           sd' \in [Servers -> DescRecords], \A s \in Servers : sd'[s].sid = sd[s].sid
    PROVE  RpcInv'
<1>0. RpcTypes /\ PacketInv /\ BindInv
  BY DEF RpcInv
<1>1. RpcTypes'
  BY <1>0 DEF RpcTypes
<1>2. PacketInv'
  BY <1>0, QuietKeeps
<1>3. SlotAt' /\ SlotOwn'
  BY <1>0, SlotsSame
<1>4. \A f \in RpcFibers : BoundTo(f)'
  BY <1>0 DEF BindInv, BoundTo
<1>. QED  BY <1>1, <1>2, <1>3, <1>4 DEF RpcInv, BindInv

\* A server taken from its list keeps its service.
LEMMA RemoveKeeps ==
    ASSUME RpcInv, NEW q, NEW d \in sifOps.servers, SifRemoveRpc(d, q)
    PROVE  RpcInv'
<1>1. d \in Servers /\ sd \in [Servers -> DescRecords]
  BY SifRpcAssumption DEF RpcInv, RpcTypes, Servers
<1>2. PICK l \in Servers \cup {Nil} : l = sd[d].link
  BY <1>1 DEF DescRecords
<1>3. Nil \in Servers \cup {Nil}
  OBVIOUS
<1>4. UNCHANGED <<rpcServers, rpcClients, serverIndex, taken, packets, packetIndex, since, sifOps,
                  call>>
  BY DEF SifRemoveRpc, pools
<1>5. CASE sd' = [sd EXCEPT ![d].link = Nil]
  <2>0. sd' = LinkTo(sd, d, Nil)
    BY <1>5 DEF LinkTo
  <2>1. sd' \in [Servers -> DescRecords] /\ \A s \in Servers : sd'[s].sid = sd[s].sid
    BY <1>1, <1>3, <2>0, LinkSet
  <2>. QED  BY <1>4, <2>1, ElsewhereKeeps
<1>6. ASSUME NEW s \in Servers, sd' = [sd EXCEPT ![s].link = sd[d].link, ![d].link = Nil]
      PROVE  RpcInv'
  <2>1. PICK m : m = LinkTo(sd, s, l)
    OBVIOUS
  <2>2. m \in [Servers -> DescRecords] /\ \A t \in Servers : m[t].sid = sd[t].sid
    BY <1>1, <2>1, LinkSet
  <2>3. sd' = LinkTo(m, d, Nil)
    BY <1>2, <1>6, <2>1 DEF LinkTo
  <2>4. sd' \in [Servers -> DescRecords] /\ \A t \in Servers : sd'[t].sid = m[t].sid
    BY <1>3, <2>2, <2>3, LinkSet
  <2>. QED  BY <1>4, <2>2, <2>4, ElsewhereKeeps
<1>. QED  BY <1>5, <1>6 DEF SifRemoveRpc

\* It holds throughout.
LEMMA RpcInvariant == Spec => []RpcInv
<1>1. Init => RpcInv
  <2>. SUFFICES ASSUME Init PROVE RpcInv
    OBVIOUS
  <2>0. /\ PoolSize \in Nat \ {0} /\ PacketCount \in Nat \ {0}
        /\ Nil \notin Servers
    BY SifRpcAssumption
  <2>1. NoCall \in CallRecords /\ Zeroed \in DescRecords
    BY DEF NoCall, CallRecords, Zeroed, DescRecords
  <2>2. NoClient \in ClientRecords /\ NoClient.sid = Nil /\ NoClient.pkt = Nil
    BY DEF NoClient, ClientRecords
  <2>3. /\ rpcServers = [s \in Sids |-> Nil] /\ rpcClients = [f \in RpcFibers |-> NoClient]
        /\ sd = [s \in Servers |-> Zeroed] /\ serverIndex = 0 /\ taken = 0
        /\ packets = [p \in RpcPackets |-> Nil] /\ packetIndex = 0
        /\ since = [f \in RpcFibers |-> PacketCount] /\ sifOps \in SifPrograms
        /\ call = [f \in RpcFibers |-> NoCall]
    BY DEF Init, SifInitRpc
  <2>4. RpcTypes
    BY <2>0, <2>1, <2>2, <2>3 DEF RpcTypes
  <2>5. \A f \in RpcFibers : rpcClients[f] = NoClient
    BY <2>3
  <2>6. PacketInv
    BY <2>2, <2>5 DEF PacketInv, StampedAt, Settled
  <2>7. SlotAt /\ SlotOwn
    <3>1. Nil \notin Pool
      BY <2>0 DEF Servers
    <3>. QED  BY <2>0, <2>3, <3>1 DEF SlotAt, SlotOwn
  <2>8. \A f \in RpcFibers : BoundTo(f)
    BY <2>2, <2>5 DEF BoundTo
  <2>. QED  BY <2>4, <2>6, <2>7, <2>8 DEF RpcInv, BindInv
<1>2. ASSUME RpcInv, SifNext PROVE RpcInv'
  <2>1. CASE UNCHANGED <<rpcServers, rpcClients, sd, serverIndex, taken, packets, packetIndex,
                         since, sifOps, call>>
    <3>1. sd' \in [Servers -> DescRecords] /\ \A s \in Servers : sd'[s].sid = sd[s].sid
      BY <1>2, <2>1 DEF RpcInv, RpcTypes
    <3>. QED  BY <1>2, <2>1, <3>1, ElsewhereKeeps
  <2>2. ASSUME NEW q \in sifOps.queues, SifSetRpcQueue(q) \/ SifRemoveRpcQueue(q)
        PROVE  RpcInv'
    BY <2>1, <2>2 DEF SifSetRpcQueue, SifRemoveRpcQueue, pools
  <2>3. CASE SifInitRpcAgain
    BY <2>1, <2>3 DEF SifInitRpcAgain, lists
  <2>4. ASSUME NEW f \in RpcFibers, NEW end \in {"none", "driver", "guest"}, NEW hle \in BOOLEAN,
               NEW req \in Requests, SifCallRpc(f, end, hle, req)
        PROVE  RpcInv'
    BY <1>2, <2>4, CallKeeps
  <2>5. ASSUME NEW f \in RpcFibers, ServerReturns(f) \/ EndReturns(f) \/ CallUnwinds(f)
        PROVE  RpcInv'
    BY <1>2, <2>5, ReturnKeeps
  <2>6. ASSUME NEW f \in RpcFibers, NEW sid \in Sids, SifBindRpc(f, sid) PROVE RpcInv'
    BY <1>2, <2>6, BindKeeps
  <2>7. ASSUME NEW q \in sifOps.queues, NEW d \in sifOps.servers, NEW sid \in Sids,
               NEW func \in BOOLEAN, SifRegisterRpc(d, sid, q, func)
        PROVE  RpcInv'
    BY <1>2, <2>7, RegisterKeeps
  <2>8. ASSUME NEW q \in sifOps.queues, NEW d \in sifOps.servers, SifRemoveRpc(d, q)
        PROVE  RpcInv'
    BY <1>2, <2>8, RemoveKeeps
  <2>. QED  BY <1>2, <2>2, <2>3, <2>4, <2>5, <2>6, <2>7, <2>8 DEF SifNext
<1>3. RpcInv /\ UNCHANGED sifVars => RpcInv'
  <2>. SUFFICES ASSUME RpcInv, UNCHANGED sifVars PROVE RpcInv'
    OBVIOUS
  <2>1. /\ UNCHANGED <<rpcServers, rpcClients, serverIndex, taken, packets, packetIndex, since,
                       sifOps, call>>
        /\ sd' = sd
    BY DEF sifVars, lists, pools
  <2>2. sd' \in [Servers -> DescRecords] /\ \A s \in Servers : sd'[s].sid = sd[s].sid
    BY <2>1 DEF RpcInv, RpcTypes
  <2>. QED  BY <2>1, <2>2, ElsewhereKeeps
<1>4. RpcInv /\ [Next]_vars => RpcInv'
  BY <1>2, <1>3 DEF Next, vars
<1>. QED  BY <1>1, <1>4, PTL DEF Spec

\* A client none of whose calls is under way or was cut short is not busy, and the
\* packet it points to holds its own completion until the pool of packets has come
\* round, whichever of the server's function, the emulated module and the end callback
\* took part, and whatever other fibers bound and called in between (RPC.cpp,
\* SifBindRpc, SifCallRpc, rpcAllocPacketAddr).
THEOREM CompletionsOwn == Spec => []CompletionIsOwn
<1>1. RpcInv => CompletionIsOwn
  BY DEF RpcInv, PacketInv, StampedAt, Settled, CompletionIsOwn
<1>. QED  BY RpcInvariant, <1>1, PTL

\* Whatever the order of binds, registrations, removals and calls, a bound client is
\* at the server its service has now, and a placeholder is the service's own until
\* binds and streams together have taken more slots than the pool has: its index comes
\* round without asking whether a slot is in use (RPC.cpp, rpcAllocServerAddr).
THEOREM ClientsFollow == Spec => []ClientFollowsServer
<1>1. ASSUME RpcInv PROVE ClientFollowsServer
  <2>1. ASSUME NEW f \in RpcFibers, rpcClients[f].sid # Nil
        PROVE  /\ rpcClients[f].server = rpcServers[rpcClients[f].sid]
               /\ rpcServers[rpcClients[f].sid] \in Pool /\ taken <= PoolSize =>
                     sd[rpcServers[rpcClients[f].sid]].sid = rpcClients[f].sid
    <3>1. BoundTo(f) /\ SlotOwn /\ rpcClients[f].sid \in Sids
      BY <1>1, <2>1 DEF RpcInv, BindInv, RpcTypes, ClientRecords
    <3>. QED  BY <2>1, <3>1 DEF BoundTo, SlotOwn
  <2>. QED  BY <2>1 DEF ClientFollowsServer
<1>. QED  BY RpcInvariant, <1>1, PTL

-----------------------------------------------------------------------------
(* The debugger: types *)

Tids == DbgThreads \cup {Nobody}
Addresses == Pcs \cup {Nobody}
Fields == [pc : Addresses, gpr : {0, 1}]

InTurn == {"claim", "pc", "gpr", "even", "read", "write", "check"}
Spinning == {"spin", "spinread", "spinwrite", "spinreg"}
Serving == {"read", "write", "spinread", "spinwrite", "spinreg"}
RunnerRecords == [at : {"run", "clear", "halt", "ack"} \cup InTurn \cup Spinning, tid : Tids,
                  pc : Addresses, gpr : {0, 1}, box : Serving, payload : Nat]

Looking == {"seq", "copy_pc", "copy_gpr", "seq2", "regs"}
GuiRecords == [at : {"idle", "cond_reg", "cond_value", "unhit", "release", "arm", "poll"}
                    \cup Looking,
               slot : Nat, cond : Conds, pcs : SUBSET Pcs, tid : Tids, box : Boxes,
               payload : {0, 1, 2}, free : BOOLEAN, tries : Nat, copy : Fields]

BoxRecords == [payload : {0, 1, 2}, armed : BOOLEAN, applied : [payload : {0, 1, 2}, tid : Tids]]
SlotRecords == [tid : Tids, pc : Addresses, gpr : {0, 1}, odd : BOOLEAN, moved : BOOLEAN,
                whole : Fields]

DbgTypes ==
    /\ hit \in [on : BOOLEAN, addr : Addresses, tid : Tids]
    /\ stepTid \in Tids
    /\ box \in [Boxes -> BoxRecords]
    /\ states \in [DbgSlots -> SlotRecords]
    /\ runner \in RunnerRecords
    /\ gui \in GuiRecords
    /\ over \in [on : BOOLEAN, tid : Tids, ra : Addresses]
    /\ ran \in [tid : Tids, turns : 0..2, halted : BOOLEAN]

\* The thread the debugger takes for the current one is a thread or nobody.
LEMMA CurrentTidType == ASSUME DbgTypes PROVE CurrentTid \in Tids
<1> DEFINE claimed == {i \in DbgSlots : states[i].tid # Nobody}
           first == CHOOSE i \in claimed : \A j \in claimed : i <= j
<1>1. CASE hit.on
  BY <1>1 DEF CurrentTid, DbgTypes
<1>2. CASE ~hit.on /\ claimed = {}
  BY <1>2 DEF CurrentTid, Tids
<1>3. CASE ~hit.on /\ claimed # {}
  <2>1. \E i \in claimed : \A j \in claimed : i <= j
    <3>1. claimed \in SUBSET Nat
      BY DebugIpcAssumption
    <3>. HIDE DEF claimed
    <3>. QED  BY <1>3, <3>1, MinPosition
  <2>2. first \in claimed
    BY <2>1
  <2>3. states[first].tid \in Tids
    BY <2>2 DEF DbgTypes, SlotRecords
  <2>4. CurrentTid = states[first].tid
    BY <1>3 DEF CurrentTid
  <2>. QED  BY <2>3, <2>4
<1>. QED  BY <1>1, <1>2, <1>3

\* Where Goes leads.
LEMMA GoesType ==
    ASSUME DbgTypes, NEW place \in {"run", "clear", "halt", "ack"} \cup InTurn \cup Spinning,
           Goes(place)
    PROVE  /\ runner' \in RunnerRecords /\ runner'.at = place
           /\ place # "run" => /\ runner'.tid = runner.tid /\ runner'.pc = runner.pc
                               /\ runner'.gpr = runner.gpr /\ runner'.payload = runner.payload
<1>1. CASE place = "run"
  BY <1>1 DEF Goes, RunnerOut, RunnerRecords, Tids, Addresses, Serving
<1>2. CASE place # "run"
  BY <1>2 DEF Goes, DbgTypes, RunnerRecords
<1>. QED  BY <1>1, <1>2

\* Where GuiAt leads.
LEMMA GuiAtType ==
    ASSUME DbgTypes,
           NEW place \in {"idle", "cond_reg", "cond_value", "unhit", "release", "arm", "poll"}
                         \cup Looking,
           GuiAt(place)
    PROVE  /\ gui' \in GuiRecords /\ gui'.at = place
           /\ place # "idle" => gui' = [gui EXCEPT !.at = place]
<1>1. CASE place = "idle"
  BY <1>1 DEF GuiAt, GuiIdle, GuiRecords, Tids, Addresses, Fields, Boxes, Conds
<1>2. CASE place # "idle"
  BY <1>2 DEF GuiAt, DbgTypes, GuiRecords
<1>. QED  BY <1>1, <1>2

\* The runner's steps keep the types.
LEMMA RunnerTypes == ASSUME DbgTypes, Runner PROVE DbgTypes'
<1>. USE DEF shared
<1>1. ASSUME NEW t \in DbgThreads, NEW pc \in Pcs, NEW gpr \in {0, 1}, Dispatch(t, pc, gpr)
      PROVE  DbgTypes'
  <2>1. runner' \in RunnerRecords
    BY <1>1 DEF Dispatch, RunnerRecords, Tids, Addresses, InTurn, Serving
  <2>2. ran' \in [tid : Tids, turns : 0..2, halted : BOOLEAN]
    BY <1>1 DEF Dispatch, DbgTypes
  <2>. QED  BY <1>1, <2>1, <2>2 DEF Dispatch, DbgTypes
<1>2. CASE FindOrClaimSlot
  <2>1. PICK i \in DbgSlots :
           /\ states' = [states EXCEPT ![i].tid = runner.tid, ![i].odd = TRUE]
           /\ runner' = [runner EXCEPT !.at = "pc", !.payload = i]
    BY <1>2 DEF FindOrClaimSlot
  <2>2. i \in Nat
    BY DebugIpcAssumption
  <2>3. runner' \in RunnerRecords
    BY <2>1, <2>2 DEF DbgTypes, RunnerRecords, InTurn
  <2>4. states' \in [DbgSlots -> SlotRecords]
    BY <2>1 DEF DbgTypes, RunnerRecords, SlotRecords
  <2>. QED  BY <1>2, <2>3, <2>4 DEF FindOrClaimSlot, DbgTypes
<1>3. CASE UpdateSlot
  <2>1. runner' \in RunnerRecords
    BY <1>3, GoesType DEF UpdateSlot, InTurn
  <2>2. states' \in [DbgSlots -> SlotRecords]
    <3>1. PICK w : w = [pc |-> runner.pc, gpr |-> runner.gpr]
      OBVIOUS
    <3>2. w \in Fields
      BY <3>1 DEF DbgTypes, RunnerRecords, Fields
    <3>3. Reading \in BOOLEAN
      BY DEF Reading
    <3>4. PICK r \in BOOLEAN : r = Reading
      BY <3>3, Zenon
    <3>5. CASE runner.at = "pc"
      BY <1>3, <3>5 DEF UpdateSlot, DbgTypes, RunnerRecords, SlotRecords
    <3>6. CASE runner.at = "gpr"
      BY <1>3, <3>6 DEF UpdateSlot, DbgTypes, RunnerRecords, SlotRecords
    <3>7. CASE runner.at = "even"
      <4>1. states' = [states EXCEPT ![runner.payload].odd = FALSE, ![runner.payload].moved = r,
                                     ![runner.payload].whole = w]
        BY <1>3, <3>1, <3>4, <3>7 DEF UpdateSlot
      <4>2. PICK p : p = runner.payload
        OBVIOUS
      <4>3. PICK s : s = [states[p] EXCEPT !.odd = FALSE, !.moved = r, !.whole = w]
        OBVIOUS
      <4>4. p \in DbgSlots => s \in SlotRecords
        BY <3>2, <4>3 DEF DbgTypes, SlotRecords
      <4>5. states' = [states EXCEPT ![p] = s]
        BY <4>1, <4>2, <4>3 DEF DbgTypes
      <4>. QED  BY <4>4, <4>5 DEF DbgTypes
    <3>. QED  BY <1>3, <3>5, <3>6, <3>7 DEF UpdateSlot
  <2>. QED  BY <1>3, <2>1, <2>2 DEF UpdateSlot, DbgTypes
<1>4. CASE ServiceRequest
  <2>1. /\ runner.at \in Serving /\ BoxOf[runner.at] \in Boxes
        /\ After[runner.at] \in InTurn \cup Spinning
    BY <1>4 DEF ServiceRequest, After, BoxOf, Serving, Boxes, InTurn, Spinning
  <2>2. PICK b \in Boxes : b = BoxOf[runner.at]
    BY <2>1
  <2>3. CASE ~box[b].armed
    <3>1. Goes(After[runner.at]) /\ UNCHANGED box
      BY <1>4, <2>2, <2>3 DEF ServiceRequest
    <3>2. runner' \in RunnerRecords
      BY <2>1, <3>1, GoesType
    <3>. QED  BY <1>4, <3>1, <3>2 DEF ServiceRequest, DbgTypes
  <2>4. CASE box[b].armed
    <3>1. PICK a : a = [payload |-> box[b].payload, tid |-> runner.tid]
      OBVIOUS
    <3>2. a \in [payload : {0, 1, 2}, tid : Tids]
      BY <3>1 DEF DbgTypes, BoxRecords, RunnerRecords
    <3>3. /\ runner' = [runner EXCEPT !.at = "ack", !.box = runner.at]
          /\ box' = [box EXCEPT ![b].applied = a]
      BY <1>4, <2>2, <2>4, <3>1 DEF ServiceRequest
    <3>4. box' \in [Boxes -> BoxRecords]
      BY <3>2, <3>3 DEF DbgTypes, BoxRecords
    <3>5. runner' \in RunnerRecords
      BY <2>1, <3>3 DEF DbgTypes, RunnerRecords
    <3>. QED  BY <1>4, <3>4, <3>5 DEF ServiceRequest, DbgTypes
  <2>. QED  BY <2>3, <2>4
<1>5. CASE Acknowledge
  <2>1. BoxOf[runner.box] \in Boxes /\ After[runner.box] \in InTurn \cup Spinning
    BY DEF DbgTypes, RunnerRecords, After, BoxOf, Serving, Boxes, InTurn, Spinning
  <2>2. PICK b \in Boxes : b = BoxOf[runner.box]
    BY <2>1
  <2>3. box' = [box EXCEPT ![b].armed = FALSE]
    BY <1>5, <2>2 DEF Acknowledge
  <2>4. box' \in [Boxes -> BoxRecords]
    BY <2>3 DEF DbgTypes, BoxRecords
  <2>5. runner' \in RunnerRecords
    BY <1>5, <2>1, GoesType DEF Acknowledge
  <2>. QED  BY <1>5, <2>4, <2>5 DEF Acknowledge, DbgTypes
<1>6. CASE CheckBreakpoint
  <2>1. runner' \in RunnerRecords
    BY <1>6, GoesType DEF CheckBreakpoint
  <2>. QED  BY <1>6, <2>1 DEF CheckBreakpoint, DbgTypes
<1>6a. CASE ClearStep
  <2>1. runner' \in RunnerRecords
    BY <1>6a, GoesType DEF ClearStep
  <2>. QED  BY <1>6a, <2>1 DEF ClearStep, DbgTypes, Tids
<1>7. CASE Halt
  <2>1. runner' \in RunnerRecords
    BY <1>7, GoesType DEF Halt, Spinning
  <2>2. hit' \in [on : BOOLEAN, addr : Addresses, tid : Tids]
    BY <1>7 DEF Halt, DbgTypes, RunnerRecords
  <2>3. ran' \in [tid : Tids, turns : 0..2, halted : BOOLEAN]
    BY <1>7 DEF Halt, DbgTypes, NotStepped, Tids
  <2>. QED  BY <1>7, <2>1, <2>2, <2>3 DEF Halt, DbgTypes
<1>8. CASE Spin
  <2>1. runner' \in RunnerRecords
    BY <1>8, GoesType DEF Spin, Spinning
  <2>. QED  BY <1>8, <2>1 DEF Spin, DbgTypes
<1>. QED  BY <1>1, <1>2, <1>3, <1>4, <1>5, <1>6, <1>6a, <1>7, <1>8 DEF Runner

\* So do the debugger's.
LEMMA DebuggerTypes ==
    ASSUME DbgTypes, gui.at \in Looking => gui.slot \in DbgSlots, Debugger PROVE DbgTypes'
<1>. USE DEF shared
<1>1. NoHit \in [on : BOOLEAN, addr : Addresses, tid : Tids]
  BY DEF NoHit, Addresses, Tids
<1>2. ASSUME NEW pc \in Pcs, NEW cond \in Conds, AddBreakpoint(pc, cond) PROVE DbgTypes'
  <2>1. PICK i \in BpSlots : gui' = [gui EXCEPT !.at = "cond_reg", !.slot = i, !.cond = cond]
    BY <1>2 DEF AddBreakpoint
  <2>2. i \in Nat
    BY DebugIpcAssumption
  <2>3. gui' \in GuiRecords
    BY <2>1, <2>2 DEF DbgTypes, GuiRecords
  <2>. QED  BY <1>2, <2>3 DEF AddBreakpoint, DbgTypes
<1>3. CASE StoreCondition
  <2>1. gui' \in GuiRecords
    BY <1>3, GuiAtType DEF StoreCondition
  <2>. QED  BY <1>3, <2>1 DEF StoreCondition, DbgTypes
<1>4. ASSUME NEW pcs \in SUBSET Pcs, RemoveBreakpoints(pcs) PROVE DbgTypes'
  <2>1. gui' \in GuiRecords
    BY <1>4 DEF RemoveBreakpoints, DbgTypes, GuiRecords
  <2>. QED  BY <1>4, <2>1 DEF RemoveBreakpoints, DbgTypes
<1>5. CASE ReleaseRemoved
  <2>1. gui' \in GuiRecords
    BY <1>5, GuiAtType DEF ReleaseRemoved
  <2>. QED  BY <1>1, <1>5, <2>1 DEF ReleaseRemoved, DbgTypes
<1>6. CASE Resume
  <2>1. over' \in [on : BOOLEAN, tid : Tids, ra : Addresses]
    BY <1>6 DEF Resume, DbgTypes
  <2>. QED  BY <1>1, <1>6, <2>1 DEF Resume, DbgTypes
<1>7. CASE Pause
  <2>1. stepTid' \in Tids /\ ran' \in [tid : Tids, turns : 0..2, halted : BOOLEAN]
    BY <1>7, CurrentTidType DEF Pause, ArmStep, DbgTypes
  <2>. QED  BY <1>7, <2>1 DEF Pause, DbgTypes
<1>8. CASE Step
  <2>1. CASE gui.at = "idle"
    <3>1. PICK t \in Tids : t = CurrentTid
      BY CurrentTidType
    <3>2. /\ ArmStep(t)
          /\ \E ra \in Addresses : over' = IF ra = Nobody THEN over
                                           ELSE [on |-> TRUE, tid |-> t, ra |-> ra]
          /\ gui' = [gui EXCEPT !.at = "release", !.tid = t]
          /\ UNCHANGED <<hit, box, states, runner>>
      BY <1>8, <2>1, <3>1 DEF Step, Addresses
    <3>3. gui' \in GuiRecords
      BY <3>2 DEF DbgTypes, GuiRecords
    <3>4. over' \in [on : BOOLEAN, tid : Tids, ra : Addresses]
      BY <3>2 DEF DbgTypes
    <3>5. stepTid' \in Tids /\ ran' \in [tid : Tids, turns : 0..2, halted : BOOLEAN]
      BY <3>2 DEF ArmStep, DbgTypes
    <3>. QED  BY <3>2, <3>3, <3>4, <3>5 DEF DbgTypes
  <2>2. CASE gui.at # "idle"
    <3>1. gui' \in GuiRecords
      BY <1>8, <2>2, GuiAtType DEF Step, DbgCalled
    <3>. QED  BY <1>1, <1>8, <2>2, <3>1 DEF Step, DbgCalled, DbgTypes
  <2>. QED  BY <2>1, <2>2
<1>9. CASE PollStepOver
  <2>1. CASE UNCHANGED <<stepTid, gui, ran>> /\ over' = [over EXCEPT !.on = FALSE]
    <3>1. over' \in [on : BOOLEAN, tid : Tids, ra : Addresses]
      BY <2>1 DEF DbgTypes
    <3>. QED  BY <1>9, <2>1, <3>1 DEF PollStepOver, DbgTypes
  <2>2. CASE /\ ArmStep(over.tid) /\ gui' = [gui EXCEPT !.at = "release", !.tid = over.tid]
             /\ UNCHANGED over
    <3>1. over.tid \in Tids
      BY DEF DbgTypes
    <3>2. gui' \in GuiRecords
      BY <2>2, <3>1 DEF DbgTypes, GuiRecords
    <3>3. stepTid' \in Tids /\ ran' \in [tid : Tids, turns : 0..2, halted : BOOLEAN]
      BY <2>2, <3>1 DEF ArmStep, DbgTypes
    <3>. QED  BY <1>9, <2>2, <3>1, <3>2, <3>3 DEF PollStepOver, DbgTypes
  <2>. QED  BY <1>9, <2>1, <2>2 DEF PollStepOver
<1>10. ASSUME NEW b \in Boxes, NEW payload \in {1, 2}, Request(b, payload) PROVE DbgTypes'
  <2>1. gui' \in GuiRecords
    BY <1>10 DEF Request, DbgTypes, GuiRecords
  <2>2. box' \in [Boxes -> BoxRecords]
    BY <1>10 DEF Request, DbgTypes, BoxRecords
  <2>. QED  BY <1>10, <2>1, <2>2 DEF Request, DbgTypes
<1>11. CASE ArmRequest
  <2>1. gui' \in GuiRecords
    BY <1>11, GuiAtType DEF ArmRequest
  <2>2. box' \in [Boxes -> BoxRecords]
    BY <1>11 DEF ArmRequest, DbgTypes, BoxRecords
  <2>. QED  BY <1>11, <2>1, <2>2 DEF ArmRequest, DbgTypes
<1>12. CASE PollRequest
  <2>1. gui' \in GuiRecords
    BY <1>12, GuiAtType DEF PollRequest
  <2>2. PICK a \in [payload : {0, 1, 2}, tid : Tids] : a = [payload |-> 0, tid |-> Nobody]
    BY DEF Tids
  <2>3. box' = [box EXCEPT ![gui.box].applied = a]
    BY <1>12, <2>2 DEF PollRequest
  <2>4. box' \in [Boxes -> BoxRecords]
    BY <2>3 DEF DbgTypes, BoxRecords
  <2>. QED  BY <1>12, <2>1, <2>4 DEF PollRequest, DbgTypes
<1>13. CASE BeginReadRegs
  <2>1. PICK i : i = CHOOSE j \in DbgSlots : states[j].tid = CurrentTid
    OBVIOUS
  <2>2. i \in DbgSlots /\ i \in Nat
    BY <1>13, <2>1, DebugIpcAssumption DEF BeginReadRegs
  <2>3. PICK c \in Fields : c = [pc |-> Nobody, gpr |-> 0]
    BY DEF Fields, Addresses
  <2>4. gui' = [gui EXCEPT !.at = "seq", !.tries = Attempts, !.slot = i, !.copy = c]
    BY <1>13, <2>1, <2>3 DEF BeginReadRegs
  <2>5. gui' \in GuiRecords
    BY <2>2, <2>4, DebugIpcAssumption DEF DbgTypes, GuiRecords, Looking
  <2>. QED  BY <1>13, <2>5 DEF BeginReadRegs, DbgTypes
<1>14. CASE ReadRegsTry /\ gui.slot \in DbgSlots
  <2>1. states' \in [DbgSlots -> SlotRecords]
    <3>1. PICK i \in DbgSlots : i = gui.slot
      BY <1>14
    <3>2. PICK s : s = [states[i] EXCEPT !.moved = FALSE]
      OBVIOUS
    <3>3. s \in SlotRecords
      BY <3>2 DEF DbgTypes, SlotRecords
    <3>4. UNCHANGED states \/ states' = [states EXCEPT ![i] = s]
      BY <1>14, <3>1, <3>2 DEF ReadRegsTry, DbgTypes
    <3>. QED  BY <3>3, <3>4 DEF DbgTypes
  <2>2. gui' \in GuiRecords
    <3>1. CASE gui.at = "seq"
      <4>1. PICK p \in Looking : gui' = [gui EXCEPT !.tries = @ - 1, !.at = p] /\ gui.tries > 0
        BY <1>14, <3>1 DEF ReadRegsTry, Looking
      <4>2. gui.tries - 1 \in Nat
        BY <4>1 DEF DbgTypes, GuiRecords
      <4>3. PICK n \in Nat : n = gui.tries - 1
        BY <4>2
      <4>4. gui' = [gui EXCEPT !.tries = n, !.at = p]
        BY <4>1, <4>3 DEF DbgTypes, GuiRecords
      <4>. QED  BY <4>4 DEF DbgTypes, GuiRecords
    <3>2. CASE gui.at = "copy_pc"
      <4>1. PICK p \in Addresses : p = states[gui.slot].pc
        BY <1>14 DEF DbgTypes, SlotRecords
      <4>2. gui' = [gui EXCEPT !.at = "copy_gpr", !.copy.pc = p]
        BY <1>14, <3>2, <4>1 DEF ReadRegsTry
      <4>. QED  BY <4>2 DEF DbgTypes, GuiRecords, Looking, Fields
    <3>3. CASE gui.at = "copy_gpr"
      <4>1. PICK g \in {0, 1} : g = states[gui.slot].gpr
        BY <1>14 DEF DbgTypes, SlotRecords
      <4>2. gui' = [gui EXCEPT !.at = "seq2", !.copy.gpr = g]
        BY <1>14, <3>3, <4>1 DEF ReadRegsTry
      <4>. QED  BY <4>2 DEF DbgTypes, GuiRecords, Looking, Fields
    <3>4. CASE gui.at = "seq2"
      BY <1>14, <3>4, GuiAtType DEF ReadRegsTry, Looking
    <3>. QED  BY <1>14, <3>1, <3>2, <3>3, <3>4 DEF ReadRegsTry
  <2>. QED  BY <1>14, <2>1, <2>2 DEF ReadRegsTry, DbgTypes
<1>15. CASE ReadRegsReturns
  <2>1. gui' \in GuiRecords
    BY <1>15, GuiAtType DEF ReadRegsReturns
  <2>. QED  BY <1>15, <2>1 DEF ReadRegsReturns, DbgTypes
<1>16. ReadRegsTry => gui.slot \in DbgSlots
  BY DEF ReadRegsTry, Looking
<1>17. CASE \/ \E pc \in Pcs : RemoveBreakpoints({pc})
            \/ RemoveBreakpoints(Pcs)
  BY <1>4, <1>17
<1>. QED  BY <1>2, <1>3, <1>5, <1>6, <1>7, <1>8, <1>9, <1>10, <1>11, <1>12, <1>13, <1>14,
             <1>15, <1>16, <1>17 DEF Debugger

-----------------------------------------------------------------------------
(* A step makes one turn *)

\* The runner is in a turn, before the check of it.
Turning == runner.at \in InTurn \/ (runner.at = "ack" /\ runner.box \in {"read", "write"})

\* The step of a thread stepped at a halt is armed and its turn has not begun or is
\* under way, or the thread is about to halt; and nobody else's halt is about to
\* clear it.
StepInv ==
    /\ ran.tid = Nobody => ran.turns = 0
    /\ ran.halted /\ ran.tid # Nobody =>
          /\ runner.at = "clear" => runner.tid = ran.tid
          /\ \/ stepTid = ran.tid /\ ran.turns = 0
             \/ stepTid = ran.tid /\ ran.turns = 1 /\ runner.tid = ran.tid /\ Turning
             \/ /\ runner.at \in {"clear", "halt"} /\ runner.tid = ran.tid
                /\ ran.turns \in {0, 1}

\* What the runner's step does to its place.
LEMMA RunnerMoves ==
    ASSUME DbgTypes, Runner
    PROVE  \/ \E t \in DbgThreads, pc \in Pcs, gpr \in {0, 1} : Dispatch(t, pc, gpr)
           \/ CheckBreakpoint \/ ClearStep \/ Halt
           \/ /\ runner'.tid = runner.tid /\ Turning /\ Turning'
              /\ UNCHANGED <<hit, stepTid, ran>>
           \/ /\ ~Turning /\ runner.at \notin {"clear", "halt"}
              /\ runner'.at \notin {"clear", "halt"} /\ UNCHANGED <<hit, stepTid, ran>>
<1>1. CASE FindOrClaimSlot
  <2>1. PICK i : runner' = [runner EXCEPT !.at = "pc", !.payload = i]
    BY <1>1 DEF FindOrClaimSlot
  <2>. QED  BY <1>1, <2>1 DEF FindOrClaimSlot, Turning, InTurn, DbgTypes, RunnerRecords
<1>2. CASE UpdateSlot
  BY <1>2, GoesType DEF UpdateSlot, Turning, InTurn
<1>3. CASE ServiceRequest
  <2>1. CASE runner' = [runner EXCEPT !.at = "ack", !.box = runner.at]
    BY <1>3, <2>1 DEF ServiceRequest, Turning, InTurn, DbgTypes, RunnerRecords, After
  <2>2. CASE Goes(After[runner.at])
    <3>1. CASE runner.at = "read"
      BY <1>3, <2>2, <3>1, GoesType DEF ServiceRequest, Turning, InTurn, After
    <3>2. CASE runner.at = "write"
      BY <1>3, <2>2, <3>2, GoesType DEF ServiceRequest, Turning, InTurn, After
    <3>3. CASE runner.at \in Spinning
      <4>1. After[runner.at] \in Spinning
        BY <1>3, <3>3 DEF ServiceRequest, After, Spinning
      <4>2. runner'.at \in Spinning
        BY <2>2, <4>1, GoesType
      <4>. QED  BY <1>3, <3>3, <4>2 DEF ServiceRequest, Turning, InTurn, Spinning
    <3>. QED  BY <1>3, <3>1, <3>2, <3>3 DEF ServiceRequest, After, Spinning
  <2>. QED  BY <1>3, <2>1, <2>2 DEF ServiceRequest
<1>4. CASE Acknowledge
  <2>1. CASE runner.box = "read"
    BY <1>4, <2>1, GoesType DEF Acknowledge, Turning, InTurn, After
  <2>2. CASE runner.box = "write"
    BY <1>4, <2>2, GoesType DEF Acknowledge, Turning, InTurn, After
  <2>3. CASE runner.box \notin {"read", "write"}
    <3>1. After[runner.box] \in Spinning
      BY <2>3 DEF After, Spinning, DbgTypes, RunnerRecords, Serving
    <3>2. runner'.at \in Spinning
      BY <1>4, <3>1, GoesType DEF Acknowledge
    <3>. QED  BY <1>4, <2>3, <3>2 DEF Acknowledge, Turning, InTurn, Spinning
  <2>. QED  BY <2>1, <2>2, <2>3
<1>5. CASE Spin
  BY <1>5, GoesType DEF Spin, Turning, InTurn, Spinning, shared
<1>. QED  BY <1>1, <1>2, <1>3, <1>4, <1>5 DEF Runner

\* The runner takes the armed step into a turn, and the turn into a halt.
LEMMA RunnerSteps == ASSUME DbgTypes, StepInv, Runner PROVE StepInv'
<1>1. ASSUME NEW t \in DbgThreads, NEW pc \in Pcs, NEW gpr \in {0, 1}, Dispatch(t, pc, gpr)
      PROVE  StepInv'
  <2>1. /\ runner.at = "run" /\ UNCHANGED stepTid
        /\ runner'.at = "claim" /\ runner'.tid = t /\ t # Nobody
    BY <1>1, DebugIpcAssumption DEF Dispatch, shared
  <2>2. ~Turning /\ Turning'
    BY <2>1 DEF Turning, InTurn
  <2>3. CASE ran.tid = t /\ ran.halted
    <3>1. stepTid = ran.tid /\ ran.turns = 0
      BY <2>1, <2>2, <2>3 DEF StepInv
    <3>2. ran' = [ran EXCEPT !.turns = @ + 1]
      BY <1>1, <2>3, <3>1 DEF Dispatch
    <3>3. ran'.tid = t /\ ran'.turns = 1
      BY <2>3, <3>1, <3>2 DEF DbgTypes
    <3>. QED  BY <2>1, <2>2, <2>3, <3>1, <3>3 DEF StepInv
  <2>4. CASE ran.tid # t
    <3>1. UNCHANGED ran
      BY <1>1, <2>4 DEF Dispatch
    <3>. QED  BY <2>1, <2>2, <3>1 DEF StepInv
  <2>5. CASE ran.tid = t /\ ~ran.halted
    <3>1. ran'.tid = t /\ ~ran'.halted
      BY <1>1, <2>5 DEF Dispatch, DbgTypes
    <3>. QED  BY <2>1, <3>1 DEF StepInv
  <2>. QED  BY <2>3, <2>4, <2>5
<1>2. CASE CheckBreakpoint
  <2>0. runner.at = "check" /\ UNCHANGED <<stepTid, ran>>
    BY <1>2 DEF CheckBreakpoint, shared
  <2>1. CASE stepTid = runner.tid
    <3>1. runner'.at = "clear" /\ runner'.tid = runner.tid
      BY <1>2, <2>1, GoesType DEF CheckBreakpoint
    <3>. QED  BY <2>0, <2>1, <3>1 DEF StepInv
  <2>2. CASE stepTid # runner.tid
    <3>1. PICK place \in {"halt", "run"} : Goes(place)
      BY <1>2, <2>2 DEF CheckBreakpoint
    <3>2. runner'.at # "clear"
      BY <3>1, GoesType
    <3>. QED  BY <2>0, <2>2, <3>2 DEF StepInv
  <2>. QED  BY <2>1, <2>2
<1>2a. CASE ClearStep
  <2>1. /\ runner.at = "clear" /\ UNCHANGED ran
        /\ runner'.at = "halt" /\ runner'.tid = runner.tid
    BY <1>2a, GoesType DEF ClearStep
  <2>. QED  BY <2>1 DEF StepInv, Turning, InTurn
<1>3. CASE Halt
  <2>1. runner.at = "halt" /\ ~Turning
    BY <1>3 DEF Halt, Turning, InTurn
  <2>2. runner'.at = "spin" /\ UNCHANGED stepTid
    BY <1>3, GoesType DEF Halt, Spinning
  <2>3. ran' = IF ran.tid = runner.tid THEN NotStepped ELSE ran
    BY <1>3 DEF Halt
  <2>. QED  BY <2>1, <2>2, <2>3 DEF StepInv, NotStepped
<1>4. CASE /\ runner'.tid = runner.tid /\ Turning /\ Turning'
           /\ UNCHANGED <<hit, stepTid, ran>>
  BY <1>4 DEF StepInv, Turning, InTurn
<1>5. CASE /\ ~Turning /\ runner.at \notin {"clear", "halt"}
           /\ runner'.at \notin {"clear", "halt"} /\ UNCHANGED <<hit, stepTid, ran>>
  BY <1>5 DEF StepInv
<1>. QED  BY <1>1, <1>2, <1>2a, <1>3, <1>4, <1>5, RunnerMoves

\* The runner is in the loop of a halted thread.
InHalt ==
    runner.at \in Spinning
    \/ (runner.at = "ack" /\ runner.box \in {"spinread", "spinwrite", "spinreg"})

\* While bp_hit is set the runner spins in the thread that was hit.
HaltInv == hit.on => InHalt /\ runner.tid = hit.tid

\* The debugger arms a step, or leaves the stepped thread alone.
LEMMA DebuggerSteps == ASSUME DbgTypes, HaltInv, StepInv, Debugger PROVE StepInv'
<1>1. CASE UNCHANGED <<stepTid, ran, runner>>
  BY <1>1 DEF StepInv, Turning
<1>2. ASSUME NEW t \in Tids, ArmStep(t), UNCHANGED runner PROVE StepInv'
  <2>1. hit.on => runner.at # "clear"
    BY DEF HaltInv, InHalt, Spinning
  <2>. QED  BY <1>2, <2>1 DEF StepInv, ArmStep
<1>3. CASE Pause
  BY <1>2, <1>3, CurrentTidType DEF Pause
<1>4. CASE Step
  BY <1>1, <1>2, <1>4, CurrentTidType DEF Step
<1>5. CASE PollStepOver
  <2>1. over.tid \in Tids
    BY DEF DbgTypes
  <2>. QED  BY <1>1, <1>2, <1>5, <2>1 DEF PollStepOver
<1>. QED  BY <1>1, <1>3, <1>4, <1>5 DEF Debugger, shared, AddBreakpoint, RemoveBreakpoints,
             StoreCondition, ReleaseRemoved, Resume, Request, ArmRequest, PollRequest,
             BeginReadRegs, ReadRegsTry, ReadRegsReturns

-----------------------------------------------------------------------------
(* A request through a free mailbox that was acknowledged was applied *)

\* A thread that spins is the one that reported the halt.
LEMMA RunnerHalts == ASSUME DbgTypes, HaltInv, Runner PROVE HaltInv'
<1>1. ASSUME NEW t, NEW pc, NEW gpr, Dispatch(t, pc, gpr) PROVE HaltInv'
  BY <1>1 DEF Dispatch, shared, HaltInv, InHalt, Spinning
<1>2. CASE FindOrClaimSlot
  BY <1>2 DEF FindOrClaimSlot, HaltInv, InHalt, Spinning
<1>3. CASE UpdateSlot
  BY <1>3 DEF UpdateSlot, HaltInv, InHalt, Spinning
<1>4. CASE ServiceRequest
  <2>1. CASE runner.at \in {"read", "write"}
    BY <1>4, <2>1 DEF ServiceRequest, HaltInv, InHalt, Spinning
  <2>2. CASE runner.at \in {"spinread", "spinwrite", "spinreg"}
    <3>1. CASE runner' = [runner EXCEPT !.at = "ack", !.box = runner.at]
      BY <1>4, <2>2, <3>1 DEF ServiceRequest, HaltInv, InHalt, DbgTypes, RunnerRecords
    <3>2. CASE Goes(After[runner.at])
      <4>1. After[runner.at] \in Spinning
        BY <2>2 DEF After, Spinning
      <4>2. runner'.at \in Spinning /\ runner'.tid = runner.tid
        BY <3>2, <4>1, GoesType DEF Spinning
      <4>. QED  BY <1>4, <4>2 DEF ServiceRequest, HaltInv, InHalt
    <3>. QED  BY <1>4, <3>1, <3>2 DEF ServiceRequest
  <2>. QED  BY <1>4, <2>1, <2>2 DEF ServiceRequest, After
<1>5. CASE Acknowledge
  <2>1. CASE runner.box \in {"spinread", "spinwrite", "spinreg"}
    <3>1. After[runner.box] \in Spinning
      BY <2>1 DEF After, Spinning
    <3>2. runner'.at \in Spinning /\ runner'.tid = runner.tid
      BY <1>5, <3>1, GoesType DEF Acknowledge, Spinning
    <3>. QED  BY <1>5, <3>2 DEF Acknowledge, HaltInv, InHalt
  <2>. QED  BY <1>5, <2>1 DEF Acknowledge, HaltInv, InHalt, Spinning
<1>6. CASE CheckBreakpoint \/ ClearStep
  BY <1>6 DEF CheckBreakpoint, ClearStep, shared, HaltInv, InHalt, Spinning
<1>7. CASE Halt
  <2>1. runner'.at = "spin" /\ runner'.tid = runner.tid
    BY <1>7, GoesType DEF Halt, Spinning
  <2>. QED  BY <1>7, <2>1 DEF Halt, HaltInv, InHalt, Spinning
<1>8. CASE Spin
  <2>1. CASE hit.on
    <3>1. runner'.at = "spinread" /\ runner'.tid = runner.tid
      BY <1>8, <2>1, GoesType DEF Spin, Spinning
    <3>. QED  BY <1>8, <2>1, <3>1 DEF Spin, shared, HaltInv, InHalt, Spinning
  <2>2. CASE ~hit.on
    BY <1>8, <2>2 DEF Spin, shared, HaltInv
  <2>. QED  BY <2>1, <2>2
<1>. QED  BY <1>1, <1>2, <1>3, <1>4, <1>5, <1>6, <1>7, <1>8 DEF Runner

\* The debugger releases a halted thread and moves no other.
LEMMA DebuggerHalts == ASSUME HaltInv, Debugger PROVE HaltInv' /\ UNCHANGED runner
<1>1. UNCHANGED runner /\ (UNCHANGED hit \/ hit' = NoHit)
  BY DEF Debugger, shared, AddBreakpoint, RemoveBreakpoints, StoreCondition, ReleaseRemoved,
         Resume, Pause, Step, PollStepOver, Request, ArmRequest, PollRequest, BeginReadRegs,
         ReadRegsTry, ReadRegsReturns
<1>. QED  BY <1>1 DEF HaltInv, InHalt, NoHit

\* Where a request through a free mailbox is: its payload is in the mailbox, which
\* is armed only once its caller polls, a register's thread stays halted meanwhile,
\* and what is being acknowledged, or was, is this request.
Applied(b) ==
    /\ box[b].applied.payload = gui.payload
    /\ b = "reg" => box[b].applied.tid = gui.tid

BoxInv ==
    /\ gui.at \in {"arm", "poll"} /\ gui.free =>
          /\ box[gui.box].payload = gui.payload
          /\ gui.box = "reg" => hit.on /\ hit.tid = gui.tid
    /\ gui.at = "arm" /\ gui.free => ~box[gui.box].armed
    /\ gui.at = "poll" /\ gui.free /\ ~box[gui.box].armed => Applied(gui.box)
    /\ runner.at = "ack" => box[BoxOf[runner.box]].armed
    /\ runner.at = "ack" /\ gui.at = "poll" /\ gui.free /\ BoxOf[runner.box] = gui.box =>
          Applied(gui.box)

\* The runner serves the request it read, and acknowledges that one.
LEMMA RunnerServes == ASSUME DbgTypes, HaltInv, BoxInv, Runner PROVE BoxInv'
<1>0. gui.box \in Boxes /\ UNCHANGED gui
  BY DEF DbgTypes, GuiRecords, Runner, shared, Dispatch, FindOrClaimSlot, UpdateSlot,
         ServiceRequest, Acknowledge, CheckBreakpoint, ClearStep, Halt, Spin
<1>1. CASE UNCHANGED <<box, hit>> /\ runner'.at # "ack"
  BY <1>0, <1>1 DEF BoxInv, Applied
<1>2. ASSUME NEW t, NEW pc, NEW gpr, Dispatch(t, pc, gpr) PROVE BoxInv'
  BY <1>1, <1>2 DEF Dispatch, shared
<1>3. CASE FindOrClaimSlot
  <2>1. PICK i : runner' = [runner EXCEPT !.at = "pc", !.payload = i]
    BY <1>3 DEF FindOrClaimSlot
  <2>. QED  BY <1>1, <1>3, <2>1 DEF FindOrClaimSlot, DbgTypes, RunnerRecords
<1>4. CASE UpdateSlot
  BY <1>1, <1>4, GoesType DEF UpdateSlot, InTurn
<1>5. CASE ServiceRequest
  <2>1. /\ runner.at \in Serving /\ BoxOf[runner.at] \in Boxes
        /\ After[runner.at] \in InTurn \cup Spinning
        /\ BoxOf[runner.at] = "reg" => runner.at = "spinreg"
    BY <1>5 DEF ServiceRequest, After, BoxOf, Serving, Boxes, InTurn, Spinning
  <2>2. PICK b \in Boxes : b = BoxOf[runner.at]
    BY <2>1
  <2>3. CASE ~box[b].armed
    <3>1. Goes(After[runner.at]) /\ UNCHANGED <<box, hit>>
      BY <1>5, <2>2, <2>3 DEF ServiceRequest
    <3>2. runner'.at \in InTurn \cup Spinning
      BY <2>1, <3>1, GoesType
    <3>. QED  BY <1>1, <3>1, <3>2 DEF InTurn, Spinning
  <2>4. CASE box[b].armed
    <3>1. PICK a : a = [payload |-> box[b].payload, tid |-> runner.tid]
      OBVIOUS
    <3>2. /\ runner' = [runner EXCEPT !.at = "ack", !.box = runner.at] /\ UNCHANGED hit
          /\ box' = [box EXCEPT ![b].applied = a]
      BY <1>5, <2>2, <2>4, <3>1 DEF ServiceRequest
    <3>3. runner'.at = "ack" /\ runner'.box = runner.at /\ runner'.tid = runner.tid
      BY <3>2 DEF DbgTypes, RunnerRecords
    <3>4. /\ \A c \in Boxes : /\ box'[c].armed <=> box[c].armed
                              /\ box'[c].payload = box[c].payload
          /\ box'[b].applied = a
      BY <3>2 DEF DbgTypes, BoxRecords
    <3>5. CASE gui.at = "poll" /\ gui.free /\ gui.box = b
      <4>1. b = "reg" => runner.tid = gui.tid
        BY <2>1, <2>2, <3>5 DEF BoxInv, HaltInv
      <4>2. a.payload = gui.payload /\ (b = "reg" => a.tid = gui.tid)
        BY <3>1, <3>5, <4>1 DEF BoxInv
      <4>3. Applied(b)'
        BY <1>0, <3>4, <4>2 DEF Applied
      <4>. QED  BY <1>0, <2>2, <2>4, <3>2, <3>3, <3>4, <3>5, <4>3 DEF BoxInv
    <3>6. CASE ~(gui.at = "poll" /\ gui.free /\ gui.box = b)
      <4>1. \A c \in Boxes : c # b => box'[c] = box[c]
        BY <3>2 DEF DbgTypes
      <4>. QED  BY <1>0, <2>2, <2>4, <3>2, <3>3, <3>4, <3>6, <4>1 DEF BoxInv, Applied
    <3>. QED  BY <3>5, <3>6
  <2>. QED  BY <2>3, <2>4
<1>6. CASE Acknowledge
  <2>1. BoxOf[runner.box] \in Boxes /\ After[runner.box] \in InTurn \cup Spinning
    BY DEF DbgTypes, RunnerRecords, After, BoxOf, Serving, Boxes, InTurn, Spinning
  <2>2. PICK b \in Boxes : b = BoxOf[runner.box]
    BY <2>1
  <2>3. box' = [box EXCEPT ![b].armed = FALSE] /\ UNCHANGED hit
    BY <1>6, <2>2 DEF Acknowledge
  <2>4. /\ \A c \in Boxes : /\ box'[c].payload = box[c].payload
                            /\ box'[c].applied = box[c].applied
                            /\ box'[c].armed => c # b /\ box[c].armed
                            /\ c # b => (box'[c].armed <=> box[c].armed)
    BY <2>3 DEF DbgTypes, BoxRecords
  <2>5. runner.at = "ack" /\ runner'.at # "ack"
    BY <1>6, <2>1, GoesType DEF Acknowledge, InTurn, Spinning
  <2>. QED  BY <1>0, <2>2, <2>3, <2>4, <2>5 DEF BoxInv, Applied
<1>7. CASE CheckBreakpoint \/ ClearStep
  <2>1. CASE CheckBreakpoint
    BY <1>1, <2>1, GoesType DEF CheckBreakpoint, shared
  <2>2. CASE ClearStep
    BY <1>1, <2>2, GoesType DEF ClearStep
  <2>. QED  BY <1>7, <2>1, <2>2
<1>8. CASE Halt
  <2>1. ~hit.on /\ runner'.at = "spin" /\ UNCHANGED box
    BY <1>8, GoesType DEF Halt, HaltInv, InHalt, Spinning
  <2>. QED  BY <1>0, <2>1 DEF BoxInv, Applied
<1>9. CASE Spin
  BY <1>1, <1>9, GoesType DEF Spin, shared, Spinning
<1>. QED  BY <1>2, <1>3, <1>4, <1>5, <1>6, <1>7, <1>8, <1>9 DEF Runner

\* The debugger's side: polls that give up included.
LEMMA DebuggerRequests == ASSUME DbgTypes, BoxInv, Debugger PROVE BoxInv'
<1>0. /\ gui.box \in Boxes /\ UNCHANGED runner /\ gui \in GuiRecords
      /\ BoxOf[runner.box] \in Boxes
  <2>1. gui.box \in Boxes /\ gui \in GuiRecords /\ BoxOf[runner.box] \in Boxes
    BY DEF DbgTypes, GuiRecords, RunnerRecords, BoxOf, Serving, Boxes
  <2>2. UNCHANGED runner
    BY DEF Debugger, shared, AddBreakpoint, RemoveBreakpoints, StoreCondition,
         ReleaseRemoved, Resume, Pause, Step, PollStepOver, Request, ArmRequest, PollRequest,
         BeginReadRegs, ReadRegsTry, ReadRegsReturns
  <2>. QED  BY <2>1, <2>2
\* A call that is no request leaves every box as it is.
<1>1. CASE gui'.at \notin {"arm", "poll"} /\ UNCHANGED box
  BY <1>0, <1>1 DEF BoxInv
<1>2. ASSUME NEW pc, NEW cond, AddBreakpoint(pc, cond) PROVE BoxInv'
  BY <1>0, <1>1, <1>2 DEF AddBreakpoint, DbgCalled, GuiRecords
<1>3. CASE StoreCondition
  BY <1>1, <1>3, GuiAtType DEF StoreCondition
<1>4. ASSUME NEW pcs, RemoveBreakpoints(pcs) PROVE BoxInv'
  BY <1>0, <1>1, <1>4 DEF RemoveBreakpoints, DbgCalled, GuiRecords
<1>5. CASE ReleaseRemoved
  BY <1>1, <1>5, GuiAtType DEF ReleaseRemoved
<1>6. CASE Resume
  BY <1>1, <1>6 DEF Resume, DbgCalled
<1>7. CASE Pause
  BY <1>1, <1>7 DEF Pause, DbgCalled
<1>8. CASE Step
  <2>1. CASE gui.at = "idle"
    <3>1. PICK t : gui' = [gui EXCEPT !.at = "release", !.tid = t]
      BY <1>8, <2>1 DEF Step
    <3>. QED  BY <1>0, <1>1, <1>8, <2>1, <3>1 DEF Step, GuiRecords
  <2>2. CASE gui.at # "idle"
    BY <1>1, <1>8, <2>2, GuiAtType DEF Step, DbgCalled
  <2>. QED  BY <2>1, <2>2
<1>9. CASE PollStepOver
  <2>1. UNCHANGED gui \/ gui' = [gui EXCEPT !.at = "release", !.tid = over.tid]
    BY <1>9 DEF PollStepOver
  <2>. QED  BY <1>0, <1>1, <1>9, <2>1 DEF PollStepOver, GuiRecords
<1>10. ASSUME NEW b \in Boxes, NEW payload \in {1, 2}, Request(b, payload) PROVE BoxInv'
  <2>1. /\ (b = "reg" => hit.on) /\ UNCHANGED hit
        /\ box' = [box EXCEPT ![b].payload = payload]
        /\ gui' = [gui EXCEPT !.at = "arm", !.box = b, !.payload = payload, !.tid = hit.tid,
                              !.free = ~box[b].armed]
    BY <1>10 DEF Request, DbgCalled
  <2>2. /\ gui'.at = "arm" /\ gui'.box = b /\ gui'.payload = payload /\ gui'.tid = hit.tid
        /\ gui'.free <=> ~box[b].armed
    BY <1>0, <2>1 DEF GuiRecords
  <2>3. box'[b].payload = payload /\ \A c \in Boxes : box'[c].armed <=> box[c].armed
    BY <2>1 DEF DbgTypes, BoxRecords
  <2>. QED  BY <1>0, <2>1, <2>2, <2>3 DEF BoxInv
<1>11. CASE ArmRequest
  <2>1. PICK b \in Boxes : b = gui.box
    BY <1>0
  <2>2. gui.at = "arm" /\ box' = [box EXCEPT ![b].armed = TRUE] /\ UNCHANGED hit
    BY <1>11, <2>1 DEF ArmRequest
  <2>3. gui' = [gui EXCEPT !.at = "poll"]
    BY <1>11, GuiAtType DEF ArmRequest
  <2>4. /\ gui'.at = "poll" /\ gui'.box = b /\ gui'.payload = gui.payload /\ gui'.tid = gui.tid
        /\ gui'.free = gui.free
    BY <1>0, <2>1, <2>3 DEF GuiRecords
  <2>5. /\ \A c \in Boxes : box'[c].payload = box[c].payload /\ (c # b => box'[c] = box[c])
        /\ box'[b].armed
    BY <2>2 DEF DbgTypes, BoxRecords
  <2>. QED  BY <1>0, <2>1, <2>2, <2>4, <2>5 DEF BoxInv
<1>12. CASE PollRequest
  <2>1. PICK b \in Boxes : b = gui.box
    BY <1>0
  <2>2. PICK a : a = [payload |-> 0, tid |-> Nobody]
    OBVIOUS
  <2>3. box' = [box EXCEPT ![b].applied = a]
    BY <1>12, <2>1, <2>2 DEF PollRequest
  <2>4. \A c \in Boxes : box'[c].armed <=> box[c].armed
    BY <2>3 DEF DbgTypes, BoxRecords
  <2>5. gui'.at = "idle"
    BY <1>12, GuiAtType DEF PollRequest
  <2>. QED  BY <1>0, <2>4, <2>5 DEF BoxInv
<1>13. CASE BeginReadRegs
  BY <1>0, <1>1, <1>13 DEF BeginReadRegs, DbgCalled, shared, GuiRecords
<1>14. CASE ReadRegsTry
  <2>1. gui.at \in {"seq", "copy_pc", "copy_gpr", "seq2"} /\ UNCHANGED box
    BY <1>14 DEF ReadRegsTry
  <2>2. gui'.at \in {"seq", "copy_pc", "copy_gpr", "seq2", "regs"}
    <3>1. CASE gui.at = "seq2"
      BY <1>14, <3>1, GuiAtType DEF ReadRegsTry, Looking
    <3>2. CASE gui.at # "seq2"
      BY <1>0, <1>14, <3>2 DEF ReadRegsTry, GuiRecords
    <3>. QED  BY <3>1, <3>2
  <2>. QED  BY <1>1, <2>1, <2>2
<1>15. CASE ReadRegsReturns
  BY <1>1, <1>15, GuiAtType DEF ReadRegsReturns, shared
<1>. QED  BY <1>2, <1>3, <1>4, <1>5, <1>6, <1>7, <1>8, <1>9, <1>10, <1>11, <1>12, <1>13, <1>14,
             <1>15 DEF Debugger

-----------------------------------------------------------------------------
(* A copy of the registers is one update's *)

\* A slot whose counter is even holds what its last update wrote.
SlotWhole(s) == ~s.odd => s.whole.pc = s.pc /\ s.whole.gpr = s.gpr

\* The update under way has made the counter odd and written this much.
WriteInv ==
    /\ runner.at \in {"pc", "gpr", "even"} =>
          runner.payload \in DbgSlots /\ states[runner.payload].odd
    /\ runner.at \in {"gpr", "even"} => states[runner.payload].pc = runner.pc
    /\ runner.at = "even" => states[runner.payload].gpr = runner.gpr

\* What the reader has copied is in the slot still, or the counter will tell.
ReadInv ==
    /\ gui.at \in Looking => gui.slot \in DbgSlots
    /\ LET s == states[gui.slot] IN
       (gui.at \in {"copy_gpr", "seq2"} /\ ~s.odd /\ ~s.moved) =>
          gui.copy.pc = s.pc /\ (gui.at = "seq2" => gui.copy.gpr = s.gpr)

RegsInv == (\A i \in DbgSlots : SlotWhole(states[i])) /\ WriteInv /\ ReadInv

\* The runner's writes to a slot lie between two steps of its sequence number.
LEMMA RunnerUpdates == ASSUME DbgTypes, RegsInv, Runner PROVE RegsInv'
<1>0. gui \in GuiRecords /\ UNCHANGED gui
  BY DEF DbgTypes, Runner, shared, Dispatch, FindOrClaimSlot, UpdateSlot,
         ServiceRequest, Acknowledge, CheckBreakpoint, ClearStep, Halt, Spin
<1>1. CASE UNCHANGED states /\ runner'.at \notin {"pc", "gpr", "even"}
  BY <1>0, <1>1 DEF RegsInv, WriteInv, ReadInv
<1>2. ASSUME NEW t, NEW pc, NEW gpr, Dispatch(t, pc, gpr) PROVE RegsInv'
  BY <1>1, <1>2 DEF Dispatch, shared
<1>3. CASE FindOrClaimSlot
  <2>1. PICK i \in DbgSlots :
           /\ states' = [states EXCEPT ![i].tid = runner.tid, ![i].odd = TRUE]
           /\ runner' = [runner EXCEPT !.at = "pc", !.payload = i]
    BY <1>3 DEF FindOrClaimSlot
  <2>2. runner'.at = "pc" /\ runner'.payload = i
    BY <2>1 DEF DbgTypes, RunnerRecords
  <2>3. states'[i].odd /\ \A j \in DbgSlots : j # i => states'[j] = states[j]
    BY <2>1 DEF DbgTypes, SlotRecords
  <2>. QED  BY <1>0, <2>2, <2>3 DEF RegsInv, SlotWhole, WriteInv, ReadInv, Looking
<1>4. CASE UpdateSlot
  <2>1. PICK i \in DbgSlots : i = runner.payload
    BY <1>4 DEF UpdateSlot, RegsInv, WriteInv
  <2>2. states[i].odd /\ states[i] \in SlotRecords
    BY <1>4, <2>1 DEF UpdateSlot, RegsInv, WriteInv, DbgTypes
  <2>3. CASE runner.at = "pc"
    <3>1. states' = [states EXCEPT ![i].pc = runner.pc] /\ Goes("gpr")
      BY <1>4, <2>1, <2>3 DEF UpdateSlot
    <3>2. /\ runner'.at = "gpr" /\ runner'.payload = i
          /\ runner'.pc = runner.pc /\ runner'.gpr = runner.gpr
      BY <2>1, <3>1, GoesType DEF InTurn
    <3>3. /\ states'[i].odd /\ states'[i].pc = runner.pc
          /\ \A j \in DbgSlots : j # i => states'[j] = states[j]
      BY <2>2, <3>1 DEF DbgTypes, SlotRecords
    <3>. QED  BY <1>0, <3>2, <3>3 DEF RegsInv, SlotWhole, WriteInv, ReadInv, Looking
  <2>4. CASE runner.at = "gpr"
    <3>1. states' = [states EXCEPT ![i].gpr = runner.gpr] /\ Goes("even")
      BY <1>4, <2>1, <2>4 DEF UpdateSlot
    <3>2. /\ runner'.at = "even" /\ runner'.payload = i
          /\ runner'.pc = runner.pc /\ runner'.gpr = runner.gpr
      BY <2>1, <3>1, GoesType DEF InTurn
    <3>3. /\ states'[i].odd /\ states'[i].gpr = runner.gpr /\ states'[i].pc = states[i].pc
          /\ \A j \in DbgSlots : j # i => states'[j] = states[j]
      BY <2>2, <3>1 DEF DbgTypes, SlotRecords
    <3>4. states[i].pc = runner.pc
      BY <2>1, <2>4 DEF RegsInv, WriteInv
    <3>. QED  BY <1>0, <3>2, <3>3, <3>4 DEF RegsInv, SlotWhole, WriteInv, ReadInv, Looking
  <2>5. CASE runner.at = "even"
    <3>1. PICK w : w = [pc |-> runner.pc, gpr |-> runner.gpr]
      OBVIOUS
    <3>2. Reading \in BOOLEAN
      BY DEF Reading
    <3>3. PICK r \in BOOLEAN : r = Reading
      BY <3>2, Zenon
    <3>4. PICK s : s = [states[i] EXCEPT !.odd = FALSE, !.moved = r, !.whole = w]
      OBVIOUS
    <3>5. Goes("read")
      BY <1>4, <2>5 DEF UpdateSlot
    <3>6. states' = [states EXCEPT ![i] = s]
      BY <1>4, <2>1, <2>5, <3>1, <3>3, <3>4 DEF UpdateSlot, DbgTypes
    <3>7. /\ s.pc = states[i].pc /\ s.gpr = states[i].gpr /\ s.whole = w
          /\ r => s.moved
      BY <2>2, <3>4 DEF SlotRecords
    <3>8. SlotWhole(s)
      BY <2>1, <2>5, <3>1, <3>7 DEF SlotWhole, RegsInv, WriteInv
    <3>9. runner'.at = "read"
      BY <3>5, GoesType DEF InTurn
    <3>10. states'[i] = s /\ \A j \in DbgSlots : j # i => states'[j] = states[j]
      BY <3>6 DEF DbgTypes
    <3>11. gui.at \in {"copy_gpr", "seq2"} => s.moved
      BY <3>3, <3>7 DEF Reading
    <3>12. ReadInv'
      <4>1. CASE gui.slot = i
        BY <1>0, <3>10, <3>11, <4>1 DEF RegsInv, ReadInv
      <4>2. CASE gui.slot # i
        BY <1>0, <3>10, <4>2 DEF RegsInv, ReadInv, Looking
      <4>. QED  BY <4>1, <4>2
    <3>. QED  BY <3>8, <3>9, <3>10, <3>12 DEF RegsInv, WriteInv
  <2>. QED  BY <1>4, <2>3, <2>4, <2>5 DEF UpdateSlot
<1>5. CASE ServiceRequest
  <2>1. CASE runner' = [runner EXCEPT !.at = "ack", !.box = runner.at]
    BY <1>1, <1>5, <2>1 DEF ServiceRequest, DbgTypes, RunnerRecords
  <2>2. CASE Goes(After[runner.at])
    <3>1. After[runner.at] \in {"write", "check"} \cup Spinning
      BY <1>5 DEF ServiceRequest, After, Spinning
    <3>2. runner'.at \in {"write", "check"} \cup Spinning
      BY <2>2, <3>1, GoesType DEF InTurn
    <3>. QED  BY <1>1, <1>5, <3>2 DEF ServiceRequest, Spinning
  <2>. QED  BY <1>5, <2>1, <2>2 DEF ServiceRequest
<1>6. CASE Acknowledge
  <2>1. After[runner.box] \in {"write", "check"} \cup Spinning
    BY DEF DbgTypes, RunnerRecords, Serving, After, Spinning
  <2>2. runner'.at \in {"write", "check"} \cup Spinning
    BY <1>6, <2>1, GoesType DEF Acknowledge, InTurn
  <2>. QED  BY <1>1, <1>6, <2>2 DEF Acknowledge, Spinning
<1>7. CASE CheckBreakpoint \/ ClearStep
  <2>1. CASE CheckBreakpoint
    BY <1>1, <2>1, GoesType DEF CheckBreakpoint, shared
  <2>2. CASE ClearStep
    BY <1>1, <2>2, GoesType DEF ClearStep
  <2>. QED  BY <1>7, <2>1, <2>2
<1>8. CASE Halt
  BY <1>1, <1>8, GoesType DEF Halt, Spinning
<1>9. CASE Spin
  BY <1>1, <1>9, GoesType DEF Spin, shared, Spinning
<1>. QED  BY <1>2, <1>3, <1>4, <1>5, <1>6, <1>7, <1>8, <1>9 DEF Runner

\* The reader's steps, and what the seqlock accepts.
Accepted == (gui.at = "seq2" /\ gui'.at = "regs") => gui.copy = states[gui.slot].whole

\* A copy is accepted only when the sequence number did not move.
LEMMA DebuggerReads == ASSUME DbgTypes, RegsInv, Debugger PROVE RegsInv' /\ Accepted
<1>0. gui \in GuiRecords /\ UNCHANGED runner
  BY DEF DbgTypes, Debugger, shared, AddBreakpoint, RemoveBreakpoints, StoreCondition,
         ReleaseRemoved, Resume, Pause, Step, PollStepOver, Request, ArmRequest, PollRequest,
         BeginReadRegs, ReadRegsTry, ReadRegsReturns
<1>1. CASE gui'.at \notin Looking /\ UNCHANGED states
  BY <1>0, <1>1 DEF RegsInv, WriteInv, ReadInv, Accepted, Looking
<1>2. ASSUME NEW pc, NEW cond, AddBreakpoint(pc, cond) PROVE RegsInv' /\ Accepted
  BY <1>0, <1>1, <1>2 DEF AddBreakpoint, GuiRecords, Looking
<1>3. CASE StoreCondition
  BY <1>1, <1>3, GuiAtType DEF StoreCondition, Looking
<1>4. ASSUME NEW pcs, RemoveBreakpoints(pcs) PROVE RegsInv' /\ Accepted
  BY <1>0, <1>1, <1>4 DEF RemoveBreakpoints, GuiRecords, Looking
<1>5. CASE ReleaseRemoved
  BY <1>1, <1>5, GuiAtType DEF ReleaseRemoved, Looking
<1>6. CASE Resume \/ Pause
  BY <1>1, <1>6 DEF Resume, Pause, DbgCalled, Looking
<1>7. CASE Step
  <2>1. CASE gui.at = "idle"
    <3>1. PICK t : gui' = [gui EXCEPT !.at = "release", !.tid = t]
      BY <1>7, <2>1 DEF Step
    <3>. QED  BY <1>0, <1>1, <1>7, <3>1 DEF Step, GuiRecords, Looking
  <2>2. CASE gui.at # "idle"
    BY <1>1, <1>7, <2>2, GuiAtType DEF Step, DbgCalled, Looking
  <2>. QED  BY <2>1, <2>2
<1>8. CASE PollStepOver
  <2>1. UNCHANGED gui \/ gui' = [gui EXCEPT !.at = "release", !.tid = over.tid]
    BY <1>8 DEF PollStepOver
  <2>. QED  BY <1>0, <1>1, <1>8, <2>1 DEF PollStepOver, GuiRecords, Looking
<1>9. ASSUME NEW b, NEW payload, Request(b, payload) PROVE RegsInv' /\ Accepted
  <2>1. gui' = [gui EXCEPT !.at = "arm", !.box = b, !.payload = payload, !.tid = hit.tid,
                          !.free = ~box[b].armed]
    BY <1>9 DEF Request
  <2>2. gui'.at = "arm"
    BY <1>0, <2>1 DEF GuiRecords
  <2>. QED  BY <1>1, <1>9, <2>2 DEF Request, Looking
<1>10. CASE ArmRequest \/ PollRequest
  BY <1>1, <1>10, GuiAtType DEF ArmRequest, PollRequest, Looking
<1>11. CASE BeginReadRegs
  <2>1. PICK i : i = CHOOSE j \in DbgSlots : states[j].tid = CurrentTid
    OBVIOUS
  <2>2. i \in DbgSlots
    BY <1>11, <2>1 DEF BeginReadRegs
  <2>3. PICK c : c = [pc |-> Nobody, gpr |-> 0]
    OBVIOUS
  <2>4. gui' = [gui EXCEPT !.at = "seq", !.tries = Attempts, !.slot = i, !.copy = c]
    BY <1>11, <2>1, <2>3 DEF BeginReadRegs
  <2>5. gui'.at = "seq" /\ gui'.slot = i /\ UNCHANGED states
    BY <1>0, <1>11, <2>4 DEF GuiRecords, BeginReadRegs, shared
  <2>. QED  BY <1>0, <2>2, <2>5 DEF RegsInv, WriteInv, ReadInv, Accepted, Looking
<1>12. CASE ReadRegsTry
  <2>1. PICK i \in DbgSlots : i = gui.slot
    BY <1>12 DEF ReadRegsTry, RegsInv, ReadInv, Looking
  <2>2. PICK s : s = [states[i] EXCEPT !.moved = FALSE]
    OBVIOUS
  <2>3. /\ states[i] \in SlotRecords /\ s.pc = states[i].pc /\ s.gpr = states[i].gpr
        /\ s.whole = states[i].whole /\ (s.odd <=> states[i].odd)
    BY <2>2 DEF DbgTypes, SlotRecords
  <2>4. UNCHANGED states \/ states' = [states EXCEPT ![i] = s]
    BY <1>12, <2>1, <2>2 DEF ReadRegsTry, DbgTypes
  <2>5. /\ \A j \in DbgSlots : j # i => states'[j] = states[j]
        /\ states'[i].pc = states[i].pc /\ states'[i].gpr = states[i].gpr
        /\ states'[i].whole = states[i].whole /\ (states'[i].odd <=> states[i].odd)
    BY <2>3, <2>4 DEF DbgTypes
  <2>6. \A j \in DbgSlots : SlotWhole(states'[j])
    BY <2>5 DEF RegsInv, SlotWhole
  <2>7. WriteInv'
    BY <1>0, <2>5 DEF RegsInv, WriteInv
  <2>8. CASE gui.at = "seq"
    <3>1. PICK p \in {"seq", "copy_pc"} : gui' = [gui EXCEPT !.tries = @ - 1, !.at = p]
      BY <1>12, <2>8 DEF ReadRegsTry
    <3>2. gui'.at = p /\ gui'.slot = i
      BY <1>0, <2>1, <3>1 DEF GuiRecords
    <3>. QED  BY <2>6, <2>7, <2>8, <3>2 DEF RegsInv, ReadInv, Accepted
  <2>9. CASE gui.at = "copy_pc"
    <3>1. PICK p : p = states[i].pc
      OBVIOUS
    <3>2. gui' = [gui EXCEPT !.at = "copy_gpr", !.copy.pc = p]
      BY <1>12, <2>1, <2>9, <3>1 DEF ReadRegsTry
    <3>3. gui'.at = "copy_gpr" /\ gui'.slot = i /\ gui'.copy.pc = p
      BY <1>0, <2>1, <3>2 DEF GuiRecords, Fields
    <3>. QED  BY <2>5, <2>6, <2>7, <2>9, <3>1, <3>3 DEF RegsInv, ReadInv, Accepted
  <2>10. CASE gui.at = "copy_gpr"
    <3>1. PICK g : g = states[i].gpr
      OBVIOUS
    <3>2. gui' = [gui EXCEPT !.at = "seq2", !.copy.gpr = g] /\ UNCHANGED states
      BY <1>12, <2>1, <2>10, <3>1 DEF ReadRegsTry
    <3>3. gui'.at = "seq2" /\ gui'.slot = i /\ gui'.copy.gpr = g /\ gui'.copy.pc = gui.copy.pc
      BY <1>0, <2>1, <3>2 DEF GuiRecords, Fields
    <3>. QED  BY <2>1, <2>6, <2>7, <2>10, <3>1, <3>2, <3>3 DEF RegsInv, ReadInv, Accepted
  <2>11. CASE gui.at = "seq2"
    <3>1. PICK p \in {"regs", "seq"} :
             GuiAt(p) /\ (p = "regs" => ~states[i].odd /\ ~states[i].moved)
      BY <1>12, <2>1, <2>11 DEF ReadRegsTry
    <3>2. gui' = [gui EXCEPT !.at = p] /\ gui'.at = p
      BY <3>1, GuiAtType DEF Looking
    <3>3. gui'.slot = i
      BY <1>0, <2>1, <3>2 DEF GuiRecords
    <3>4. ReadInv'
      BY <2>1, <3>2, <3>3 DEF ReadInv
    <3>5. Accepted
      <4>. SUFFICES ASSUME p = "regs" PROVE gui.copy = states[i].whole
        BY <2>1, <3>2 DEF Accepted
      <4>1. gui.copy.pc = states[i].pc /\ gui.copy.gpr = states[i].gpr
        BY <2>1, <2>11, <3>1 DEF RegsInv, ReadInv
      <4>2. states[i].whole.pc = states[i].pc /\ states[i].whole.gpr = states[i].gpr
        BY <3>1 DEF RegsInv, SlotWhole
      <4>3. gui.copy \in Fields /\ states[i].whole \in Fields
        BY <1>0, <2>3 DEF GuiRecords, SlotRecords
      <4>. QED  BY <4>1, <4>2, <4>3 DEF Fields
    <3>. QED  BY <2>6, <2>7, <3>4, <3>5 DEF RegsInv
  <2>. QED  BY <1>12, <2>8, <2>9, <2>10, <2>11 DEF ReadRegsTry
<1>13. CASE ReadRegsReturns
  BY <1>1, <1>13, GuiAtType DEF ReadRegsReturns, shared, Looking
<1>. QED  BY <1>2, <1>3, <1>4, <1>5, <1>6, <1>7, <1>8, <1>9, <1>10, <1>11, <1>12, <1>13
          DEF Debugger

-----------------------------------------------------------------------------
(* What the debugger may rely on *)

DbgInv == DbgTypes /\ StepInv /\ HaltInv /\ BoxInv /\ RegsInv

\* Nothing is asked for, halted or written at the start.
LEMMA DbgInitKeeps == ASSUME Init PROVE DbgInv
<1>1. /\ hit = NoHit /\ stepTid = Nobody /\ runner = RunnerOut /\ gui = GuiIdle
      /\ ran = NotStepped /\ over = [on |-> FALSE, tid |-> Nobody, ra |-> Nobody]
  BY DEF Init, DbgInit
<1>2. PICK w : w = [pc |-> Nobody, gpr |-> 0]
  OBVIOUS
<1>3. w \in Fields /\ w.pc = Nobody /\ w.gpr = 0
  BY <1>2 DEF Fields, Addresses
<1>4. PICK s : s = [tid |-> Nobody, pc |-> Nobody, gpr |-> 0, odd |-> FALSE, moved |-> FALSE,
                    whole |-> w]
  OBVIOUS
<1>5. s \in SlotRecords /\ SlotWhole(s)
  BY <1>3, <1>4 DEF SlotRecords, SlotWhole, Tids, Addresses
<1>6. states = [i \in DbgSlots |-> s]
  BY <1>2, <1>4 DEF Init, DbgInit
<1>7. PICK a : a = [payload |-> 0, tid |-> Nobody]
  OBVIOUS
<1>8. a \in [payload : {0, 1, 2}, tid : Tids]
  BY <1>7 DEF Tids
<1>9. PICK b : b = [payload |-> 0, armed |-> FALSE, applied |-> a]
  OBVIOUS
<1>10. b \in BoxRecords /\ ~b.armed
  BY <1>8, <1>9 DEF BoxRecords
<1>11. box = [c \in Boxes |-> b]
  BY <1>7, <1>9 DEF Init, DbgInit
<1>12. RunnerOut \in RunnerRecords /\ RunnerOut.at = "run"
  BY DEF RunnerOut, RunnerRecords, Tids, Addresses, Serving
<1>13. GuiIdle \in GuiRecords /\ GuiIdle.at = "idle"
  BY DEF GuiIdle, GuiRecords, Tids, Fields, Addresses, Boxes, Conds
<1>14. DbgTypes
  BY <1>1, <1>5, <1>6, <1>10, <1>11, <1>12, <1>13 DEF DbgTypes, NoHit, NotStepped, Tids, Addresses
<1>15. StepInv /\ HaltInv
  BY <1>1 DEF StepInv, HaltInv, NotStepped, NoHit
<1>16. RegsInv
  BY <1>1, <1>5, <1>6, <1>12, <1>13 DEF RegsInv, WriteInv, ReadInv, Looking
<1>17. BoxInv
  BY <1>1, <1>10, <1>11, <1>12, <1>13 DEF BoxInv
<1>. QED  BY <1>14, <1>15, <1>16, <1>17 DEF DbgInv

\* Every step of runner and debugger keeps all of it.
LEMMA DbgNextKeeps ==
    ASSUME DbgInv, [Next]_vars
    PROVE  DbgInv' /\ [Accepted]_dbgVars
<1>1. CASE Runner
  <2>1. Accepted
    BY <1>1 DEF Runner, shared, Accepted, Dispatch, FindOrClaimSlot, UpdateSlot,
                ServiceRequest, Acknowledge, CheckBreakpoint, ClearStep, Halt, Spin
  <2>. QED  BY <1>1, <2>1, RunnerTypes, RunnerSteps, RunnerHalts, RunnerServes, RunnerUpdates
            DEF DbgInv
<1>2. CASE Debugger
  <2>1. gui.at \in Looking => gui.slot \in DbgSlots
    BY DEF DbgInv, RegsInv, ReadInv
  <2>. QED  BY <1>2, <2>1, DebuggerTypes, DebuggerSteps, DebuggerHalts, DebuggerRequests,
               DebuggerReads DEF DbgInv
<1>3. CASE UNCHANGED dbgVars
  <2>1. UNCHANGED <<hit, stepTid, box, states, runner, gui, over, ran>>
    BY <1>3 DEF dbgVars, shared
  <2>2. DbgTypes' /\ StepInv' /\ HaltInv' /\ RegsInv'
    BY <2>1 DEF DbgInv, DbgTypes, StepInv, Turning, HaltInv, InHalt, RegsInv, WriteInv, ReadInv
  <2>3. BoxInv'
    BY <2>1 DEF DbgInv, BoxInv, Applied
  <2>. QED  BY <1>3, <2>2, <2>3 DEF DbgInv
<1>. QED  BY <1>1, <1>2, <1>3 DEF Next, vars, DbgNext

\* A thread stepped while a halt is reported halts again after exactly one more turn
\* of dispatchLoop, whatever the debugger and the other threads do in between
\* (recomp_backend.cpp 271-278): a step or a pause armed meanwhile replaces it.
THEOREM StepsOnce == Spec => []StepHaltsAtOnce
<1>1. DbgInv => StepHaltsAtOnce
  BY DEF DbgInv, DbgTypes, StepInv, StepHaltsAtOnce
<1>. QED  BY <1>1, DbgInitKeeps, DbgNextKeeps, PTL DEF Spec

\* A request made while no earlier one is left in its mailbox is acknowledged only
\* after its own payload was applied, for a register to the thread that was halted
\* when it was made, polls that give up included (recomp_debug_writer.cpp 60-87,
\* 189-197).
THEOREM AnswersOwn == Spec => []AnswerIsOwn
<1>1. DbgInv => AnswerIsOwn
  BY DEF DbgInv, BoxInv, Applied, AppliedOwn, AnswerIsOwn
<1>. QED  BY <1>1, DbgInitKeeps, DbgNextKeeps, PTL DEF Spec

\* A copy of the registers that the seqlock accepts is one update's, wherever the
\* runner's writes fall between the reader's, for any number of slots and tries
\* (recomp_backend.cpp 44-56, recomp_debug_ipc.h 20-29).
THEOREM RegsWhole == Spec => RegsOfOneUpdate
<1>1. DbgInv /\ [Next]_vars => DbgInv' /\ [Accepted]_dbgVars
  BY DbgNextKeeps
<1>. QED  BY <1>1, DbgInitKeeps, PTL DEF Spec, RegsOfOneUpdate, Accepted

-----------------------------------------------------------------------------
(* The rings of the audio streams *)

\* A ring has room for a byte at least.
LEMMA CapacityType == Capacity \in Nat \ {0}
  BY DtxAssumption

\* What is less than twice c wraps once.
LEMMA ModWrap ==
    ASSUME NEW c \in Nat \ {0}, NEW x \in 0..(2 * c - 1)
    PROVE  x % c = IF x < c THEN x ELSE x - c
<1>1. CASE x \in 0..c - 1
  BY <1>1
<1>2. CASE x \in c..(2 * c - 1)
  BY <1>2
<1>. QED  BY <1>1, <1>2

\* The least of two.
LEMMA MinTwo == ASSUME NEW a \in Int, NEW b \in Int PROVE Min({a, b}) = IF a <= b THEN a ELSE b
  BY DEF Min

\* A ring by its numbers: no byte is lost, and the write position is the end of the
\* data and of the chunk being filled.
Balanced(rp, wp, room, data, cr, cd) ==
    /\ rp \in 0..Capacity - 1 /\ wp \in 0..Capacity - 1
    /\ room \in 0..Capacity /\ data \in 0..Capacity /\ cr \in 0..Capacity /\ cd \in 0..Capacity
    /\ room + data + cr + cd = Capacity
    /\ wp = (rp + data + cr) % Capacity

\* The same without the division.
Placed(rp, wp, room, data, cr, cd) ==
    /\ rp \in 0..Capacity - 1 /\ wp \in 0..Capacity - 1
    /\ room \in 0..Capacity /\ data \in 0..Capacity /\ cr \in 0..Capacity /\ cd \in 0..Capacity
    /\ room + data + cr + cd = Capacity
    /\ wp = IF rp + data + cr < Capacity THEN rp + data + cr ELSE rp + data + cr - Capacity

\* A ring holds no more than its size, so the end of its data wraps once.
LEMMA BalancedIsPlaced ==
    ASSUME NEW rp \in 0..Capacity - 1, NEW wp \in 0..Capacity - 1, NEW room \in 0..Capacity,
           NEW data \in 0..Capacity, NEW cr \in 0..Capacity, NEW cd \in 0..Capacity
    PROVE  Balanced(rp, wp, room, data, cr, cd) <=> Placed(rp, wp, room, data, cr, cd)
<1>1. CASE room + data + cr + cd = Capacity
  <2>1. rp + data + cr \in 0..(2 * Capacity - 1)
    BY <1>1, CapacityType
  <2>2. (rp + data + cr) % Capacity
        = IF rp + data + cr < Capacity THEN rp + data + cr ELSE rp + data + cr - Capacity
    <3>1. PICK x \in 0..(2 * Capacity - 1) : x = rp + data + cr
      BY <2>1
    <3>2. x % Capacity = IF x < Capacity THEN x ELSE x - Capacity
      BY ModWrap, CapacityType
    <3>3. x % Capacity = (rp + data + cr) % Capacity
      BY <3>1
    <3>4. x % Capacity
          = IF rp + data + cr < Capacity THEN rp + data + cr ELSE rp + data + cr - Capacity
      BY <3>1, <3>2, CapacityType
    <3>. QED  BY <3>3, <3>4
  <2>. QED  BY <2>2 DEF Balanced, Placed
<1>2. CASE room + data + cr + cd # Capacity
  BY <1>2 DEF Balanced, Placed
<1>. QED  BY <1>1, <1>2

\* Position arithmetic: forward by n, and back by n.
LEMMA Forward ==
    ASSUME NEW p \in 0..Capacity - 1, NEW n \in 0..Capacity
    PROVE  (p + n) % Capacity = IF p + n < Capacity THEN p + n ELSE p + n - Capacity
<1>1. PICK x \in 0..(2 * Capacity - 1) : x = p + n
  BY CapacityType
<1>2. x % Capacity = IF x < Capacity THEN x ELSE x - Capacity
  BY ModWrap, CapacityType
<1>3. x % Capacity = (p + n) % Capacity
  BY <1>1
<1>4. x % Capacity = IF p + n < Capacity THEN p + n ELSE p + n - Capacity
  BY <1>1, <1>2, CapacityType
<1>. QED  BY <1>3, <1>4

\* Back by n, as the code computes it without a negative number.
LEMMA Back ==
    ASSUME NEW p \in 0..Capacity - 1, NEW n \in 0..Capacity
    PROVE  (p + Capacity - (n % Capacity)) % Capacity
           = IF p >= n THEN p - n ELSE p - n + Capacity
<1>0. Capacity \in Nat \ {0}
  BY CapacityType
<1>1. CASE n < Capacity
  <2>1. n % Capacity = n
    BY <1>0, <1>1
  <2>2. PICK x \in 0..(2 * Capacity - 1) : x = p + Capacity - n
    BY <1>0, <1>1
  <2>3. x % Capacity = IF x < Capacity THEN x ELSE x - Capacity
    BY <1>0, ModWrap
  <2>4. x % Capacity = IF p >= n THEN p - n ELSE p - n + Capacity
    BY <1>0, <2>2, <2>3
  <2>. QED  BY <2>1, <2>2, <2>4
<1>2. CASE n = Capacity
  <2>1. n % Capacity = 0
    BY <1>0, <1>2
  <2>2. (p + Capacity) % Capacity = p + Capacity - Capacity
    BY <1>0, ModWrap
  <2>. QED  BY <1>0, <1>2, <2>1, <2>2
<1>. QED  BY <1>0, <1>1, <1>2

\* The eight ways bytes move between room, data and the chunks held of them.
LEMMA Moves ==
    ASSUME NEW rp \in Int, NEW wp \in Int, NEW room \in Int, NEW data \in Int,
           NEW cr \in Int, NEW cd \in Int, Placed(rp, wp, room, data, cr, cd),
           NEW n \in 0..Capacity
    PROVE  /\ n <= room => /\ Placed(rp, (wp + n) % Capacity, room - n, data, cr + n, cd)
                           /\ Placed(rp, (wp + n) % Capacity, room - n, data + n, cr, cd)
           /\ n <= data => /\ Placed((rp + n) % Capacity, wp, room, data - n, cr, cd + n)
                           /\ Placed((rp + n) % Capacity, wp, room + n, data - n, cr, cd)
           /\ n <= cr => /\ Placed(rp, (wp + Capacity - (n % Capacity)) % Capacity, room + n, data,
                                   cr - n, cd)
                         /\ Placed(rp, wp, room, data + n, cr - n, cd)
           /\ n <= cd => /\ Placed((rp + Capacity - (n % Capacity)) % Capacity, wp, room, data + n,
                                   cr, cd - n)
                         /\ Placed(rp, wp, room + n, data, cr, cd - n)
<1>0. Capacity \in Nat \ {0} /\ rp \in 0..Capacity - 1 /\ wp \in 0..Capacity - 1
  BY CapacityType DEF Placed
<1>1. PICK wf : /\ wf = (wp + n) % Capacity
                /\ wf = IF wp + n < Capacity THEN wp + n ELSE wp + n - Capacity
  BY <1>0, Forward
<1>2. PICK rf : /\ rf = (rp + n) % Capacity
                /\ rf = IF rp + n < Capacity THEN rp + n ELSE rp + n - Capacity
  BY <1>0, Forward
<1>3. PICK wb : /\ wb = (wp + Capacity - (n % Capacity)) % Capacity
                /\ wb = IF wp >= n THEN wp - n ELSE wp - n + Capacity
  BY <1>0, Back
<1>4. PICK rb : /\ rb = (rp + Capacity - (n % Capacity)) % Capacity
                /\ rb = IF rp >= n THEN rp - n ELSE rp - n + Capacity
  BY <1>0, Back
<1>5. n <= room => /\ Placed(rp, wf, room - n, data, cr + n, cd)
                   /\ Placed(rp, wf, room - n, data + n, cr, cd)
  BY <1>0, <1>1 DEF Placed
<1>6. n <= data => /\ Placed(rf, wp, room, data - n, cr, cd + n)
                   /\ Placed(rf, wp, room + n, data - n, cr, cd)
  BY <1>0, <1>2 DEF Placed
<1>7. n <= cr => /\ Placed(rp, wb, room + n, data, cr - n, cd)
                 /\ Placed(rp, wp, room, data + n, cr - n, cd)
  BY <1>0, <1>3 DEF Placed
<1>8. n <= cd => /\ Placed(rb, wp, room, data + n, cr, cd - n)
                 /\ Placed(rp, wp, room + n, data, cr, cd - n)
  <2>1. CASE rp >= n
    <3>1. rb = rp - n
      BY <1>0, <1>4, <2>1
    <3>. QED  BY <1>0, <2>1, <3>1 DEF Placed
  <2>2. CASE rp < n
    <3>1. rb = rp - n + Capacity
      BY <1>0, <1>4, <2>2
    <3>. QED  BY <1>0, <2>2, <3>1 DEF Placed
  <2>. QED  BY <1>0, <2>1, <2>2
<1>. QED  BY <1>1, <1>2, <1>3, <1>4, <1>5, <1>6, <1>7, <1>8

RingRecords == [readPos : 0..Capacity - 1, writePos : 0..Capacity - 1,
                bytes : [{Room, Data} -> 0..Capacity]]
ChunkRecords == [{Room, Data} -> 0..Capacity]

RingOK(r, c) ==
    /\ r \in RingRecords /\ c \in ChunkRecords
    /\ Placed(r.readPos, r.writePos, r.bytes[Room], r.bytes[Data], c[Room], c[Data])

DtxTypes ==
    /\ sjrmt = [h \in DOMAIN sjrmt |-> sjrmt[h]]
    /\ DOMAIN sjrmt \in SUBSET UrpcObjects /\ DOMAIN sjx \in SUBSET UrpcObjects
    /\ DOMAIN ps2rna \in SUBSET UrpcObjects
    /\ nextObj \in Int
    /\ chunks \in [UrpcObjects -> ChunkRecords]

\* Every ring is balanced, nobody holds a chunk of a handle that is no ring, and
\* a handle names one object.
DtxInv ==
    /\ DtxTypes
    /\ \A h \in DOMAIN sjrmt : RingOK(sjrmt[h], chunks[h])
    /\ \A h \in UrpcObjects : h \notin DOMAIN sjrmt => chunks[h] = None
    /\ HandlesApart

\* What a sound ring's fields are.
LEMMA RingFields ==
    ASSUME NEW r, NEW c, RingOK(r, c)
    PROVE  /\ r \in RingRecords /\ c \in ChunkRecords
           /\ r.readPos \in Int /\ r.writePos \in Int
           /\ r.bytes[Room] \in 0..Capacity /\ r.bytes[Data] \in 0..Capacity
           /\ c[Room] \in 0..Capacity /\ c[Data] \in 0..Capacity
           /\ r.bytes[Room] \in Int /\ r.bytes[Data] \in Int /\ c[Room] \in Int /\ c[Data] \in Int
           /\ r.bytes[Room] + r.bytes[Data] + c[Room] + c[Data] = Capacity
<1>1. r \in RingRecords /\ c \in ChunkRecords
  BY DEF RingOK
<1>2. /\ r.readPos \in Int /\ r.writePos \in Int
      /\ r.bytes[Room] \in 0..Capacity /\ r.bytes[Data] \in 0..Capacity
      /\ c[Room] \in 0..Capacity /\ c[Data] \in 0..Capacity
  BY <1>1, CapacityType DEF RingRecords, ChunkRecords
<1>. QED  BY <1>1, <1>2, CapacityType DEF RingOK, Placed

\* A change of one ring and of what its user holds.
LEMMA RingStep ==
    ASSUME DtxInv, NEW h \in DOMAIN sjrmt, NEW r, NEW c, RingOK(r, c),
           sjrmt' = [sjrmt EXCEPT ![h] = r], chunks' = [chunks EXCEPT ![h] = c],
           UNCHANGED <<sjx, ps2rna, nextObj>>
    PROVE  DtxInv'
<1>1. /\ DOMAIN sjrmt' = DOMAIN sjrmt /\ sjrmt'[h] = r
      /\ \A g \in DOMAIN sjrmt : g # h => sjrmt'[g] = sjrmt[g]
      /\ sjrmt' = [g \in DOMAIN sjrmt' |-> sjrmt'[g]]
  BY DEF DtxInv, DtxTypes
<1>2. h \in UrpcObjects /\ c \in ChunkRecords
  BY DEF DtxInv, DtxTypes, RingOK
<1>3. /\ chunks' \in [UrpcObjects -> ChunkRecords] /\ chunks'[h] = c
      /\ \A g \in UrpcObjects : g # h => chunks'[g] = chunks[g]
  BY <1>2 DEF DtxInv, DtxTypes
<1>4. ASSUME NEW g \in DOMAIN sjrmt PROVE RingOK(sjrmt'[g], chunks'[g])
  <2>1. g \in UrpcObjects
    BY DEF DtxInv, DtxTypes
  <2>. QED  BY <1>1, <1>3, <2>1 DEF DtxInv
<1>5. DtxTypes'
  BY <1>1, <1>3 DEF DtxInv, DtxTypes
<1>6. HandlesApart'
  BY <1>1 DEF DtxInv, HandlesApart
<1>. QED  BY <1>1, <1>3, <1>4, <1>5, <1>6 DEF DtxInv

\* Taking a chunk.
LEMMA GetKeeps ==
    ASSUME DtxInv, NEW h \in DOMAIN sjrmt, NEW s \in {Room, Data}, NEW n \in ChunkSizes,
           GetChunk(h, s, n)
    PROVE  DtxInv'
<1>0. PICK r, c : r = sjrmt[h] /\ c = chunks[h]
  OBVIOUS
<1>1. RingOK(r, c) /\ r \in RingRecords /\ c \in ChunkRecords
  BY <1>0 DEF DtxInv, RingOK
<1>2. n \in Nat /\ Capacity \in Nat \ {0}
  BY DtxAssumption
<1>3. r.bytes[s] \in 0..Capacity /\ r.bytes \in ChunkRecords
  BY <1>1 DEF RingRecords, ChunkRecords
<1>4. PICK len : len = Min({n, r.bytes[s]})
  OBVIOUS
<1>5. len \in 0..Capacity /\ len <= r.bytes[s]
  <2>1. PICK b \in 0..Capacity : b = r.bytes[s]
    BY <1>3
  <2>2. Min({n, b}) = IF n <= b THEN n ELSE b
    BY <1>2, MinTwo
  <2>. QED  BY <1>2, <1>4, <2>1, <2>2
<1>6. /\ c[s] = 0 /\ UNCHANGED <<sjx, ps2rna, nextObj>>
      /\ sjrmt' = [sjrmt EXCEPT ![h][Position(s)] = (@ + len) % Capacity,
                                ![h].bytes[s] = @ - len]
      /\ chunks' = [chunks EXCEPT ![h][s] = len]
  BY <1>0, <1>4 DEF GetChunk
<1>7. PICK k : k = [c EXCEPT ![s] = len]
  OBVIOUS
<1>8. chunks' = [chunks EXCEPT ![h] = k]
  BY <1>0, <1>1, <1>6, <1>7 DEF DtxInv, DtxTypes, ChunkRecords
<1>a. k \in ChunkRecords /\ k[s] = len /\ \A t \in {Room, Data} : t # s => k[t] = c[t]
  BY <1>1, <1>5, <1>7 DEF ChunkRecords
<1>b. PICK m \in 0..Capacity : m = r.bytes[s] - len
  BY <1>2, <1>3, <1>5
<1>c. PICK e : e = [r.bytes EXCEPT ![s] = m]
  OBVIOUS
<1>d. e \in ChunkRecords /\ e[s] = m /\ \A t \in {Room, Data} : t # s => e[t] = r.bytes[t]
  BY <1>3, <1>c DEF ChunkRecords
<1>e. Room \in {Room, Data} /\ Data \in {Room, Data} /\ Room # Data
  BY DEF Room, Data
<1>9. CASE s = Room
  <2>1. PICK p : p = (r.writePos + len) % Capacity
    OBVIOUS
  <2>2. PICK q : q = [r EXCEPT !.writePos = p, !.bytes = e]
    OBVIOUS
  <2>3. sjrmt' = [sjrmt EXCEPT ![h] = q]
    BY <1>0, <1>1, <1>6, <1>9, <1>b, <1>c, <2>1, <2>2 DEF Position, DtxInv, DtxTypes, RingRecords
  <2>4. len <= r.bytes[Room] /\ c[Room] = 0
    BY <1>5, <1>6, <1>9
  <2>5. Placed(r.readPos, p, r.bytes[Room] - len, r.bytes[Data], c[Room] + len, c[Data])
    BY <1>1, <1>5, <2>1, <2>4, RingFields, Moves DEF RingOK
  <2>6. p \in 0..Capacity - 1
    BY <2>5 DEF Placed
  <2>7. q \in RingRecords /\ q.bytes = e /\ q.writePos = p /\ q.readPos = r.readPos
    BY <1>1, <1>d, <2>2, <2>6 DEF RingRecords, ChunkRecords
  <2>8. /\ e[Room] = r.bytes[Room] - len /\ e[Data] = r.bytes[Data]
        /\ k[Room] = c[Room] + len /\ k[Data] = c[Data]
    BY <1>5, <1>9, <1>a, <1>b, <1>d, <1>e, <2>4
  <2>9. RingOK(q, k)
    BY <1>a, <2>5, <2>7, <2>8 DEF RingOK
  <2>. QED  BY <1>6, <1>8, <2>3, <2>9, RingStep
<1>10. CASE s = Data
  <2>1. PICK p : p = (r.readPos + len) % Capacity
    OBVIOUS
  <2>2. PICK q : q = [r EXCEPT !.readPos = p, !.bytes = e]
    OBVIOUS
  <2>p. Position(s) = "readPos"
    BY <1>10, <1>e DEF Position
  <2>3. sjrmt' = [sjrmt EXCEPT ![h] = q]
    BY <1>0, <1>1, <1>6, <1>b, <1>c, <2>p, <2>1, <2>2 DEF DtxInv, DtxTypes, RingRecords
  <2>4. len <= r.bytes[Data] /\ c[Data] = 0
    BY <1>5, <1>6, <1>10
  <2>5. Placed(p, r.writePos, r.bytes[Room], r.bytes[Data] - len, c[Room], c[Data] + len)
    BY <1>1, <1>5, <2>1, <2>4, RingFields, Moves DEF RingOK
  <2>6. p \in 0..Capacity - 1
    BY <2>5 DEF Placed
  <2>7. q \in RingRecords /\ q.bytes = e /\ q.readPos = p /\ q.writePos = r.writePos
    BY <1>1, <1>d, <2>2, <2>6 DEF RingRecords, ChunkRecords
  <2>8. /\ e[Data] = r.bytes[Data] - len /\ e[Room] = r.bytes[Room]
        /\ k[Data] = c[Data] + len /\ k[Room] = c[Room]
    BY <1>5, <1>10, <1>a, <1>b, <1>d, <1>e, <2>4
  <2>9. RingOK(q, k)
    BY <1>a, <2>5, <2>7, <2>8 DEF RingOK
  <2>. QED  BY <1>6, <1>8, <2>3, <2>9, RingStep
<1>. QED  BY <1>9, <1>10

\* What fits is not clamped.
LEMMA ClampFits == ASSUME NEW n \in 0..Capacity PROVE Clamp(n) = n
  BY CapacityType, MinTwo DEF Clamp

\* Giving back the tail of a chunk.
LEMMA UngetKeeps ==
    ASSUME DtxInv, NEW h \in DOMAIN sjrmt, NEW s \in {Room, Data}, NEW n \in Int,
           UngetChunk(h, s, n)
    PROVE  DtxInv'
<1>0. PICK r, c : r = sjrmt[h] /\ c = chunks[h]
  OBVIOUS
<1>1. RingOK(r, c) /\ r \in RingRecords /\ c \in ChunkRecords
  BY <1>0 DEF DtxInv, RingOK
<1>2. Capacity \in Nat \ {0}
  BY CapacityType
<1>3. r.bytes \in ChunkRecords
  BY <1>1 DEF RingRecords, ChunkRecords
<1>4. n <= c[s] /\ n \in 0..Capacity
  <2>1. 0 < n /\ n <= c[s]
    BY <1>0 DEF UngetChunk
  <2>2. c[s] \in 0..Capacity
    BY <1>1 DEF ChunkRecords
  <2>. QED  BY <1>2, <2>1, <2>2
<1>5. PICK m \in 0..Capacity : m = r.bytes[s] + n
  BY <1>1, <1>2, <1>4, RingFields
<1>6. /\ UNCHANGED <<sjx, ps2rna, nextObj>>
      /\ sjrmt' = [sjrmt EXCEPT
            ![h][Position(s)] = (@ + Capacity - (n % Capacity)) % Capacity,
            ![h].bytes[s] = Clamp(@ + n)]
      /\ chunks' = [chunks EXCEPT ![h][s] = @ - n]
  BY DEF UngetChunk
<1>7. PICK j \in 0..Capacity : j = c[s] - n
  BY <1>1, <1>2, <1>4 DEF ChunkRecords
<1>8. PICK k : k = [c EXCEPT ![s] = j]
  OBVIOUS
<1>9. chunks' = [chunks EXCEPT ![h] = k]
  BY <1>0, <1>1, <1>6, <1>7, <1>8 DEF DtxInv, DtxTypes, ChunkRecords
<1>a. k \in ChunkRecords /\ k[s] = j /\ \A t \in {Room, Data} : t # s => k[t] = c[t]
  BY <1>1, <1>8 DEF ChunkRecords
<1>b. Clamp(r.bytes[s] + n) = m
  BY <1>5, ClampFits
<1>c. PICK e : e = [r.bytes EXCEPT ![s] = m]
  OBVIOUS
<1>d. e \in ChunkRecords /\ e[s] = m /\ \A t \in {Room, Data} : t # s => e[t] = r.bytes[t]
  BY <1>3, <1>c DEF ChunkRecords
<1>e. Room \in {Room, Data} /\ Data \in {Room, Data} /\ Room # Data
  BY DEF Room, Data
<1>10. CASE s = Room
  <2>1. PICK p : p = (r.writePos + Capacity - (n % Capacity)) % Capacity
    OBVIOUS
  <2>2. PICK q : q = [r EXCEPT !.writePos = p, !.bytes = e]
    OBVIOUS
  <2>3. sjrmt' = [sjrmt EXCEPT ![h] = q]
    BY <1>0, <1>1, <1>6, <1>10, <1>b, <1>c, <2>1, <2>2
       DEF Position, DtxInv, DtxTypes, RingRecords
  <2>4. n <= c[Room]
    BY <1>4, <1>10
  <2>5. Placed(r.readPos, p, r.bytes[Room] + n, r.bytes[Data], c[Room] - n, c[Data])
    BY <1>1, <1>4, <2>1, <2>4, RingFields, Moves DEF RingOK
  <2>6. p \in 0..Capacity - 1
    BY <2>5 DEF Placed
  <2>7. q \in RingRecords /\ q.bytes = e /\ q.writePos = p /\ q.readPos = r.readPos
    BY <1>1, <1>d, <2>2, <2>6 DEF RingRecords, ChunkRecords
  <2>8. /\ e[Room] = r.bytes[Room] + n /\ e[Data] = r.bytes[Data]
        /\ k[Room] = c[Room] - n /\ k[Data] = c[Data]
    BY <1>5, <1>7, <1>10, <1>a, <1>d, <1>e
  <2>9. RingOK(q, k)
    BY <1>a, <2>5, <2>7, <2>8 DEF RingOK
  <2>. QED  BY <1>6, <1>9, <2>3, <2>9, RingStep
<1>11. CASE s = Data
  <2>1. PICK p : p = (r.readPos + Capacity - (n % Capacity)) % Capacity
    OBVIOUS
  <2>2. PICK q : q = [r EXCEPT !.readPos = p, !.bytes = e]
    OBVIOUS
  <2>p. Position(s) = "readPos"
    BY <1>11, <1>e DEF Position
  <2>3. sjrmt' = [sjrmt EXCEPT ![h] = q]
    BY <1>0, <1>1, <1>6, <1>b, <1>c, <2>p, <2>1, <2>2 DEF DtxInv, DtxTypes, RingRecords
  <2>4. n <= c[Data]
    BY <1>4, <1>11
  <2>5. Placed(p, r.writePos, r.bytes[Room], r.bytes[Data] + n, c[Room], c[Data] - n)
    BY <1>1, <1>4, <2>1, <2>4, RingFields, Moves DEF RingOK
  <2>6. p \in 0..Capacity - 1
    BY <2>5 DEF Placed
  <2>7. q \in RingRecords /\ q.bytes = e /\ q.readPos = p /\ q.writePos = r.writePos
    BY <1>1, <1>d, <2>2, <2>6 DEF RingRecords, ChunkRecords
  <2>8. /\ e[Data] = r.bytes[Data] + n /\ e[Room] = r.bytes[Room]
        /\ k[Data] = c[Data] - n /\ k[Room] = c[Room]
    BY <1>5, <1>7, <1>11, <1>a, <1>d, <1>e
  <2>9. RingOK(q, k)
    BY <1>a, <2>5, <2>7, <2>8 DEF RingOK
  <2>. QED  BY <1>6, <1>9, <2>3, <2>9, RingStep
<1>. QED  BY <1>10, <1>11

\* Putting a chunk into the other stream.
LEMMA PutKeeps ==
    ASSUME DtxInv, NEW h \in DOMAIN sjrmt, NEW s \in {Room, Data}, NEW n,
           PutChunk(h, s, n)
    PROVE  DtxInv'
<1>0. PICK r, c : r = sjrmt[h] /\ c = chunks[h]
  OBVIOUS
<1>t. PICK t \in {Room, Data} : t = 1 - s /\ t # s
  BY DEF Room, Data
<1>1. RingOK(r, c) /\ r \in RingRecords /\ c \in ChunkRecords
  BY <1>0 DEF DtxInv, RingOK
<1>2. Capacity \in Nat \ {0}
  BY CapacityType
<1>3. r.bytes \in ChunkRecords
  BY <1>1 DEF RingRecords, ChunkRecords
<1>4. n = c[t] /\ n \in 0..Capacity
  BY <1>0, <1>1, <1>2, <1>t DEF PutChunk, ChunkRecords
<1>e. Room \in {Room, Data} /\ Data \in {Room, Data} /\ Room # Data
  BY DEF Room, Data
<1>5. PICK m \in 0..Capacity : m = r.bytes[s] + n
  <2>1. CASE s = Room /\ t = Data
    BY <1>1, <1>2, <1>4, <2>1, RingFields
  <2>2. CASE s = Data /\ t = Room
    BY <1>1, <1>2, <1>4, <2>2, RingFields
  <2>. QED  BY <1>t, <2>1, <2>2
<1>6. /\ UNCHANGED <<sjx, ps2rna, nextObj>>
      /\ sjrmt' = [sjrmt EXCEPT ![h].bytes[s] = Clamp(@ + n)]
      /\ chunks' = [chunks EXCEPT ![h][t] = @ - n]
  BY <1>t DEF PutChunk
<1>7. PICK j \in 0..Capacity : j = c[t] - n
  BY <1>1, <1>2, <1>4
<1>8. PICK k : k = [c EXCEPT ![t] = j]
  OBVIOUS
<1>9. chunks' = [chunks EXCEPT ![h] = k]
  BY <1>0, <1>1, <1>6, <1>7, <1>8 DEF DtxInv, DtxTypes, ChunkRecords
<1>a. k \in ChunkRecords /\ k[t] = j /\ k[s] = c[s]
  BY <1>1, <1>8, <1>t DEF ChunkRecords
<1>b. Clamp(r.bytes[s] + n) = m
  BY <1>5, ClampFits
<1>c. PICK e : e = [r.bytes EXCEPT ![s] = m]
  OBVIOUS
<1>d. e \in ChunkRecords /\ e[s] = m /\ e[t] = r.bytes[t]
  BY <1>3, <1>c, <1>t DEF ChunkRecords
<1>f. PICK q : q = [r EXCEPT !.bytes = e]
  OBVIOUS
<1>g. sjrmt' = [sjrmt EXCEPT ![h] = q]
  BY <1>0, <1>1, <1>6, <1>b, <1>c, <1>f DEF DtxInv, DtxTypes, RingRecords
<1>h. q \in RingRecords /\ q.bytes = e /\ q.readPos = r.readPos /\ q.writePos = r.writePos
  BY <1>1, <1>d, <1>f DEF RingRecords, ChunkRecords
<1>10. CASE s = Room /\ t = Data
  <2>1. Placed(r.readPos, r.writePos, r.bytes[Room] + n, r.bytes[Data], c[Room], c[Data] - n)
    <3>1. n <= c[Data]
      BY <1>1, <1>2, <1>4, <1>10
    <3>. QED  BY <1>1, <1>4, <3>1, RingFields, Moves DEF RingOK
  <2>2. /\ e[Room] = r.bytes[Room] + n /\ e[Data] = r.bytes[Data]
        /\ k[Room] = c[Room] /\ k[Data] = c[Data] - n
    BY <1>5, <1>7, <1>10, <1>a, <1>d
  <2>3. RingOK(q, k)
    BY <1>a, <1>h, <2>1, <2>2 DEF RingOK
  <2>. QED  BY <1>6, <1>9, <1>g, <2>3, RingStep
<1>11. CASE s = Data /\ t = Room
  <2>1. Placed(r.readPos, r.writePos, r.bytes[Room], r.bytes[Data] + n, c[Room] - n, c[Data])
    <3>1. n <= c[Room]
      BY <1>1, <1>2, <1>4, <1>11
    <3>. QED  BY <1>1, <1>4, <3>1, RingFields, Moves DEF RingOK
  <2>2. /\ e[Data] = r.bytes[Data] + n /\ e[Room] = r.bytes[Room]
        /\ k[Data] = c[Data] /\ k[Room] = c[Room] - n
    BY <1>5, <1>7, <1>11, <1>a, <1>d
  <2>3. RingOK(q, k)
    BY <1>a, <1>h, <2>1, <2>2 DEF RingOK
  <2>. QED  BY <1>6, <1>9, <1>g, <2>3, RingStep
<1>. QED  BY <1>t, <1>10, <1>11

\* An empty ring, of which nothing is held.
LEMMA EmptyOK == RingOK(EmptyRing, None)
<1>1. Capacity \in Nat \ {0}
  BY CapacityType
<1>2. PICK e : e = [None EXCEPT ![Room] = Capacity]
  OBVIOUS
<1>3. None \in ChunkRecords /\ None[Room] = 0 /\ None[Data] = 0
  BY <1>1 DEF None, ChunkRecords
<1>4. e \in ChunkRecords /\ e[Room] = Capacity /\ e[Data] = 0
  BY <1>1, <1>2 DEF None, ChunkRecords, Room, Data
<1>5. PICK r : r = [readPos |-> 0, writePos |-> 0, bytes |-> e]
  OBVIOUS
<1>6. r \in RingRecords /\ r.readPos = 0 /\ r.writePos = 0 /\ r.bytes = e
  BY <1>1, <1>4, <1>5 DEF RingRecords, ChunkRecords
<1>7. RingOK(r, None)
  BY <1>1, <1>3, <1>4, <1>6 DEF RingOK, Placed
<1>. QED  BY <1>2, <1>5, <1>7 DEF EmptyRing

\* A reset ring is an empty one.
LEMMA ResetKeeps ==
    ASSUME DtxInv, NEW h \in DOMAIN sjrmt, ResetRing(h)
    PROVE  DtxInv'
  BY EmptyOK, RingStep DEF ResetRing

\* A chunk that a link sends is appended.
LEMMA AppendKeeps ==
    ASSUME NEW r, NEW c, RingOK(r, c), NEW len \in Nat
    PROVE  RingOK(dtxAppendToSjrmtData(r, len), c)
<1>1. r \in RingRecords /\ c \in ChunkRecords /\ Capacity \in Nat \ {0}
  BY CapacityType DEF RingOK
<1>2. PICK n : n = Min({len, r.bytes[Room]})
  OBVIOUS
<1>3. n \in 0..Capacity /\ n <= r.bytes[Room]
  <2>1. PICK b \in 0..Capacity : b = r.bytes[Room]
    BY RingFields
  <2>2. Min({len, b}) = IF len <= b THEN len ELSE b
    BY MinTwo
  <2>. QED  BY <1>1, <1>2, <2>1, <2>2
<1>4. PICK p : p = (r.writePos + n) % Capacity
  OBVIOUS
<1>5. Placed(r.readPos, p, r.bytes[Room] - n, r.bytes[Data] + n, c[Room], c[Data])
  BY <1>3, <1>4, RingFields, Moves DEF RingOK
<1>6. PICK i \in 0..Capacity, j \in 0..Capacity : i = r.bytes[Room] - n /\ j = r.bytes[Data] + n
  BY <1>5 DEF Placed
<1>7. Clamp(r.bytes[Data] + n) = j
  BY <1>6, ClampFits
<1>8. PICK e : e = [r.bytes EXCEPT ![Room] = i, ![Data] = j]
  OBVIOUS
<1>9. r.bytes \in ChunkRecords
  BY <1>1 DEF RingRecords, ChunkRecords
<1>10. e \in ChunkRecords /\ e[Room] = i /\ e[Data] = j
  BY <1>8, <1>9 DEF ChunkRecords, Room, Data
<1>11. PICK q : q = [r EXCEPT !.writePos = p, !.bytes = e]
  OBVIOUS
<1>12. p \in 0..Capacity - 1
  BY <1>5 DEF Placed
<1>13. q \in RingRecords /\ q.bytes = e /\ q.writePos = p /\ q.readPos = r.readPos
  BY <1>1, <1>10, <1>11, <1>12 DEF RingRecords, ChunkRecords
<1>14. dtxAppendToSjrmtData(r, len) = q
  BY <1>1, <1>2, <1>4, <1>6, <1>7, <1>8, <1>9, <1>11
     DEF dtxAppendToSjrmtData, RingRecords, ChunkRecords, Room, Data
<1>15. RingOK(q, c)
  BY <1>1, <1>5, <1>6, <1>10, <1>13 DEF RingOK
<1>. QED  BY <1>14, <1>15

\* A player drains a ring.
LEMMA ConsumeKeeps ==
    ASSUME NEW r, NEW c, RingOK(r, c)
    PROVE  RingOK(dtxConsumeSjrmtDataLocked(r), c)
<1>1. r \in RingRecords /\ c \in ChunkRecords /\ Capacity \in Nat \ {0}
  BY CapacityType DEF RingOK
<1>2. PICK n \in 0..Capacity : n = r.bytes[Data]
  BY RingFields
<1>3. Clamp(r.bytes[Data]) = n
  BY <1>2, ClampFits
<1>4. PICK p : p = (r.readPos + n) % Capacity
  OBVIOUS
<1>5. Placed(p, r.writePos, r.bytes[Room] + n, r.bytes[Data] - n, c[Room], c[Data])
  <2>1. n <= r.bytes[Data]
    BY <1>2
  <2>. QED  BY <1>4, <2>1, RingFields, Moves DEF RingOK
<1>6. PICK i \in 0..Capacity, j \in 0..Capacity : i = r.bytes[Room] + n /\ j = r.bytes[Data] - n
  BY <1>5 DEF Placed
<1>7. Clamp(r.bytes[Room] + n) = i
  BY <1>6, ClampFits
<1>8. PICK e : e = [r.bytes EXCEPT ![Data] = j, ![Room] = i]
  OBVIOUS
<1>9. r.bytes \in ChunkRecords
  BY <1>1 DEF RingRecords, ChunkRecords
<1>10. e \in ChunkRecords /\ e[Room] = i /\ e[Data] = j
  BY <1>8, <1>9 DEF ChunkRecords, Room, Data
<1>11. PICK q : q = [r EXCEPT !.readPos = p, !.bytes = e]
  OBVIOUS
<1>12. p \in 0..Capacity - 1
  BY <1>5 DEF Placed
<1>13. q \in RingRecords /\ q.bytes = e /\ q.readPos = p /\ q.writePos = r.writePos
  BY <1>1, <1>10, <1>11, <1>12 DEF RingRecords, ChunkRecords
<1>14. dtxConsumeSjrmtDataLocked(r) = q
  BY <1>1, <1>3, <1>4, <1>6, <1>7, <1>8, <1>9, <1>11
     DEF dtxConsumeSjrmtDataLocked, RingRecords, ChunkRecords, Room, Data
<1>15. RingOK(q, c)
  BY <1>1, <1>5, <1>6, <1>10, <1>13 DEF RingOK
<1>. QED  BY <1>14, <1>15

\* The rings of the playing players are drained, after a transfer.
LEMMA DrainKeeps ==
    ASSUME DtxInv, NEW rings, DOMAIN rings = DOMAIN sjrmt,
           \A h \in DOMAIN sjrmt : RingOK(rings[h], chunks[h]), NEW players,
           sjrmt' = dtxConsumeActivePs2RnaStreamsLocked(rings, players),
           DOMAIN ps2rna' = DOMAIN ps2rna, UNCHANGED <<sjx, nextObj, chunks>>
    PROVE  DtxInv'
<1>1. PICK playing : sjrmt' = [h \in DOMAIN rings |->
            IF h \in playing THEN dtxConsumeSjrmtDataLocked(rings[h]) ELSE rings[h]]
  BY DEF dtxConsumeActivePs2RnaStreamsLocked
<1>2. DOMAIN sjrmt' = DOMAIN sjrmt /\ sjrmt' = [h \in DOMAIN sjrmt' |-> sjrmt'[h]]
  BY <1>1
<1>3. ASSUME NEW h \in DOMAIN sjrmt PROVE RingOK(sjrmt'[h], chunks'[h])
  <2>1. RingOK(rings[h], chunks[h])
    OBVIOUS
  <2>2. RingOK(dtxConsumeSjrmtDataLocked(rings[h]), chunks[h])
    BY <2>1, ConsumeKeeps
  <2>. QED  BY <1>1, <2>1, <2>2
<1>4. DtxTypes'
  BY <1>2 DEF DtxInv, DtxTypes
<1>5. HandlesApart'
  BY <1>2 DEF DtxInv, HandlesApart
<1>. QED  BY <1>2, <1>3, <1>4, <1>5 DEF DtxInv

\* A transfer appends to the rings and drains those that are played.
LEMMA TransferKeeps == ASSUME DtxInv, noteDtxSifDmaTransfer PROVE DtxInv'
<1>1. ASSUME NEW sent \in [DOMAIN sjrmt -> ChunkSizes \cup {0}], dtxApplySjxPayload(sent)
      PROVE  DtxInv'
  <2>1. PICK rings : rings = [h \in DOMAIN sjrmt |-> dtxAppendToSjrmtData(sjrmt[h], sent[h])]
    OBVIOUS
  <2>2. /\ sjrmt' = dtxConsumeActivePs2RnaStreamsLocked(rings, ps2rna)
        /\ UNCHANGED <<sjx, ps2rna, nextObj, chunks>>
    BY <1>1, <2>1 DEF dtxApplySjxPayload
  <2>3. DOMAIN rings = DOMAIN sjrmt
    BY <2>1
  <2>4. ASSUME NEW g \in DOMAIN sjrmt PROVE RingOK(rings[g], chunks[g])
    <3>1. RingOK(sjrmt[g], chunks[g])
      BY DEF DtxInv
    <3>2. PICK n : n = sent[g] /\ n \in ChunkSizes \cup {0}
      OBVIOUS
    <3>3. n \in Nat
      BY <3>2, DtxAssumption
    <3>4. RingOK(dtxAppendToSjrmtData(sjrmt[g], n), chunks[g])
      BY <3>1, <3>3, AppendKeeps
    <3>. QED  BY <2>1, <3>2, <3>4
  <2>. QED  BY <2>2, <2>3, <2>4, DrainKeeps
<1>2. ASSUME NEW p \in DOMAIN ps2rna, NEW play \in BOOLEAN, dtxApplyPs2RnaPayload(p, play)
      PROVE  DtxInv'
  <2>1. PICK players : players = [ps2rna EXCEPT ![p].playEnabled = play]
    OBVIOUS
  <2>2. /\ ps2rna' = players /\ UNCHANGED <<sjx, nextObj, chunks>>
        /\ sjrmt' = dtxConsumeActivePs2RnaStreamsLocked(sjrmt, players)
    BY <1>2, <2>1 DEF dtxApplyPs2RnaPayload
  <2>3. DOMAIN ps2rna' = DOMAIN ps2rna
    BY <2>1, <2>2
  <2>4. \A h \in DOMAIN sjrmt : RingOK(sjrmt[h], chunks[h])
    BY DEF DtxInv
  <2>. QED  BY <2>2, <2>3, <2>4, DrainKeeps
<1>. QED  BY <1>1, <1>2 DEF noteDtxSifDmaTransfer

\* While fewer objects live than there are handles, a handle is free, and the search
\* finds one.
LEMMA HandleFound ==
    ASSUME DtxInv, CanCreate
    PROVE  dtxAllocUrpcHandleLocked \in UrpcObjects \ Live
<1> DEFINE free == UrpcObjects \ Live
<1>1. /\ IsFiniteSet(UrpcObjects) /\ MaxObjects \in Nat /\ UrpcObjects \in SUBSET Nat
      /\ MaxObjects < Cardinality(UrpcObjects) /\ Cardinality(UrpcObjects) \in Nat
  <2>1. IsFiniteSet(UrpcObjects) /\ MaxObjects \in Nat /\ MaxObjects < Cardinality(UrpcObjects)
    BY DtxAssumption
  <2>2. Cardinality(UrpcObjects) \in Nat
    BY <2>1, FS_CardinalityType
  <2>3. UrpcObjects = 1..Cardinality(UrpcObjects)
    BY DtxAssumption
  <2>4. UrpcObjects \in SUBSET Nat
    BY <2>2, <2>3
  <2>. QED  BY <2>1, <2>2, <2>4
<1>2. PICK A \in SUBSET UrpcObjects, B \in SUBSET UrpcObjects, C \in SUBSET UrpcObjects :
        A = DOMAIN sjrmt /\ B = DOMAIN sjx /\ C = DOMAIN ps2rna
  BY DEF DtxInv, DtxTypes
<1>3. free # {}
  <2>1. /\ IsFiniteSet(A) /\ Cardinality(A) \in Nat
        /\ IsFiniteSet(B) /\ Cardinality(B) \in Nat
        /\ IsFiniteSet(C) /\ Cardinality(C) \in Nat
    BY <1>1, FS_Subset, FS_CardinalityType
  <2>2. A \cap B = {} /\ (A \cup B) \cap C = {}
    BY <1>2 DEF DtxInv, HandlesApart
  <2>3. IsFiniteSet(A \cup B) /\ Cardinality(A \cup B) = Cardinality(A) + Cardinality(B)
    <3>1. Cardinality(A \cap B) = 0
      BY <2>2, FS_EmptySet
    <3>2. /\ IsFiniteSet(A \cup B)
          /\ Cardinality(A \cup B) = Cardinality(A) + Cardinality(B) - Cardinality(A \cap B)
      BY <2>1, FS_Union
    <3>. QED  BY <2>1, <3>1, <3>2
  <2>4. Cardinality((A \cup B) \cup C) = Cardinality(A) + Cardinality(B) + Cardinality(C)
    <3>1. /\ IsFiniteSet(A \cup B) /\ IsFiniteSet(C)
          /\ Cardinality((A \cup B) \cap C) = 0
      BY <2>1, <2>2, <2>3, FS_EmptySet
    <3>2. Cardinality((A \cup B) \cup C)
          = Cardinality(A \cup B) + Cardinality(C) - Cardinality((A \cup B) \cap C)
      BY <3>1, FS_Union
    <3>. QED  BY <2>1, <2>3, <3>1, <3>2
  <2>5. Cardinality(A) + Cardinality(B) + Cardinality(C) < Cardinality(UrpcObjects)
    BY <1>1, <1>2, <2>1 DEF CanCreate
  <2>6. (A \cup B) \cup C # UrpcObjects
    <3>1. ASSUME (A \cup B) \cup C = UrpcObjects PROVE FALSE
      <4>1. Cardinality(UrpcObjects) = Cardinality(A) + Cardinality(B) + Cardinality(C)
        BY <2>4, <3>1
      <4>. QED  BY <1>1, <2>1, <2>5, <4>1
    <3>. QED  BY <3>1
  <2>7. Live = (A \cup B) \cup C
    BY <1>2 DEF Live
  <2>8. (A \cup B) \cup C \in SUBSET UrpcObjects
    OBVIOUS
  <2>. QED  BY <2>6, <2>7, <2>8
<1>4. \A h \in free : Distance(h) \in Nat
  <2>1. Cardinality(UrpcObjects) \in Nat \ {0} /\ nextObj \in Int
    BY <1>1 DEF DtxInv, DtxTypes
  <2>2. ASSUME NEW h \in free PROVE Distance(h) \in Nat
    <3>1. h \in Int
      BY <1>1
    <3>2. PICK d \in Int : d = h - nextObj
      BY <2>1, <3>1
    <3>3. PICK n \in Nat \ {0} : n = Cardinality(UrpcObjects)
      BY <2>1
    <3>4. d % n \in Nat
      OBVIOUS
    <3>. QED  BY <3>2, <3>3, <3>4 DEF Distance
  <2>. QED  BY <2>2
<1>5. PICK D : D = {Distance(h) : h \in free}
  OBVIOUS
<1>6. D \in SUBSET Nat /\ D # {}
  BY <1>3, <1>4, <1>5
<1>7. PICK m : m \in D /\ \A x \in D : m <= x
  BY <1>6, MinPosition
<1>8. PICK h \in free : m = Distance(h)
  BY <1>5, <1>7
<1>9. \A g \in free : Distance(h) <= Distance(g)
  BY <1>5, <1>7, <1>8
<1>. HIDE DEF free
<1>10. FirstFrom(free) \in free
  BY <1>8, <1>9 DEF FirstFrom
<1>. QED  BY <1>10 DEF dtxAllocUrpcHandleLocked, free

\* The search goes on after the handle it found.
LEMMA FollowingType == ASSUME NEW h \in UrpcObjects PROVE Following(h) \in Int
<1>1. IsFiniteSet(UrpcObjects) /\ MaxObjects \in Nat /\ MaxObjects < Cardinality(UrpcObjects)
  BY DtxAssumption
<1>2. PICK n \in Nat \ {0} : n = Cardinality(UrpcObjects)
  BY <1>1, FS_CardinalityType
<1>3. PICK k \in Int : k = h
  <2>1. UrpcObjects = 1..Cardinality(UrpcObjects)
    BY DtxAssumption
  <2>. QED  BY <1>2, <2>1
<1>4. (k % n) + 1 \in Int
  OBVIOUS
<1>. QED  BY <1>2, <1>3, <1>4 DEF Following

\* A new object takes a handle that no other has.
LEMMA CreateKeeps ==
    ASSUME DtxInv, CreateRing \/ (\E sj \in DOMAIN sjrmt : CreateLink(sj) \/ CreatePlayer(sj))
    PROVE  DtxInv'
<1>1. CanCreate
  BY DEF CreateRing, CreateLink, CreatePlayer
<1>2. PICK h \in UrpcObjects : h = dtxAllocUrpcHandleLocked /\ h \notin Live
  BY <1>1, HandleFound
<1>3. Following(h) \in Int
  BY FollowingType
<1>4. CASE CreateRing
  <2>1. /\ sjrmt' = With(sjrmt, h, EmptyRing) /\ nextObj' = Following(h)
        /\ UNCHANGED <<sjx, ps2rna, chunks>>
    BY <1>2, <1>4 DEF CreateRing
  <2>2. /\ DOMAIN sjrmt' = DOMAIN sjrmt \cup {h} /\ sjrmt'[h] = EmptyRing
        /\ sjrmt' = [g \in DOMAIN sjrmt' |-> sjrmt'[g]]
        /\ \A g \in DOMAIN sjrmt : g # h => sjrmt'[g] = sjrmt[g]
    BY <2>1 DEF With
  <2>3. h \notin DOMAIN sjrmt /\ h \notin DOMAIN sjx /\ h \notin DOMAIN ps2rna
    BY <1>2 DEF Live
  <2>4. DtxTypes'
    BY <1>3, <2>1, <2>2 DEF DtxInv, DtxTypes
  <2>5. chunks[h] = None
    BY <2>3 DEF DtxInv
  <2>6. ASSUME NEW g \in DOMAIN sjrmt' PROVE RingOK(sjrmt'[g], chunks'[g])
    BY <2>1, <2>2, <2>5, EmptyOK DEF DtxInv
  <2>7. HandlesApart'
    BY <2>1, <2>2, <2>3 DEF DtxInv, HandlesApart
  <2>. QED  BY <2>1, <2>2, <2>4, <2>6, <2>7 DEF DtxInv
<1>5. CASE \E sj \in DOMAIN sjrmt : CreateLink(sj) \/ CreatePlayer(sj)
  <2>1. /\ nextObj' = Following(h) /\ UNCHANGED <<sjrmt, chunks>>
        /\ \/ DOMAIN sjx' = DOMAIN sjx \cup {h} /\ UNCHANGED ps2rna
           \/ DOMAIN ps2rna' = DOMAIN ps2rna \cup {h} /\ UNCHANGED sjx
    BY <1>2, <1>5 DEF CreateLink, CreatePlayer, With
  <2>2. h \notin DOMAIN sjrmt /\ h \notin DOMAIN sjx /\ h \notin DOMAIN ps2rna
    BY <1>2 DEF Live
  <2>3. DtxTypes'
    BY <1>3, <2>1 DEF DtxInv, DtxTypes
  <2>4. HandlesApart'
    BY <2>1, <2>2 DEF DtxInv, HandlesApart
  <2>. QED  BY <2>1, <2>3, <2>4 DEF DtxInv
<1>. QED  BY <1>4, <1>5

\* A destroyed ring leaves no chunk behind.
LEMMA DestroyKeeps == ASSUME DtxInv, Destroy PROVE DtxInv'
<1>0. None \in ChunkRecords
  BY EmptyOK DEF RingOK
<1>1. CASE \E h \in DOMAIN sjrmt : /\ sjrmt' = Without(sjrmt, h)
                                   /\ chunks' = [chunks EXCEPT ![h] = None]
                                   /\ UNCHANGED <<sjx, ps2rna>>
  <2>1. PICK h \in DOMAIN sjrmt : /\ sjrmt' = Without(sjrmt, h)
                                  /\ chunks' = [chunks EXCEPT ![h] = None]
                                  /\ UNCHANGED <<sjx, ps2rna>>
    BY <1>1
  <2>2. nextObj' = nextObj
    BY DEF Destroy
  <2>3. /\ DOMAIN sjrmt' = DOMAIN sjrmt \ {h}
        /\ sjrmt' = [g \in DOMAIN sjrmt' |-> sjrmt'[g]]
        /\ \A g \in DOMAIN sjrmt : g # h => sjrmt'[g] = sjrmt[g]
    BY <2>1 DEF Without
  <2>4. h \in UrpcObjects
    BY DEF DtxInv, DtxTypes
  <2>5. /\ chunks' \in [UrpcObjects -> ChunkRecords] /\ chunks'[h] = None
        /\ \A g \in UrpcObjects : g # h => chunks'[g] = chunks[g]
    BY <1>0, <2>1, <2>4 DEF DtxInv, DtxTypes
  <2>6. DtxTypes'
    BY <2>1, <2>2, <2>3, <2>5 DEF DtxInv, DtxTypes
  <2>7. ASSUME NEW g \in DOMAIN sjrmt' PROVE RingOK(sjrmt'[g], chunks'[g])
    <3>1. g \in UrpcObjects /\ g \in DOMAIN sjrmt /\ g # h
      BY <2>3 DEF DtxInv, DtxTypes
    <3>. QED  BY <2>3, <2>5, <3>1 DEF DtxInv
  <2>8. HandlesApart'
    BY <2>1, <2>3 DEF DtxInv, HandlesApart
  <2>9. ASSUME NEW g \in UrpcObjects, g \notin DOMAIN sjrmt' PROVE chunks'[g] = None
    BY <2>3, <2>5, <2>9 DEF DtxInv
  <2>. QED  BY <2>6, <2>7, <2>8, <2>9 DEF DtxInv
<1>2. CASE \/ \E h \in DOMAIN sjx : /\ sjx' = Without(sjx, h)
                                    /\ UNCHANGED <<sjrmt, ps2rna, chunks>>
           \/ \E h \in DOMAIN ps2rna : /\ ps2rna' = Without(ps2rna, h)
                                       /\ UNCHANGED <<sjrmt, sjx, chunks>>
  <2>1. /\ UNCHANGED <<sjrmt, chunks, nextObj>>
        /\ \/ DOMAIN sjx' \subseteq DOMAIN sjx /\ UNCHANGED ps2rna
           \/ DOMAIN ps2rna' \subseteq DOMAIN ps2rna /\ UNCHANGED sjx
    BY <1>2 DEF Destroy, Without
  <2>2. DtxTypes'
    BY <2>1 DEF DtxInv, DtxTypes
  <2>3. HandlesApart'
    BY <2>1 DEF DtxInv, HandlesApart
  <2>. QED  BY <2>1, <2>2, <2>3 DEF DtxInv
<1>. QED  BY <1>1, <1>2 DEF Destroy

\* With no object at all.
LEMMA NoneAlive ==
    /\ DtxInit => DtxInv
    /\ resetDtxRpcState => DtxInv'
<1>1. None \in ChunkRecords
  BY EmptyOK DEF RingOK
<1>2. 1 \in Int /\ DOMAIN <<>> = {}
  OBVIOUS
<1>3. ASSUME DtxInit PROVE DtxInv
  <2>1. /\ DOMAIN sjrmt = {} /\ DOMAIN sjx = {} /\ DOMAIN ps2rna = {}
        /\ sjrmt = [h \in DOMAIN sjrmt |-> sjrmt[h]]
    BY <1>2, <1>3 DEF DtxInit
  <2>2. chunks = [h \in UrpcObjects |-> None] /\ nextObj = 1
    BY <1>3 DEF DtxInit
  <2>. QED  BY <1>1, <2>1, <2>2 DEF DtxInv, DtxTypes, HandlesApart
<1>4. ASSUME resetDtxRpcState PROVE DtxInv'
  <2>1. /\ DOMAIN sjrmt' = {} /\ DOMAIN sjx' = {} /\ DOMAIN ps2rna' = {}
        /\ sjrmt' = [h \in DOMAIN sjrmt' |-> sjrmt'[h]]
    BY <1>2, <1>4 DEF resetDtxRpcState
  <2>2. chunks' = [h \in UrpcObjects |-> None] /\ nextObj' = 1
    BY <1>4 DEF resetDtxRpcState
  <2>. QED  BY <1>1, <2>1, <2>2 DEF DtxInv, DtxTypes, HandlesApart
<1>. QED  BY <1>3, <1>4

\* Whatever the guest's library sends and however large the rings and the table of
\* handles are, a ring neither loses nor invents a byte, its write position is the
\* end of what it holds, and no handle answers for two objects (RPC.cpp 1052-1122, 2158-2456).
THEOREM StreamsSound == Spec => []DtxSound
<1>1. Init => DtxInv
  BY NoneAlive DEF Init
<1>2. DtxInv /\ [Next]_vars => DtxInv'
  <2>. SUFFICES ASSUME DtxInv, [Next]_vars PROVE DtxInv'
    OBVIOUS
  <2>1. CASE DtxNext
    <3>1. CASE CreateRing \/ (\E sj \in DOMAIN sjrmt : CreateLink(sj) \/ CreatePlayer(sj))
      BY <3>1, CreateKeeps
    <3>2. CASE \E sj \in DOMAIN sjrmt : ResetRing(sj)
      BY <3>2, ResetKeeps
    <3>3. ASSUME NEW h \in DOMAIN sjrmt, NEW s \in {Room, Data}, NEW n \in ChunkSizes,
                 GetChunk(h, s, n)
          PROVE  DtxInv'
      BY <3>3, GetKeeps
    <3>4. ASSUME NEW h \in DOMAIN sjrmt, NEW s \in {Room, Data}, NEW n \in 1..chunks[h][s],
                 UngetChunk(h, s, n)
          PROVE  DtxInv'
      <4>1. n \in Int
        OBVIOUS
      <4>. QED  BY <3>4, <4>1, UngetKeeps
    <3>5. ASSUME NEW h \in DOMAIN sjrmt, NEW s \in {Room, Data},
                 PutChunk(h, s, chunks[h][1 - s])
          PROVE  DtxInv'
      <4>1. PICK n : n = chunks[h][1 - s]
        OBVIOUS
      <4>. QED  BY <3>5, <4>1, PutKeeps
    <3>. QED  BY <2>1, <3>1, <3>2, <3>3, <3>4, <3>5, DestroyKeeps, TransferKeeps, NoneAlive
              DEF DtxNext
  <2>2. CASE UNCHANGED dtxVars
    <3>1. UNCHANGED <<sjrmt, sjx, ps2rna, nextObj, chunks>>
      BY <2>2 DEF dtxVars
    <3>2. DtxTypes' /\ HandlesApart'
      BY <3>1 DEF DtxInv, DtxTypes, HandlesApart
    <3>. QED  BY <3>1, <3>2 DEF DtxInv
  <2>. QED  BY <2>1, <2>2 DEF Next, vars
<1>3. DtxInv => DtxSound
  <2>. SUFFICES ASSUME DtxInv PROVE DtxSound
    OBVIOUS
  <2>1. ASSUME NEW h \in DOMAIN sjrmt
        PROVE  /\ sjrmt[h].bytes[Room] + sjrmt[h].bytes[Data] + chunks[h][Room] + chunks[h][Data]
                  = Capacity
               /\ sjrmt[h].writePos
                  = (sjrmt[h].readPos + sjrmt[h].bytes[Data] + chunks[h][Room]) % Capacity
    <3>1. PICK r, c : r = sjrmt[h] /\ c = chunks[h] /\ RingOK(r, c)
      BY DEF DtxInv
    <3>2. Placed(r.readPos, r.writePos, r.bytes[Room], r.bytes[Data], c[Room], c[Data])
      BY <3>1 DEF RingOK
    <3>3. Balanced(r.readPos, r.writePos, r.bytes[Room], r.bytes[Data], c[Room], c[Data])
      <4>1. /\ r.readPos \in 0..Capacity - 1 /\ r.writePos \in 0..Capacity - 1
            /\ r.bytes[Room] \in 0..Capacity /\ r.bytes[Data] \in 0..Capacity
            /\ c[Room] \in 0..Capacity /\ c[Data] \in 0..Capacity
        BY <3>2 DEF Placed
      <4>. QED  BY <3>2, <4>1, BalancedIsPlaced
    <3>. QED  BY <3>1, <3>3 DEF Balanced
  <2>. QED  BY <2>1 DEF DtxInv, DtxSound, RingConserved
<1>. QED  BY <1>1, <1>2, <1>3, PTL DEF Spec

-----------------------------------------------------------------------------
(* The stacks of host callbacks *)

Spans == Nat \X Nat

\* What was carved lies above what is left, and within the pool.
PoolInv ==
    /\ poolTop \in Nat /\ PoolFloor <= poolTop /\ poolTop <= PoolTop
    /\ stacks \in SUBSET Spans
    /\ \A s \in stacks : poolTop <= s[1] /\ s[2] <= PoolTop
    /\ StacksDisjoint

\* Another stack is carved below all others.
LEMMA CarveKeeps ==
    ASSUME PoolInv, NEW size \in HeapSizes, NEW align \in HeapAligns,
           carve(size, normalizeGuestHeapAlignment(align))
    PROVE  PoolInv'
<1>1. PICK a \in Nat \ {0} : a = normalizeGuestHeapAlignment(align)
  BY GuestHeapAssumption DEF normalizeGuestHeapAlignment
<1>2. PICK n : n = alignGuestHeapValue(size, HeapAlign)
  OBVIOUS
<1>3. PICK base : base = ((poolTop - n) \div a) * a
  OBVIOUS
<1>4. /\ poolTop > n /\ base >= PoolFloor /\ base < poolTop
      /\ poolTop' = base /\ stacks' = stacks \cup {<<base, poolTop>>}
  BY <1>1, <1>2, <1>3 DEF carve
<1>5. PoolFloor \in Nat /\ PoolTop \in Nat /\ PoolFloor < PoolTop
  BY GuestHeapAssumption
<1>6. base \in Nat
  <2>1. n \in Int
    <3>1. size \in Int /\ MaxWord \in Int /\ HeapAlign \in Nat \ {0}
      BY GuestHeapAssumption
    <3>. QED  BY <1>2, <3>1 DEF alignGuestHeapValue
  <2>2. PICK x \in Int : x = poolTop - n
    BY <2>1 DEF PoolInv
  <2>3. PICK y \in Int : y = x \div a
    OBVIOUS
  <2>4. y * a \in Int
    BY <2>3
  <2>. QED  BY <1>3, <1>4, <1>5, <2>2, <2>3, <2>4
<1>7. PICK p \in Nat : p = poolTop /\ p <= PoolTop /\ base < p
  BY <1>4 DEF PoolInv
<1>8. PICK new : new = <<base, p>>
  OBVIOUS
<1>9. new \in Spans /\ new[1] = base /\ new[2] = p
  BY <1>6, <1>8 DEF Spans
<1>10. stacks' = stacks \cup {new} /\ stacks' \in SUBSET Spans
  BY <1>4, <1>7, <1>8, <1>9 DEF PoolInv
<1>11. ASSUME NEW s \in stacks
       PROVE  /\ s[1] \in Nat /\ s[2] \in Nat /\ p <= s[1] /\ s[2] <= PoolTop
              /\ PoolFloor <= s[1]
  BY <1>5, <1>7 DEF PoolInv, Spans
<1>12. ASSUME NEW s \in stacks' PROVE poolTop' <= s[1] /\ s[2] <= PoolTop /\ PoolFloor <= s[1]
  BY <1>4, <1>5, <1>6, <1>7, <1>9, <1>10, <1>11
<1>13. ASSUME NEW s \in stacks', NEW r \in stacks' PROVE r = s \/ r[2] <= s[1] \/ s[2] <= r[1]
  BY <1>9, <1>10, <1>11 DEF PoolInv, StacksDisjoint
<1>14. StacksDisjoint'
  BY <1>12, <1>13 DEF StacksDisjoint
<1>15. poolTop' \in Nat /\ PoolFloor <= poolTop' /\ poolTop' <= PoolTop
  BY <1>4, <1>5, <1>6, <1>7
<1>. QED  BY <1>10, <1>12, <1>14, <1>15 DEF PoolInv

\* The stacks of host callbacks never overlap and never leave the kernel's pool,
\* whatever sizes and alignments are asked for, sums that saturate included
\* (ps2_runtime.cpp 2613-2654).
THEOREM StacksApart == Spec => []StacksDisjoint
<1>1. Init => PoolInv
  BY GuestHeapAssumption DEF Init, HeapInit, PoolInv, StacksDisjoint, Spans
<1>2. PoolInv /\ [Next]_vars => PoolInv'
  <2>. SUFFICES ASSUME PoolInv, [Next]_vars PROVE PoolInv'
    OBVIOUS
  <2>1. ASSUME NEW size \in HeapSizes, NEW align \in HeapAligns,
               carve(size, normalizeGuestHeapAlignment(align))
        PROVE  PoolInv'
    BY <2>1, CarveKeeps
  <2>2. CASE UNCHANGED <<poolTop, stacks>>
    BY <2>2 DEF PoolInv, StacksDisjoint
  <2>3. CASE HeapNext
    <3>1. \/ \E size \in HeapSizes, align \in HeapAligns :
                carve(size, normalizeGuestHeapAlignment(align))
          \/ UNCHANGED <<poolTop, stacks>>
      <4>1. ASSUME NEW c \in Clients, guestFree(c) PROVE UNCHANGED <<poolTop, stacks>>
        BY <4>1 DEF guestFree
      <4>2. ASSUME NEW c \in Clients, NEW size \in HeapSizes, NEW align \in HeapAligns,
                   guestMalloc(c, size, align) \/ guestRealloc(c, size, align)
            PROVE  UNCHANGED <<poolTop, stacks>>
        <5>1. CASE guestMalloc(c, size, align)
          BY <5>1, Zenon DEF guestMalloc
        <5>2. CASE guestRealloc(c, size, align)
          BY <5>2, Zenon DEF guestRealloc
        <5>. QED  BY <4>2, <5>1, <5>2
      <4>3. ASSUME NEW b \in HeapBases, NEW l \in HeapLimits, configureGuestHeap(b, l)
            PROVE  UNCHANGED <<poolTop, stacks>>
        BY <4>3 DEF configureGuestHeap
      <4>. QED  BY <2>3, <4>1, <4>2, <4>3 DEF HeapNext
    <3>. QED  BY <2>1, <2>2, <3>1
  <2>4. CASE UNCHANGED heapVars
    BY <2>2, <2>4 DEF heapVars
  <2>. QED  BY <2>3, <2>4 DEF Next, vars
<1>3. PoolInv => StacksDisjoint
  BY DEF PoolInv
<1>. QED  BY <1>1, <1>2, <1>3, PTL DEF Spec

-----------------------------------------------------------------------------
(* The packets of PATH3 *)

Payloads == Seq(Nat)
Packets == [path : {2, 3}, words : Payloads]

\* The PATH3 packets of s.
Drawn(s) == Path3Of(s)[Len(s)]

\* Path3Of is what its definition says.
LEMMA Path3Steps ==
    ASSUME NEW s \in Seq(Packets)
    PROVE  /\ Path3Of(s) \in [0..Len(s) -> Seq(Payloads)]
           /\ Path3Of(s)[0] = <<>>
           /\ \A n \in 1..Len(s) : Path3Of(s)[n] = IF s[n].path = 3
                                                   THEN Append(Path3Of(s)[n - 1], s[n].words)
                                                   ELSE Path3Of(s)[n - 1]
<1> DEFINE V == Seq(Payloads)
           Next3(v, n) == IF s[n].path = 3 THEN Append(v, s[n].words) ELSE v
           step == [n \in 1..Len(s) |-> [v \in V |-> Next3(v, n)]]
<1>1. ASSUME NEW n \in 1..Len(s), NEW v \in V PROVE Next3(v, n) \in V
  <2>1. s[n] \in Packets
    OBVIOUS
  <2>2. s[n].words \in Payloads
    BY <2>1 DEF Packets
  <2>. QED  BY <2>2
<1>2. step \in [1..Len(s) -> [V -> V]] /\ <<>> \in V /\ Len(s) \in Nat
  BY <1>1
<1>3. \A n \in 1..Len(s) : \A v \in V : step[n][v] = Next3(v, n)
  OBVIOUS
<1>. HIDE DEF step, V, Next3
<1>4. PICK f \in [0..Len(s) -> V] : Stepwise(f, Len(s), <<>>, step)
  BY <1>2, Recursion
<1>5. f = [n \in 0..Len(s) |-> IF n = 0 THEN <<>> ELSE Next3(f[n - 1], n)]
  BY <1>2, <1>3, <1>4 DEF Stepwise
<1>6. PICK g : g = Path3Of(s)
  OBVIOUS
<1>7. g = [n \in 0..Len(s) |-> IF n = 0 THEN <<>> ELSE Next3(g[n - 1], n)]
  BY <1>5, <1>6 DEF Path3Of, Next3
<1>8. g = [n \in 0..Len(s) |-> g[n]]
  BY <1>7
<1>9. g[0] = <<>> /\ \A n \in 1..Len(s) : g[n] = Next3(g[n - 1], n)
  <2>1. PICK m \in Nat : m = Len(s)
    BY <1>2
  <2>. QED  BY <1>7, <2>1
<1>10. g \in [0..Len(s) -> V]
  <2>1. g[0] \in V /\ \A n \in 1..Len(s) : g[n - 1] \in V => g[n] \in V
    BY <1>1, <1>2, <1>9
  <2>. QED  BY <1>2, <1>8, <2>1, StepwiseType
<1>. QED  BY <1>6, <1>9, <1>10 DEF V, Next3

\* What was drawn stays drawn.
LEMMA Path3Prefix ==
    ASSUME NEW s \in Seq(Packets), NEW t \in Seq(Packets), Len(s) <= Len(t),
           \A n \in 1..Len(s) : t[n] = s[n]
    PROVE  Path3Of(t)[Len(s)] = Drawn(s)
<1> DEFINE Good == {n \in 0..Len(s) : Path3Of(t)[n] = Path3Of(s)[n]}
<1>1. 0 \in Good /\ \A n \in 1..Len(s) : n - 1 \in Good => n \in Good
  BY Path3Steps
<1>2. \A n \in 0..Len(s) : n \in Good
  <2>. HIDE DEF Good
  <2>. QED  BY <1>1, Upwards, Len(s) \in Nat
<1>. QED  BY <1>2 DEF Drawn

\* One packet more.
LEMMA DrawnAppend ==
    ASSUME NEW s \in Seq(Packets), NEW p \in Packets
    PROVE  Drawn(Append(s, p)) = IF p.path = 3 THEN Append(Drawn(s), p.words) ELSE Drawn(s)
<1>1. PICK t : t = Append(s, p)
  OBVIOUS
<1>2. /\ t \in Seq(Packets) /\ Len(t) = Len(s) + 1 /\ t[Len(t)] = p
      /\ \A n \in 1..Len(s) : t[n] = s[n]
  BY <1>1
<1>3. Path3Of(t)[Len(t) - 1] = Drawn(s)
  BY <1>2, Path3Prefix
<1>4. Path3Of(t)[Len(t)] = IF t[Len(t)].path = 3
                                  THEN Append(Path3Of(t)[Len(t) - 1], t[Len(t)].words)
                           ELSE Path3Of(t)[Len(t) - 1]
  BY <1>2, Path3Steps
<1>. QED  BY <1>1, <1>2, <1>3, <1>4 DEF Drawn

\* The PATH3 packets of s, their type.
LEMMA DrawnType == ASSUME NEW s \in Seq(Packets) PROVE Drawn(s) \in Seq(Payloads)
  BY Path3Steps DEF Drawn

\* One element more at the end of two sequences in a row.
LEMMA ConcatAppend ==
    ASSUME NEW S, NEW s \in Seq(S), NEW t \in Seq(S), NEW e \in S
    PROVE  s \o Append(t, e) = Append(s \o t, e)
<1>1. Append(t, e) = t \o <<e>> /\ Append(s \o t, e) = (s \o t) \o <<e>> /\ <<e>> \in Seq(S)
  OBVIOUS
<1>. QED  BY <1>1, ConcatAssociative

\* A flush draws what was held.
LEMMA DrawnFlush ==
    ASSUME NEW s \in Seq(Packets), NEW h \in Seq(Payloads)
    PROVE  LET p == [i \in DOMAIN h |-> [path |-> 3, words |-> h[i]]]
           IN  s \o p \in Seq(Packets) /\ Drawn(s \o p) = Drawn(s) \o h
<1>1. PICK p : p = [i \in DOMAIN h |-> [path |-> 3, words |-> h[i]]]
  OBVIOUS
<1>2. PICK m \in Nat : m = Len(h) /\ DOMAIN h = 1..m
  OBVIOUS
<1>3. p \in Seq(Packets) /\ Len(p) = m /\ \A i \in 1..m : p[i].path = 3 /\ p[i].words = h[i]
  <2>1. \A i \in 1..m : h[i] \in Payloads
    BY <1>2
  <2>2. p \in [1..m -> Packets]
    BY <1>1, <1>2, <2>1 DEF Packets
  <2>3. p \in Seq(Packets) /\ Len(p) = m
    BY <2>2
  <2>. QED  BY <1>1, <1>2, <2>3
<1>4. PICK t : t = s \o p
  OBVIOUS
<1>5. PICK k \in Nat : k = Len(s)
  OBVIOUS
<1>6. /\ t \in Seq(Packets) /\ Len(t) = k + m
      /\ \A n \in 1..k : t[n] = s[n]
      /\ \A i \in 1..m : t[k + i] = p[i]
  <2>1. \A i \in 1..k + m : t[i] = IF i <= k THEN s[i] ELSE p[i - k]
    BY <1>3, <1>4, <1>5, ConcatProperties
  <2>2. t \in Seq(Packets) /\ Len(t) = k + m
    BY <1>3, <1>4, <1>5, ConcatProperties
  <2>3. \A i \in 1..m : k + i \in 1..k + m /\ ~(k + i <= k) /\ (k + i) - k = i
    OBVIOUS
  <2>. QED  BY <2>1, <2>2, <2>3
<1> DEFINE Good == {n \in 0..m : Path3Of(t)[k + n] = Drawn(s) \o SubSeq(h, 1, n)}
<1>7. 0 \in Good
  <2>1. Path3Of(t)[k] = Drawn(s)
    BY <1>5, <1>6, Path3Prefix
  <2>2. SubSeq(h, 1, 0) = <<>> /\ Drawn(s) \o <<>> = Drawn(s) /\ k + 0 = k
    BY DrawnType
  <2>3. Path3Of(t)[k + 0] = Drawn(s) \o SubSeq(h, 1, 0)
    BY <2>1, <2>2, Zenon
  <2>. QED  BY <2>3
<1>8. ASSUME NEW n \in 1..m, n - 1 \in Good PROVE n \in Good
  <2>1. k + n \in 1..Len(t) /\ t[k + n].path = 3 /\ t[k + n].words = h[n]
    BY <1>3, <1>6
  <2>2. Path3Of(t)[k + n] = Append(Path3Of(t)[(k + n) - 1], h[n])
    BY <1>6, <2>1, Path3Steps
  <2>3. (k + n) - 1 = k + (n - 1)
    OBVIOUS
  <2>4. PICK u : u = SubSeq(h, 1, n - 1)
    OBVIOUS
  <2>5. u \in Seq(Payloads) /\ h[n] \in Payloads /\ SubSeq(h, 1, n) = Append(u, h[n])
    BY <1>2, <2>4
  <2>6. Path3Of(t)[k + n] = Append(Drawn(s) \o u, h[n])
    BY <1>8, <2>2, <2>3, <2>4
  <2>7. Drawn(s) \o Append(u, h[n]) = Append(Drawn(s) \o u, h[n])
    BY <2>5, DrawnType, ConcatAppend
  <2>8. Path3Of(t)[k + n] = Drawn(s) \o SubSeq(h, 1, n)
    BY <2>5, <2>6, <2>7, Zenon
  <2>. QED  BY <2>8
<1>9. \A n \in 0..m : n \in Good
  <2>. HIDE DEF Good
  <2>. QED  BY <1>7, <1>8, Upwards
<1>10. Drawn(t) = Drawn(s) \o SubSeq(h, 1, m)
  <2>1. Path3Of(t)[k + m] = Drawn(s) \o SubSeq(h, 1, m)
    BY <1>9
  <2>. QED  BY <1>6, <2>1, Zenon DEF Drawn
<1>11. SubSeq(h, 1, m) = h
  BY <1>2
<1>. QED  BY <1>1, <1>4, <1>6, <1>10, <1>11

\* A tag as the chain hands it on.
Links == [code : {"nop", "mask", "unmask", "direct"}, words : Payloads]

\* The GIF's side, and the PATH3 packets it was given.
GifStates == [mask : BOOLEAN, held : Seq(Payloads), out : Seq(Packets)]
GifSent(g) == Drawn(g.out) \o g.held

\* Nothing is held while the mask is off.
GifOK(g) == g \in GifStates /\ (~g.mask => g.held = <<>>)

\* flushMaskedPath3PacketsLocked hands over what was held, and in its order.
LEMMA FlushKeeps ==
    ASSUME NEW g \in GifStates
    PROVE  /\ Flush(g) \in GifStates /\ Flush(g).held = <<>> /\ Flush(g).mask = g.mask
           /\ Drawn(Flush(g).out) = GifSent(g) /\ GifSent(Flush(g)) = GifSent(g)
<1>1. PICK p : p = [i \in DOMAIN g.held |-> [path |-> 3, words |-> g.held[i]]]
  OBVIOUS
<1>2. g.out \in Seq(Packets) /\ g.held \in Seq(Payloads) /\ g.mask \in BOOLEAN
  BY DEF GifStates
<1>3. g.out \o p \in Seq(Packets) /\ Drawn(g.out \o p) = GifSent(g)
  BY <1>1, <1>2, DrawnFlush DEF GifSent
<1>4. PICK o : o = g.out \o p
  OBVIOUS
<1>5. Flush(g) = [g EXCEPT !.out = o, !.held = <<>>]
  BY <1>1, <1>4 DEF Flush
<1>6. /\ Flush(g) \in GifStates /\ Flush(g).held = <<>> /\ Flush(g).mask = g.mask
      /\ Flush(g).out = o
  <2>1. PICK e \in Seq(Payloads) : e = <<>>
    BY EmptySeq
  <2>2. o \in Seq(Packets) /\ Flush(g) = [g EXCEPT !.out = o, !.held = e]
    BY <1>3, <1>4, <1>5, <2>1
  <2>. QED  BY <2>1, <2>2 DEF GifStates
<1>7. Drawn(o) = GifSent(g) /\ Drawn(o) \o <<>> = Drawn(o)
  BY <1>3, <1>4, DrawnType
<1>. QED  BY <1>6, <1>7 DEF GifSent

\* A packet that is submitted is drawn or held behind those before it.
LEMMA SubmitKeeps ==
    ASSUME NEW g, GifOK(g), NEW path \in {2, 3}, NEW w \in Payloads
    PROVE  /\ GifOK(submitGifPacket(g, path, w))
           /\ GifSent(submitGifPacket(g, path, w))
                = IF path = 3 /\ w # <<>> THEN Append(GifSent(g), w) ELSE GifSent(g)
<1>1. g \in GifStates /\ g.out \in Seq(Packets) /\ g.held \in Seq(Payloads) /\ g.mask \in BOOLEAN
  BY DEF GifStates, GifOK
<1>2. CASE w = <<>>
  BY <1>2 DEF submitGifPacket
<1>3. CASE w # <<>> /\ path = 3 /\ g.mask
  <2>1. PICK h : h = Append(g.held, w)
    OBVIOUS
  <2>2. h \in Seq(Payloads) /\ submitGifPacket(g, path, w) = [g EXCEPT !.held = h]
    BY <1>1, <1>3, <2>1 DEF submitGifPacket
  <2>3. PICK r : r = [g EXCEPT !.held = h]
    OBVIOUS
  <2>4. r \in GifStates /\ r.mask = g.mask /\ r.held = h /\ r.out = g.out
    BY <1>1, <2>2, <2>3 DEF GifStates
  <2>5. Drawn(g.out) \o Append(g.held, w) = Append(Drawn(g.out) \o g.held, w)
    <3>1. Drawn(g.out) \in Seq(Payloads)
      BY <1>1, DrawnType
    <3>2. \A u, v \in Seq(Payloads) : u \o Append(v, w) = Append(u \o v, w)
      BY ConcatAppend
    <3>. QED  BY <1>1, <3>1, <3>2, Zenon
  <2>6. GifSent(r) = Append(GifSent(g), w)
    BY <2>1, <2>4, <2>5 DEF GifSent
  <2>. QED  BY <1>3, <2>2, <2>3, <2>4, <2>6 DEF GifOK
<1>4. CASE w # <<>> /\ ~(path = 3 /\ g.mask)
  <2>1. PICK f : f = IF path = 3 THEN Flush(g) ELSE g
    OBVIOUS
  <2>2. /\ f \in GifStates /\ f.mask = g.mask /\ GifSent(f) = GifSent(g)
        /\ ~f.mask => f.held = <<>>
        /\ path = 3 => f.held = <<>>
    BY <1>1, <2>1, FlushKeeps DEF GifOK
  <2>3. PICK p : p = [path |-> path, words |-> w]
    OBVIOUS
  <2>4. p \in Packets /\ p.path = path /\ p.words = w
    BY <2>3 DEF Packets
  <2>5. PICK o : o = Append(f.out, p)
    OBVIOUS
  <2>6. f.out \in Seq(Packets) /\ f.held \in Seq(Payloads) /\ o \in Seq(Packets)
    <3>1. f.out \in Seq(Packets) /\ f.held \in Seq(Payloads)
      BY <2>2 DEF GifStates
    <3>. QED  BY <2>4, <2>5, <3>1
  <2>7. PICK r : r = [f EXCEPT !.out = o]
    OBVIOUS
  <2>8. submitGifPacket(g, path, w) = r
    BY <1>4, <2>1, <2>3, <2>5, <2>7 DEF submitGifPacket
  <2>9. r \in GifStates /\ r.mask = f.mask /\ r.held = f.held /\ r.out = o
    BY <2>2, <2>6, <2>7 DEF GifStates
  <2>10. Drawn(o) = IF path = 3 THEN Append(Drawn(f.out), w) ELSE Drawn(f.out)
    BY <2>4, <2>5, <2>6, DrawnAppend
  <2>11. GifSent(r) = IF path = 3 THEN Append(GifSent(f), w) ELSE GifSent(f)
    <3>1. CASE path = 3
      <4>1. Drawn(f.out) \o <<>> = Drawn(f.out)
        BY <2>6, DrawnType
      <4>2. Append(Drawn(f.out), w) \o <<>> = Append(Drawn(f.out), w)
        BY <2>6, DrawnType
      <4>3. f.held = <<>>
        BY <3>1, <2>2
      <4>. QED  BY <3>1, <2>9, <2>10, <4>1, <4>2, <4>3 DEF GifSent
    <3>2. CASE path = 2
      BY <3>2, <2>9, <2>10 DEF GifSent
    <3>. QED  BY <3>1, <3>2
  <2>. QED  BY <1>4, <2>2, <2>8, <2>9, <2>11 DEF GifOK
<1>. QED  BY <1>2, <1>3, <1>4

\* The mask goes on, or off and everything held is drawn.
LEMMA MskKeeps ==
    ASSUME NEW g, GifOK(g), NEW on \in BOOLEAN
    PROVE  GifOK(MskPath3(g, on)) /\ GifSent(MskPath3(g, on)) = GifSent(g)
<1>1. PICK m : m = [g EXCEPT !.mask = on]
  OBVIOUS
<1>2. m \in GifStates /\ m.mask = on /\ m.held = g.held /\ m.out = g.out
  BY <1>1 DEF GifOK, GifStates
<1>3. GifSent(m) = GifSent(g)
  BY <1>2 DEF GifSent
<1>4. CASE g.mask /\ ~on
  BY <1>1, <1>2, <1>3, <1>4, FlushKeeps DEF MskPath3, GifOK
<1>5. CASE ~(g.mask /\ ~on)
  BY <1>1, <1>2, <1>3, <1>5 DEF MskPath3, GifOK
<1>. QED  BY <1>4, <1>5

\* No VIF code sends on PATH3 or takes from it.
LEMMA CodeKeeps ==
    ASSUME NEW g, GifOK(g), NEW link \in Links
    PROVE  GifOK(Vif1Code(g, link)) /\ GifSent(Vif1Code(g, link)) = GifSent(g)
<1>1. link.words \in Payloads /\ link.code \in {"nop", "mask", "unmask", "direct"}
  BY DEF Links
<1>2. CASE link.code = "mask"
  BY <1>2, MskKeeps DEF Vif1Code
<1>3. CASE link.code = "unmask"
  BY <1>3, MskKeeps DEF Vif1Code
<1>4. CASE link.code = "direct"
  BY <1>1, <1>4, SubmitKeeps DEF Vif1Code
<1>5. CASE link.code = "nop"
  BY <1>5 DEF Vif1Code
<1>. QED  BY <1>1, <1>2, <1>3, <1>4, <1>5

\* Nor do all the codes of a transfer.
LEMMA CodesKeep ==
    ASSUME NEW g0, GifOK(g0), NEW links \in Seq(Links)
    PROVE  GifOK(Vif1Codes(g0, links)[Len(links)])
           /\ GifSent(Vif1Codes(g0, links)[Len(links)]) = GifSent(g0)
<1> DEFINE V == {g \in GifStates : GifOK(g) /\ GifSent(g) = GifSent(g0)}
           step == [n \in 1..Len(links) |-> [g \in V |-> Vif1Code(g, links[n])]]
<1>1. PICK m \in Nat : m = Len(links)
  OBVIOUS
<1>2. ASSUME NEW n \in 1..m, NEW g \in V PROVE Vif1Code(g, links[n]) \in V
  <2>1. links[n] \in Links /\ GifOK(g) /\ GifSent(g) = GifSent(g0)
    BY <1>1
  <2>. QED  BY <2>1, CodeKeeps DEF GifOK
<1>3. step \in [1..m -> [V -> V]] /\ \A n \in 1..m : \A g \in V : step[n][g] = Vif1Code(g, links[n])
  BY <1>1, <1>2
<1>4. g0 \in V
  BY DEF GifOK
<1>. HIDE DEF step, V
<1>5. PICK f \in [0..m -> V] : Stepwise(f, m, g0, step)
  BY <1>3, <1>4, Recursion
<1>6. f = [n \in 0..m |-> IF n = 0 THEN g0 ELSE Vif1Code(f[n - 1], links[n])]
  BY <1>3, <1>5 DEF Stepwise
<1>7. PICK h : h = Vif1Codes(g0, links)
  OBVIOUS
<1>8. h = [n \in 0..m |-> IF n = 0 THEN g0 ELSE Vif1Code(h[n - 1], links[n])]
  BY <1>1, <1>6, <1>7 DEF Vif1Codes
<1>9. h = [n \in 0..m |-> h[n]]
  BY <1>8
<1>10. h[0] = g0 /\ \A n \in 1..m : h[n] = Vif1Code(h[n - 1], links[n])
  BY <1>8
<1>11. h \in [0..m -> V]
  <2>1. h[0] \in V /\ \A n \in 1..m : h[n - 1] \in V => h[n] \in V
    BY <1>2, <1>4, <1>10
  <2>. QED  BY <1>9, <2>1, StepwiseType
<1>12. h[m] \in V
  BY <1>11
<1>. QED  BY <1>1, <1>7, <1>12 DEF V

-----------------------------------------------------------------------------
(* What a chain hands on *)

\* f joins the payloads of the first n links, for each n.
Joins(f, links) == f[0] = <<>> /\ \A n \in 1..Len(links) : f[n] = f[n - 1] \o links[n].words

\* Joined is the last of them.
LEMMA JoinedBy ==
    ASSUME NEW links \in Seq(Links)
    PROVE  \E f \in [0..Len(links) -> Payloads] : Joins(f, links) /\ Joined(links) = f[Len(links)]
<1> DEFINE Next1(v, n) == v \o links[n].words
           step == [n \in 1..Len(links) |-> [v \in Payloads |-> Next1(v, n)]]
<1>1. PICK m \in Nat : m = Len(links) /\ DOMAIN links = 1..m
  OBVIOUS
<1>2. \A n \in 1..m : links[n].words \in Payloads
  <2>1. \A n \in 1..m : links[n] \in Links
    BY <1>1
  <2>. QED  BY <2>1 DEF Links
<1>3. ASSUME NEW n \in 1..m, NEW v \in Payloads PROVE Next1(v, n) \in Payloads
  BY <1>2 DEF Payloads
<1>4. step \in [1..m -> [Payloads -> Payloads]]
      /\ \A n \in 1..m : \A v \in Payloads : step[n][v] = Next1(v, n)
  BY <1>1, <1>3
<1>5. <<>> \in Payloads
  BY DEF Payloads
<1>. HIDE DEF step, Next1
<1>6. PICK f \in [0..m -> Payloads] : Stepwise(f, m, <<>>, step)
  BY <1>4, <1>5, Recursion
<1>7. f[0] = <<>> /\ \A n \in 1..m : f[n] = Next1(f[n - 1], n)
  BY <1>4, <1>6 DEF Stepwise
<1>8. Joins(f, links)
  BY <1>1, <1>7 DEF Joins, Next1
<1>9. PICK seqs : seqs = [i \in DOMAIN links |-> links[i].words]
  OBVIOUS
<1>10. /\ seqs \in Seq(Payloads) /\ Len(seqs) = m
       /\ \A n \in 1..m : seqs[n] = links[n].words
  <2>1. seqs \in [1..m -> Payloads]
    BY <1>1, <1>2, <1>9
  <2>2. seqs \in Seq(Payloads) /\ Len(seqs) = m
    BY <2>1
  <2>. QED  BY <1>1, <1>9, <2>2
<1>11. Joined(links) = f[m]
  <2>1. Joined(links) = FlattenSeq(seqs)
    BY <1>9 DEF Joined
  <2>2. CASE m = 0
    <3>1. FlattenSeq(seqs) = seqs /\ seqs = <<>>
      BY <1>10, <2>2 DEF FlattenSeq
    <3>. QED  BY <1>7, <2>1, <2>2, <3>1
  <2>3. CASE m # 0
    <3>1. PICK h : h = CHOOSE g : g = [i \in 1..m |-> IF i = 1 THEN seqs[i]
                                                    ELSE g[i - 1] \o seqs[i]]
      OBVIOUS
    <3>2. FlattenSeq(seqs) = h[m]
      BY <1>10, <2>3, <3>1 DEF FlattenSeq
    <3>3. PICK k : k = [i \in 1..m |-> f[i]]
      OBVIOUS
    <3>4. k = [i \in 1..m |-> IF i = 1 THEN seqs[i] ELSE k[i - 1] \o seqs[i]]
      <4>1. ASSUME NEW i \in 1..m PROVE k[i] = IF i = 1 THEN seqs[i] ELSE k[i - 1] \o seqs[i]
        <5>1. k[i] = f[i - 1] \o seqs[i]
          BY <1>7, <1>10, <3>3 DEF Next1
        <5>2. CASE i = 1
          <6>1. f[i - 1] = <<>> /\ seqs[i] \in Payloads
            BY <1>7, <1>2, <1>10, <5>2
          <6>2. <<>> \o seqs[i] = seqs[i]
            BY <6>1 DEF Payloads
          <6>. QED  BY <5>1, <5>2, <6>1, <6>2
        <5>3. CASE i # 1
          <6>1. f[i - 1] = k[i - 1]
            BY <3>3, <5>3
          <6>. QED  BY <5>1, <5>3, <6>1
        <5>. QED  BY <5>2, <5>3
      <4>2. k = [i \in 1..m |-> k[i]]
        BY <3>3
      <4>. QED  BY <4>1, <4>2
    <3>5. h = [i \in 1..m |-> IF i = 1 THEN seqs[i] ELSE h[i - 1] \o seqs[i]]
      BY <3>1, <3>4
    <3> DEFINE Good == {i \in 0..m : i = 0 \/ h[i] = k[i]}
    <3>6. 0 \in Good /\ \A i \in 1..m : i - 1 \in Good => i \in Good
      <4>1. \A i \in 1..m : h[i] = IF i = 1 THEN seqs[i] ELSE h[i - 1] \o seqs[i]
        BY <3>5
      <4>2. \A i \in 1..m : k[i] = IF i = 1 THEN seqs[i] ELSE k[i - 1] \o seqs[i]
        BY <3>4
      <4>. QED  BY <4>1, <4>2
    <3>7. \A i \in 0..m : i \in Good
      <4>. HIDE DEF Good
      <4>. QED  BY <3>6, Upwards
    <3>8. h[m] = k[m] /\ k[m] = f[m]
      BY <2>3, <3>3, <3>7
    <3>. QED  BY <2>1, <3>2, <3>8
  <2>. QED  BY <2>2, <2>3
<1>. QED  BY <1>1, <1>8, <1>11

\* What the links carry together, its type.
LEMMA JoinedType == ASSUME NEW links \in Seq(Links) PROVE Joined(links) \in Payloads
  BY JoinedBy

\* One link more adds its words at the end.
LEMMA JoinedAppend ==
    ASSUME NEW links \in Seq(Links), NEW l \in Links
    PROVE  Joined(Append(links, l)) = Joined(links) \o l.words
<1>1. PICK t : t = Append(links, l)
  OBVIOUS
<1>2. PICK m \in Nat : m = Len(links)
  OBVIOUS
<1>3. t \in Seq(Links) /\ Len(t) = m + 1 /\ t[m + 1] = l /\ \A n \in 1..m : t[n] = links[n]
  BY <1>1, <1>2
<1>4. PICK f \in [0..m -> Payloads] : Joins(f, links) /\ Joined(links) = f[m]
  BY <1>2, JoinedBy
<1>5. PICK g \in [0..m + 1 -> Payloads] : Joins(g, t) /\ Joined(t) = g[m + 1]
  BY <1>3, JoinedBy
<1> DEFINE Good == {n \in 0..m : f[n] = g[n]}
<1>6. 0 \in Good /\ \A n \in 1..m : n - 1 \in Good => n \in Good
  <2>1. f[0] = g[0]
    BY <1>4, <1>5 DEF Joins
  <2>2. ASSUME NEW n \in 1..m, f[n - 1] = g[n - 1] PROVE f[n] = g[n]
    <3>1. f[n] = f[n - 1] \o links[n].words
      BY <1>2, <1>4 DEF Joins
    <3>2. n \in 1..Len(t) /\ t[n] = links[n]
      BY <1>3
    <3>3. g[n] = g[n - 1] \o t[n].words
      BY <1>5, <3>2 DEF Joins
    <3>. QED  BY <2>2, <3>1, <3>2, <3>3
  <2>. QED  BY <2>1, <2>2
<1>7. \A n \in 0..m : n \in Good
  <2>. HIDE DEF Good
  <2>. QED  BY <1>6, Upwards
<1>8. g[m + 1] = g[m] \o l.words
  <2>1. m + 1 \in 1..Len(t) /\ (m + 1) - 1 = m
    BY <1>3
  <2>. QED  BY <1>3, <1>5, <2>1 DEF Joins
<1>9. g[m] = f[m]
  BY <1>7
<1>. QED  BY <1>1, <1>4, <1>5, <1>8, <1>9, Zenon

\* No links carry nothing.
LEMMA JoinedNone == Joined(<<>>) = <<>>
<1>1. <<>> \in Seq(Links) /\ Len(<<>>) = 0
  BY EmptySeq
<1>2. PICK l : l = <<>> /\ l \in Seq(Links) /\ Len(l) = 0
  BY <1>1
<1>. QED  BY <1>2, JoinedBy DEF Joins

\* The walk along a chain.
Walks ==
    [tadr : Nat, asr0 : Nat, asr1 : Nat, asp : 0..2, tie : BOOLEAN, data : Nat,
     links : Seq(Links), stopped : BOOLEAN, done : BOOLEAN]

\* A tag of the chain in memory, its type.
LEMMA TagType ==
    ASSUME tags \in DmaChains, NEW a \in DOMAIN tags
    PROVE  tags[a] \in Tags /\ a \in Nat
  BY DmaGifAssumption

\* The words of a tag are as many as its QWC.
LEMMA WordsType ==
    ASSUME NEW from \in Nat, NEW qwc \in Nat
    PROVE  Words(from, qwc) \in Payloads /\ Len(Words(from, qwc)) = qwc
<1>1. Words(from, qwc) \in [1..qwc -> Nat]
  BY DEF Words
<1>. QED  BY <1>1 DEF Payloads

\* What a tag makes of the registers, its type.
LEMMA TagStepType ==
    ASSUME NEW w \in Walks, NEW t \in Tags
    PROVE  /\ TagStep(w, t) \in Walks
           /\ TagStep(w, t).links = w.links /\ TagStep(w, t).tie = w.tie
           /\ TagStep(w, t).stopped = w.stopped
<1>1. /\ w.tadr \in Nat /\ w.asr0 \in Nat /\ w.asr1 \in Nat /\ w.asp \in 0..2
      /\ t.qwc \in Nat /\ t.addr \in Nat
      /\ t.id \in {"refe", "cnt", "next", "ref", "call", "ret", "end"}
  BY DEF Walks, Tags
<1>2. PICK here \in Nat : here = w.tadr + 1
  BY <1>1
<1>3. PICK next \in Nat : next = here + t.qwc
  BY <1>1, <1>2
<1>4. CASE t.id = "refe"
  BY <1>1, <1>2, <1>3, <1>4 DEF TagStep, Walks
<1>5. CASE t.id = "cnt"
  BY <1>1, <1>2, <1>3, <1>5 DEF TagStep, Walks
<1>6. CASE t.id = "next"
  BY <1>1, <1>2, <1>3, <1>6 DEF TagStep, Walks
<1>7. CASE t.id = "ref"
  BY <1>1, <1>2, <1>3, <1>7 DEF TagStep, Walks
<1>8. CASE t.id = "call" /\ w.asp = 0
  <2>1. PICK p \in 0..2 : p = 1
    OBVIOUS
  <2>2. TagStep(w, t) = [w EXCEPT !.data = here, !.tadr = t.addr, !.asr0 = next, !.asp = p]
    BY <1>2, <1>3, <1>8, <2>1 DEF TagStep
  <2>. QED  BY <1>1, <2>2 DEF Walks
<1>9. CASE t.id = "call" /\ w.asp = 1
  <2>1. PICK p \in 0..2 : p = 2
    OBVIOUS
  <2>2. TagStep(w, t) = [w EXCEPT !.data = here, !.tadr = t.addr, !.asr1 = next, !.asp = p]
    BY <1>2, <1>3, <1>9, <2>1 DEF TagStep
  <2>. QED  BY <1>1, <2>2 DEF Walks
<1>10. CASE t.id = "call" /\ w.asp = 2
  <2>1. TagStep(w, t) = [w EXCEPT !.data = here, !.tadr = t.addr]
    BY <1>2, <1>3, <1>10 DEF TagStep
  <2>. QED  BY <1>1, <2>1 DEF Walks
<1>11. CASE t.id = "ret" /\ w.asp = 0
  <2>1. TagStep(w, t) = [w EXCEPT !.data = here, !.done = TRUE]
    BY <1>2, <1>3, <1>11 DEF TagStep
  <2>. QED  BY <1>1, <2>1 DEF Walks
<1>12. CASE t.id = "ret" /\ w.asp = 1
  <2>1. PICK p \in 0..2 : p = 0
    OBVIOUS
  <2>2. TagStep(w, t) = [w EXCEPT !.data = here, !.tadr = w.asr0, !.asp = p]
    BY <1>2, <1>3, <1>12, <2>1 DEF TagStep
  <2>. QED  BY <1>1, <2>2 DEF Walks
<1>13. CASE t.id = "ret" /\ w.asp = 2
  <2>1. PICK p \in 0..2 : p = 1
    OBVIOUS
  <2>2. TagStep(w, t) = [w EXCEPT !.data = here, !.tadr = w.asr1, !.asp = p]
    BY <1>2, <1>3, <1>13, <2>1 DEF TagStep
  <2>. QED  BY <1>1, <2>2 DEF Walks
<1>14. CASE t.id = "end"
  BY <1>1, <1>2, <1>3, <1>14 DEF TagStep, Walks
<1>15. w.asp = 0 \/ w.asp = 1 \/ w.asp = 2
  BY <1>1
<1>. QED
  BY <1>1, <1>4, <1>5, <1>6, <1>7, <1>8, <1>9, <1>10, <1>11, <1>12, <1>13, <1>14, <1>15

\* One tag read.
LEMMA LinkSteps ==
    ASSUME tags \in DmaChains, NEW w \in Walks
    PROVE  /\ Link(w) \in Walks /\ Link(w).tie = w.tie
           /\ w.tadr \notin DOMAIN tags => Link(w) = [w EXCEPT !.done = TRUE]
           /\ w.tadr \in DOMAIN tags =>
                LET t == tags[w.tadr]
                    a == TagStep(w, t)
                    l == [code |-> t.code, words |-> Words(a.data, t.qwc)]
                IN  /\ l \in Links
                    /\ Link(w).links = Append(w.links, l)
                    /\ Link(w).stopped = (t.irq /\ w.tie /\ ~a.done)
                    /\ Link(w).done = (a.done \/ (t.irq /\ w.tie))
                    /\ Link(w).tadr = a.tadr /\ Link(w).asp = a.asp
                    /\ Link(w).asr0 = a.asr0 /\ Link(w).asr1 = a.asr1
<1>1. CASE w.tadr \notin DOMAIN tags
  BY <1>1 DEF Link, Walks
<1>2. CASE w.tadr \in DOMAIN tags
  <2>1. PICK t : t = tags[w.tadr]
    OBVIOUS
  <2>2. t \in Tags
    BY <1>2, <2>1, TagType
  <2>3. PICK a : a = TagStep(w, t)
    OBVIOUS
  <2>4. a \in Walks /\ a.links = w.links /\ a.tie = w.tie
    BY <2>2, <2>3, TagStepType
  <2>5. PICK l : l = [code |-> t.code, words |-> Words(a.data, t.qwc)]
    OBVIOUS
  <2>6. l \in Links
    <3>1. a.data \in Nat /\ t.qwc \in Nat /\ t.code \in {"nop", "mask", "unmask", "direct"}
      BY <2>2, <2>4 DEF Walks, Tags
    <3>2. Words(a.data, t.qwc) \in Payloads
      BY <3>1, WordsType
    <3>. QED  BY <2>5, <3>1, <3>2 DEF Links
  <2>7. PICK ls : ls = Append(a.links, l)
    OBVIOUS
  <2>8. ls \in Seq(Links)
    <3>1. a.links \in Seq(Links)
      BY <2>4 DEF Walks
    <3>. QED  BY <2>6, <2>7, <3>1
  <2>9. PICK st, dn : st = (t.irq /\ w.tie /\ ~a.done) /\ dn = (a.done \/ (t.irq /\ w.tie))
    OBVIOUS
  <2>10. st \in BOOLEAN /\ dn \in BOOLEAN
    BY <2>9
  <2>11. Link(w) = [a EXCEPT !.links = ls, !.stopped = st, !.done = dn]
    BY <1>2, <2>1, <2>3, <2>5, <2>7, <2>9 DEF Link
  <2>12. /\ Link(w) \in Walks /\ Link(w).tie = a.tie /\ Link(w).links = ls
         /\ Link(w).stopped = st /\ Link(w).done = dn
         /\ Link(w).tadr = a.tadr /\ Link(w).asp = a.asp
         /\ Link(w).asr0 = a.asr0 /\ Link(w).asr1 = a.asr1
    BY <2>4, <2>8, <2>10, <2>11 DEF Walks
  <2>. QED  BY <1>2, <2>1, <2>3, <2>4, <2>5, <2>6, <2>7, <2>9, <2>12
<1>. QED  BY <1>1, <1>2

\* The walk is what its definition says.
LEMMA WalkSteps ==
    ASSUME tags \in DmaChains, NEW r \in Registers
    PROVE  /\ WalkFrom(r) \in [0..MaxChainTags -> Walks]
           /\ WalkFrom(r)[0] = WalkStart(r)
           /\ \A n \in 1..MaxChainTags :
                 WalkFrom(r)[n] = IF WalkFrom(r)[n - 1].done THEN WalkFrom(r)[n - 1]
                                  ELSE Link(WalkFrom(r)[n - 1])
<1> DEFINE On(v) == IF v.done THEN v ELSE Link(v)
           step == [n \in 1..MaxChainTags |-> [v \in Walks |-> On(v)]]
<1>1. MaxChainTags \in Nat
  BY DmaGifAssumption
<1>2. ASSUME NEW v \in Walks PROVE On(v) \in Walks
  BY LinkSteps
<1>3. WalkStart(r) \in Walks
  <2>1. PICK e \in Seq(Links) : e = <<>>
    BY EmptySeq
  <2>. QED  BY <2>1 DEF Walks, WalkStart, Registers
<1>4. /\ step \in [1..MaxChainTags -> [Walks -> Walks]]
      /\ \A n \in 1..MaxChainTags : \A v \in Walks : step[n][v] = On(v)
  BY <1>2
<1>. HIDE DEF step, On
<1>5. PICK f \in [0..MaxChainTags -> Walks] : Stepwise(f, MaxChainTags, WalkStart(r), step)
  BY <1>1, <1>3, <1>4, Recursion
<1>6. f = [n \in 0..MaxChainTags |-> IF n = 0 THEN WalkStart(r) ELSE On(f[n - 1])]
  BY <1>1, <1>4, <1>5 DEF Stepwise
<1>7. PICK g : g = WalkFrom(r)
  OBVIOUS
<1>8. g = [n \in 0..MaxChainTags |-> IF n = 0 THEN WalkStart(r) ELSE On(g[n - 1])]
  BY <1>6, <1>7 DEF WalkFrom, On
<1>9. g = [n \in 0..MaxChainTags |-> g[n]]
  BY <1>8
<1>10. g[0] = WalkStart(r) /\ \A n \in 1..MaxChainTags : g[n] = On(g[n - 1])
  BY <1>1, <1>8
<1>11. g \in [0..MaxChainTags -> Walks]
  <2>1. g[0] \in Walks /\ \A n \in 1..MaxChainTags : g[n - 1] \in Walks => g[n] \in Walks
    BY <1>2, <1>3, <1>10
  <2>. QED  BY <1>1, <1>9, <2>1, StepwiseType
<1>. QED  BY <1>7, <1>10, <1>11 DEF On

\* The walk of a chain, its type.
LEMMA ChainWalkType ==
    ASSUME tags \in DmaChains, NEW r \in Registers
    PROVE  ChainWalk(r) \in Walks /\ ChainWalk(r).links \in Seq(Links)
<1>1. ChainWalk(r) \in Walks
  BY WalkSteps, DmaGifAssumption DEF ChainWalk
<1>. QED  BY <1>1 DEF Walks

-----------------------------------------------------------------------------
(* The order of PATH3 *)

DmaTypes ==
    /\ tags \in DmaChains
    /\ chan \in [Channels -> Registers]
    /\ masked \in BOOLEAN /\ fifo \in Seq(Payloads) /\ gs \in Seq(Packets)
    /\ gathered \in [Channels -> Payloads]
    /\ kicks \in Nat

Path3Inv == DmaTypes /\ Path3InOrder

GifNow == [mask |-> masked, held |-> fifo, out |-> gs]

\* The GIF of the present state.
LEMMA GifNowOK == ASSUME Path3Inv PROVE GifOK(GifNow) /\ GifSent(GifNow) = sent3
<1>1. GifNow \in GifStates /\ GifNow.mask = masked /\ GifNow.held = fifo /\ GifNow.out = gs
  BY DEF Path3Inv, DmaTypes, GifNow, GifStates
<1>. QED  BY <1>1 DEF Path3Inv, Path3InOrder, GifOK, GifSent, Drawn

\* A transfer keeps the order.
LEMMA DeliverKeeps ==
    ASSUME Path3Inv, NEW c \in Channels, NEW links \in Seq(Links), NEW r \in Registers,
           NEW st, NEW drains \in BOOLEAN, Deliver(c, links, r, st, drains),
           gathered' \in [Channels -> Payloads]
    PROVE  Path3Inv'
<1>1. PICK g : g = Processed(c, links)
  OBVIOUS
<1>2. /\ masked' = g.mask /\ fifo' = g.held /\ gs' = g.out
      /\ sent3' = IF c = "gif" /\ HasData(c, links) THEN Append(sent3, Joined(links)) ELSE sent3
      /\ tags' = tags /\ kicks' = kicks + 1
      /\ chan' = [chan EXCEPT ![c] = [r EXCEPT !.str = ~HasData(c, links)]]
  BY <1>1 DEF Deliver
<1>3. GifOK(g) /\ GifSent(g) = sent3'
  <2>1. CASE c = "gif"
    <3>1. g = submitGifPacket(GifNow, 3, Joined(links))
      BY <1>1, <2>1 DEF Processed, GifNow
    <3>2. Joined(links) \in Payloads
      BY JoinedType
    <3>3. GifOK(g) /\ GifSent(g) = IF Joined(links) # <<>>
                              THEN Append(GifSent(GifNow), Joined(links))
                                   ELSE GifSent(GifNow)
      BY <3>1, <3>2, GifNowOK, SubmitKeeps
    <3>. QED  BY <1>2, <2>1, <3>3, GifNowOK DEF HasData
  <2>2. CASE c # "gif"
    <3>1. g = Vif1Codes(GifNow, links)[Len(links)]
      BY <1>1, <2>2 DEF Processed, GifNow
    <3>2. GifOK(g) /\ GifSent(g) = GifSent(GifNow)
      BY <3>1, GifNowOK, CodesKeep
    <3>. QED  BY <1>2, <2>2, <3>2, GifNowOK
  <2>. QED  BY <2>1, <2>2
<1>4. Path3InOrder'
  BY <1>2, <1>3 DEF Path3InOrder, GifOK, GifSent, Drawn
<1>5. masked' \in BOOLEAN /\ fifo' \in Seq(Payloads) /\ gs' \in Seq(Packets)
  BY <1>2, <1>3 DEF GifOK, GifStates
<1>6. chan' \in [Channels -> Registers]
  <2>1. HasData(c, links) \in BOOLEAN
    BY DEF HasData
  <2>2. PICK s : s = [r EXCEPT !.str = ~HasData(c, links)]
    OBVIOUS
  <2>3. s \in Registers
    BY <2>1, <2>2 DEF Registers
  <2>. QED  BY <1>2, <2>2, <2>3 DEF Path3Inv, DmaTypes
<1>. QED  BY <1>2, <1>4, <1>5, <1>6 DEF Path3Inv, DmaTypes

\* So does a kick of the disabled DMAC.
LEMMA IgnoredKeeps ==
    ASSUME Path3Inv, NEW c \in Channels, NEW r \in Registers, NEW st, NEW drains \in BOOLEAN,
           Ignored(c, r, st, drains), gathered' \in [Channels -> Payloads]
    PROVE  Path3Inv'
<1>1. PICK s : s = [r EXCEPT !.str = TRUE]
  OBVIOUS
<1>2. s \in Registers
  BY <1>1 DEF Registers
<1>3. /\ chan' = [chan EXCEPT ![c] = s] /\ kicks' = kicks + 1
      /\ UNCHANGED <<tags, masked, fifo, gs, sent3>>
  BY <1>1 DEF Ignored
<1>4. DmaTypes'
  BY <1>2, <1>3 DEF Path3Inv, DmaTypes
<1>5. Path3InOrder'
  BY <1>3 DEF Path3Inv, Path3InOrder
<1>. QED  BY <1>4, <1>5 DEF Path3Inv

\* A kick of a chain hands its packet over behind the others.
LEMMA ChainKickKeeps ==
    ASSUME Path3Inv, NEW c \in Channels, NEW r \in Registers, NEW before \in Payloads,
           ChainKick(c, r, before)
    PROVE  Path3Inv'
<1>1. CASE Ignored(c, r, dstat, TRUE) /\ UNCHANGED gathered
  <2>1. gathered' \in [Channels -> Payloads]
    BY <1>1 DEF Path3Inv, DmaTypes
  <2>. QED  BY <1>1, <2>1, IgnoredKeeps
<1>2. CASE dmae /\ LET w == ChainWalk(r)
                   IN  /\ Deliver(c, w.links, Registered(r, w), dstat, TRUE)
                       /\ gathered' = [gathered EXCEPT ![c] = before \o Joined(w.links)]
  <2>1. PICK w : w = ChainWalk(r)
    OBVIOUS
  <2>2. w \in Walks /\ w.links \in Seq(Links)
    BY <2>1, ChainWalkType DEF Path3Inv, DmaTypes
  <2>3. Registered(r, w) \in Registers
    BY <2>2 DEF Walks, Registered, Registers
  <2>4. Joined(w.links) \in Payloads
    BY <2>2, JoinedType
  <2>5. before \o Joined(w.links) \in Payloads
    BY <2>4 DEF Payloads
  <2>6. gathered' \in [Channels -> Payloads]
    BY <1>2, <2>1, <2>5 DEF Path3Inv, DmaTypes
  <2>7. Deliver(c, w.links, Registered(r, w), dstat, TRUE)
    BY <1>2, <2>1
  <2>. QED  BY <2>2, <2>3, <2>6, <2>7, DeliverKeeps
<1>. QED  BY <1>1, <1>2 DEF ChainKick

\* A block on the GIF channel is one packet more.
LEMMA TransferOrder ==
    ASSUME Path3Inv, NEW w \in Payloads, NEW r \in Registers, NEW st, NEW drains \in BOOLEAN,
           Transfer(w, r, st, drains)
    PROVE  Path3Inv'
<1>1. gathered' \in [Channels -> Payloads]
  <2>1. PICK e \in Payloads : e = <<>>
    BY EmptySeq DEF Payloads
  <2>. QED  BY <2>1 DEF Transfer, Path3Inv, DmaTypes
<1>2. CASE Ignored("gif", r, st, drains)
  BY <1>1, <1>2, IgnoredKeeps DEF Channels
<1>3. CASE Deliver("gif", <<[code |-> "nop", words |-> w]>>, r, st, drains)
  <2>1. PICK l : l = [code |-> "nop", words |-> w]
    OBVIOUS
  <2>2. l \in Links
    BY <2>1 DEF Links
  <2>3. <<l>> \in Seq(Links)
    BY <2>2
  <2>4. Deliver("gif", <<l>>, r, st, drains)
    BY <1>3, <2>1
  <2>. QED  BY <1>1, <2>3, <2>4, DeliverKeeps DEF Channels
<1>. QED  BY <1>2, <1>3 DEF Transfer

\* The registers of a transfer that follows no chain.
LEMMA NewTransferType ==
    ASSUME DmaTypes, NEW a \in Nat PROVE NewTransfer(a) \in Registers
<1>1. chan["gif"] \in Registers
  BY DEF DmaTypes, Channels
<1>2. PICK p \in 0..2 : p = 0
  OBVIOUS
<1>3. NewTransfer(a) = [chan["gif"] EXCEPT !.tadr = a, !.asp = p, !.tie = FALSE, !.open = FALSE]
  BY <1>2 DEF NewTransfer
<1>. QED  BY <1>1, <1>3 DEF Registers

\* A packet that is drawn at once finds none of PATH3 waiting before it.
LEMMA NativeKeeps ==
    ASSUME Path3Inv, NEW w \in Payloads, NEW r \in Registers, NEW st, NativeDraws(w, r, st)
    PROVE  Path3Inv'
<1>1. ~masked /\ fifo = <<>> /\ fifo' = fifo /\ masked' = masked /\ tags' = tags
  BY DEF NativeDraws, NativeTakes, Path3Inv, Path3InOrder
<1>2. PICK p : p = [path |-> 3, words |-> w]
  OBVIOUS
<1>3. p \in Packets /\ p.path = 3 /\ p.words = w
  BY <1>2 DEF Packets
<1>4. gs' = Append(gs, p) /\ sent3' = Append(sent3, w)
  BY <1>2 DEF NativeDraws
<1>5. gs \in Seq(Packets)
  BY DEF Path3Inv, DmaTypes
<1>6. gs' \in Seq(Packets) /\ Drawn(gs') = Append(Drawn(gs), w)
  BY <1>3, <1>4, <1>5, DrawnAppend
<1>7. Drawn(gs) = sent3
  <2>1. Drawn(gs) \o <<>> = Drawn(gs)
    BY <1>5, DrawnType
  <2>2. Drawn(gs) \o fifo = sent3
    BY DEF Path3Inv, Path3InOrder, Drawn
  <2>. QED  BY <1>1, <2>1, <2>2
<1>8. Drawn(gs') \o <<>> = Drawn(gs')
  BY <1>6, DrawnType
<1>9. Path3InOrder'
  <2>1. Drawn(gs') \o fifo' = sent3'
    BY <1>1, <1>4, <1>6, <1>7, <1>8
  <2>. QED  BY <1>1, <2>1 DEF Path3InOrder, Drawn
<1>10. chan' \in [Channels -> Registers]
  <2>1. PICK s : s = [r EXCEPT !.str = FALSE, !.asr0 = 0, !.asr1 = 0]
    OBVIOUS
  <2>2. s \in Registers
    BY <2>1 DEF Registers
  <2>. QED  BY <2>1, <2>2 DEF NativeDraws, Path3Inv, DmaTypes
<1>11. gathered' \in [Channels -> Payloads] /\ kicks' \in Nat
  <2>1. PICK e \in Payloads : e = <<>>
    BY EmptySeq DEF Payloads
  <2>2. gathered' = [gathered EXCEPT !["gif"] = e] /\ kicks' = kicks + 1
    BY <2>1 DEF NativeDraws
  <2>3. gathered \in [Channels -> Payloads] /\ kicks \in Nat
    BY DEF Path3Inv, DmaTypes
  <2>4. gathered' \in [Channels -> Payloads]
    BY <2>1, <2>2, <2>3
  <2>. QED  BY <2>2, <2>3, <2>4
<1>. QED  BY <1>1, <1>6, <1>9, <1>10, <1>11 DEF Path3Inv, DmaTypes

\* Every step keeps the order.
LEMMA DmaKeeps == ASSUME Path3Inv, DmaNext PROVE Path3Inv'
<1>1. ASSUME NEW c \in Channels, NEW tie \in BOOLEAN, SendChain(c, tie) PROVE Path3Inv'
  <2>1. PICK r : r = [chan[c] EXCEPT !.tadr = ChainStart, !.asp = 0, !.tie = tie]
    OBVIOUS
  <2>2. ChainStart \in Nat /\ chan[c] \in Registers
    BY DmaGifAssumption DEF Path3Inv, DmaTypes
  <2>3. r \in Registers
    <3>1. PICK p \in 0..2 : p = 0
      OBVIOUS
    <3>2. r = [chan[c] EXCEPT !.tadr = ChainStart, !.asp = p, !.tie = tie]
      BY <2>1, <3>1
    <3>. QED  BY <2>2, <3>2 DEF Registers
  <2>4. PICK e \in Payloads : e = <<>>
    BY EmptySeq DEF Payloads
  <2>5. ChainKick(c, r, e)
    BY <1>1, <2>1, <2>4 DEF SendChain
  <2>. QED  BY <2>3, <2>5, ChainKickKeeps
<1>2. ASSUME NEW c \in Channels, RestartChain(c) PROVE Path3Inv'
  <2>1. chan[c] \in Registers /\ gathered[c] \in Payloads /\ ChainKick(c, chan[c], gathered[c])
    BY <1>2 DEF Path3Inv, DmaTypes, RestartChain
  <2>. QED  BY <2>1, ChainKickKeeps
<1>3. ASSUME NEW qwc \in 0..1, NEW drains \in BOOLEAN, SendBlock(qwc, drains) PROVE Path3Inv'
  <2>1. PICK w, r : /\ w = Words(100 + 10 * kicks, qwc) /\ r = NewTransfer(chan["gif"].tadr)
                    /\ Transfer(w, r, dstat, drains)
    BY <1>3 DEF SendBlock
  <2>2. w \in Payloads
    <3>1. 100 + 10 * kicks \in Nat /\ qwc \in Nat
      BY DEF Path3Inv, DmaTypes
    <3>. QED  BY <2>1, <3>1, WordsType
  <2>3. r \in Registers
    <3>1. chan["gif"].tadr \in Nat
      BY DEF Path3Inv, DmaTypes, Channels, Registers
    <3>. QED  BY <2>1, <3>1, NewTransferType DEF Path3Inv
  <2>. QED  BY <2>1, <2>2, <2>3, TransferOrder
<1>4. ASSUME NEW acked, SendNative(acked) PROVE Path3Inv'
  <2>1. PICK w, r, st : /\ w = <<201 + 10 * kicks>> /\ r = NewTransfer(200 + 10 * kicks)
                        /\ NativeDraws(w, r, st) \/ Transfer(w, r, st, TRUE)
    BY <1>4 DEF SendNative
  <2>2. w \in Payloads /\ 200 + 10 * kicks \in Nat
    BY <2>1 DEF Path3Inv, DmaTypes, Payloads
  <2>3. r \in Registers
    BY <2>1, <2>2, NewTransferType DEF Path3Inv
  <2>. QED  BY <2>1, <2>2, <2>3, TransferOrder, NativeKeeps
<1>5. ASSUME UNCHANGED <<tags, chan, masked, fifo, gs, sent3, gathered, kicks>> PROVE Path3Inv'
  BY <1>5 DEF Path3Inv, DmaTypes, Path3InOrder
<1>6. CASE drainCompletedDmacHandlers
  BY <1>5, <1>6 DEF drainCompletedDmacHandlers
<1>7. ASSUME NEW c \in Channels, AckDStat(c) PROVE Path3Inv'
  BY <1>5, <1>7 DEF AckDStat
<1>8. ASSUME NEW on \in BOOLEAN, SetDmae(on) PROVE Path3Inv'
  BY <1>5, <1>8 DEF SetDmae
<1>. QED  BY <1>1, <1>2, <1>3, <1>4, <1>6, <1>7, <1>8 DEF DmaNext

\* The invariant of PATH3 at the start.
LEMMA Path3Starts == Init => Path3Inv
<1>. SUFFICES ASSUME Init PROVE Path3Inv
  OBVIOUS
<1>1. DmaInit
  BY DEF Init
<1>2. PICK e : e = <<>> /\ e \in Seq(Packets) /\ Len(e) = 0
  BY EmptySeq
<1>3. Drawn(<<>>) = <<>>
  BY <1>2, Path3Steps DEF Drawn
<1>4. Path3InOrder
  <2>1. <<>> \o <<>> = <<>>
    OBVIOUS
  <2>. QED  BY <1>1, <1>3, <2>1 DEF DmaInit, Path3InOrder, Drawn
<1>5. chan \in [Channels -> Registers]
  <2>1. PICK p \in 0..2 : p = 0
    OBVIOUS
  <2>. QED  BY <1>1, <2>1 DEF DmaInit, Registers
<1>6. fifo \in Seq(Payloads) /\ gs \in Seq(Packets) /\ gathered \in [Channels -> Payloads]
  <2>1. PICK e1 \in Payloads : e1 = <<>>
    BY EmptySeq DEF Payloads
  <2>. QED  BY <1>1, <2>1, EmptySeq DEF DmaInit
<1>. QED  BY <1>1, <1>4, <1>5, <1>6 DEF DmaInit, Path3Inv, DmaTypes

\* Every step keeps the invariant of PATH3.
LEMMA Path3Keeps == Path3Inv /\ [Next]_vars => Path3Inv'
<1>. SUFFICES ASSUME Path3Inv, [Next]_vars PROVE Path3Inv'
  OBVIOUS
<1>1. ASSUME UNCHANGED dmaVars PROVE Path3Inv'
  BY <1>1 DEF dmaVars, Path3Inv, DmaTypes, Path3InOrder
<1>. QED  BY <1>1, DmaKeeps DEF Next, vars

\* The packets of PATH3 reach the GS once each, in the order they were sent, and
\* none waits while the mask is off (submitGifPacket, flushMaskedPath3Packets,
\* processVIF1Data, tryProcessNativeGifPackedChain), for chains of any length.
THEOREM Path3Ordered == Spec => []Path3InOrder
<1>1. Path3Inv => Path3InOrder
  BY DEF Path3Inv
<1>. QED  BY <1>1, Path3Starts, Path3Keeps, PTL DEF Spec

-----------------------------------------------------------------------------
(* A chain that is stopped and goes on *)

\* The chain as a program, between two of its tags.
Programs == [at : Nat, stack : Seq(Nat), data : Payloads, over : BOOLEAN]

\* Payloads are joined in any order.
LEMMA PayloadsAssociate ==
    ASSUME NEW x \in Payloads, NEW y \in Payloads, NEW z \in Payloads
    PROVE  (x \o y) \o z = x \o (y \o z) /\ y \o z \in Payloads
<1>1. x \in Seq(Nat) /\ y \in Seq(Nat) /\ z \in Seq(Nat)
  BY DEF Payloads
<1>2. PICK S : S = Nat
  OBVIOUS
<1>3. x \in Seq(S) /\ y \in Seq(S) /\ z \in Seq(S)
  BY <1>1, <1>2
<1>4. (x \o y) \o z = x \o (y \o z)
  BY <1>3, ConcatAssociative
<1>5. y \o z \in Payloads
  BY <1>1, ConcatProperties DEF Payloads
<1>. QED  BY <1>4, <1>5

\* Program is what its definition says.
LEMMA ProgramUnfolds ==
    ASSUME NEW m
    PROVE  /\ Program(m) = [n \in 0..MaxChainTags |-> Program(m)[n]]
           /\ Program(m)[0] = ProgramStart
           /\ \A n \in 1..MaxChainTags :
                 Program(m)[n] = IF Program(m)[n - 1].over THEN Program(m)[n - 1]
                                 ELSE Interpret(m, Program(m)[n - 1])
<1> DEFINE On(v) == IF v.over THEN v ELSE Interpret(m, v)
           Upto(f, n) == f = [i \in 0..n |-> IF i = 0 THEN ProgramStart ELSE On(f[i - 1])]
           Good == {n \in 0..MaxChainTags : \E f : Upto(f, n)}
<1>1. MaxChainTags \in Nat
  BY DmaGifAssumption
<1>2. 0 \in Good
  <2>1. Upto([i \in 0..0 |-> ProgramStart], 0)
    <3>. HIDE DEF On
    <3>. QED  OBVIOUS
  <2>. HIDE DEF Upto
  <2>2. \E f : Upto(f, 0)
    BY <2>1
  <2>. QED  BY <1>1, <2>2
<1>3. ASSUME NEW n \in 1..MaxChainTags, n - 1 \in Good PROVE n \in Good
  <2>1. PICK f : Upto(f, n - 1)
    BY <1>3
  <2>2. PICK last : last = On(f[n - 1])
    OBVIOUS
  <2>. HIDE DEF On
  <2> DEFINE g == [i \in 0..n |-> IF i = n THEN last ELSE f[i]]
  <2>3. f[0] = ProgramStart /\ \A i \in 1..(n - 1) : f[i] = On(f[i - 1])
    BY <1>1, <2>1
  <2>4. \A i \in 0..(n - 1) : g[i] = f[i]
    BY <1>1
  <2>5. g[n] = On(g[n - 1])
    BY <1>1, <2>2, <2>4
  <2>6. \A i \in 1..(n - 1) : g[i] = On(g[i - 1])
    BY <1>1, <2>3, <2>4
  <2>7. g[0] = ProgramStart
    BY <1>1, <2>3, <2>4
  <2>8. g = [i \in 0..n |-> g[i]]
    OBVIOUS
  <2>. HIDE DEF g
  <2>9. \A i \in 0..n : g[i] = IF i = 0 THEN ProgramStart ELSE On(g[i - 1])
    BY <1>1, <2>5, <2>6, <2>7
  <2>10. Upto(g, n)
    BY <2>8, <2>9
  <2>. HIDE DEF Upto
  <2>. QED  BY <2>10
<1>4. \A n \in 0..MaxChainTags : n \in Good
  <2>. HIDE DEF Good
  <2>. QED  BY <1>1, <1>2, <1>3, Upwards
<1>5. PICK f : Upto(f, MaxChainTags)
  BY <1>1, <1>4
<1>. HIDE DEF On
<1>6. PICK g : g = Program(m)
  OBVIOUS
<1>7. g = [n \in 0..MaxChainTags |-> IF n = 0 THEN ProgramStart ELSE On(g[n - 1])]
  BY <1>5, <1>6 DEF Program, On
<1>8. g = [n \in 0..MaxChainTags |-> g[n]]
  BY <1>7
<1>9. g[0] = ProgramStart /\ \A n \in 1..MaxChainTags : g[n] = On(g[n - 1])
  BY <1>1, <1>7
<1>. QED  BY <1>6, <1>8, <1>9 DEF On

\* The data of the tag at p.at.
TagData(m, p) ==
    LET t == m[p.at]
    IN  Words(IF t.id \in {"ref", "refe"} THEN t.addr ELSE p.at + 1, t.qwc)

\* One tag of the program, by what it does.
LEMMA InterpretSteps ==
    ASSUME NEW m \in DmaChains, NEW p \in Programs, p.at \in DOMAIN m, ~p.over
    PROVE  LET t == m[p.at]
               q == Interpret(m, p)
           IN  /\ q \in Programs /\ TagData(m, p) \in Payloads /\ q.data = p.data \o TagData(m, p)
               /\ q.over = (t.id \in {"refe", "end"} \/ (t.id = "ret" /\ p.stack = <<>>))
               /\ t.id = "cnt" => q.at = p.at + 1 + t.qwc /\ q.stack = p.stack
               /\ t.id = "next" => q.at = t.addr /\ q.stack = p.stack
               /\ t.id = "ref" => q.at = p.at + 1 /\ q.stack = p.stack
               /\ t.id = "call" => q.at = t.addr /\ q.stack = Append(p.stack, p.at + 1 + t.qwc)
               /\ t.id = "ret" /\ p.stack # <<>> => q.at = Last(p.stack) /\ q.stack = Front(p.stack)
<1>1. PICK t : t = m[p.at]
  OBVIOUS
<1>2. t \in Tags
  BY <1>1, DmaGifAssumption
<1>3. PICK d : d = TagData(m, p)
  OBVIOUS
<1>4. /\ t.qwc \in Nat /\ t.addr \in Nat /\ p.at \in Nat /\ p.stack \in Seq(Nat)
      /\ p.data \in Payloads /\ p.over = FALSE
      /\ t.id \in {"refe", "cnt", "next", "ref", "call", "ret", "end"}
  BY <1>2 DEF Tags, Programs
<1>5. PICK from \in Nat : from = IF t.id \in {"ref", "refe"} THEN t.addr ELSE p.at + 1
  BY <1>4
<1>6. d = Words(from, t.qwc)
  BY <1>1, <1>3, <1>5 DEF TagData
<1>7. d \in Payloads
  BY <1>4, <1>6, WordsType
<1>8. PICK e : e = p.data \o d
  OBVIOUS
<1>8a. e \in Payloads
  BY <1>4, <1>7, <1>8 DEF Payloads
<1>9. PICK b \in Nat : b = p.at + 1 + t.qwc
  BY <1>4
<1>10. PICK q : q = Interpret(m, p)
  OBVIOUS
<1> DEFINE Effect ==
      /\ q \in Programs /\ q.data = e
      /\ q.over = (t.id \in {"refe", "end"} \/ (t.id = "ret" /\ p.stack = <<>>))
      /\ t.id = "cnt" => q.at = b /\ q.stack = p.stack
      /\ t.id = "next" => q.at = t.addr /\ q.stack = p.stack
      /\ t.id = "ref" => q.at = p.at + 1 /\ q.stack = p.stack
      /\ t.id = "call" => q.at = t.addr /\ q.stack = Append(p.stack, b)
      /\ t.id = "ret" /\ p.stack # <<>> => q.at = Last(p.stack) /\ q.stack = Front(p.stack)
<1>11. ASSUME t.id \in {"refe", "end"} \/ (t.id = "ret" /\ p.stack = <<>>) PROVE Effect
  <2>1. q = [p EXCEPT !.data = e, !.over = TRUE]
    BY <1>1, <1>5, <1>6, <1>8, <1>8a, <1>10, <1>11 DEF Interpret
  <2>. QED  BY <1>4, <1>8a, <1>11, <2>1 DEF Programs
<1>12. ASSUME t.id = "cnt" PROVE Effect
  <2>1. q = [p EXCEPT !.data = e, !.at = b]
    BY <1>1, <1>5, <1>6, <1>8, <1>8a, <1>9, <1>10, <1>12 DEF Interpret
  <2>. QED  BY <1>4, <1>8a, <1>9, <1>12, <2>1 DEF Programs
<1>13. ASSUME t.id = "next" PROVE Effect
  <2>1. q = [p EXCEPT !.data = e, !.at = t.addr]
    BY <1>1, <1>5, <1>6, <1>8, <1>8a, <1>10, <1>13 DEF Interpret
  <2>. QED  BY <1>4, <1>8a, <1>13, <2>1 DEF Programs
<1>14. ASSUME t.id = "ref" PROVE Effect
  <2>1. PICK h \in Nat : h = p.at + 1
    BY <1>4
  <2>2. q = [p EXCEPT !.data = e, !.at = h]
    BY <1>1, <1>4, <1>5, <1>6, <1>8, <1>8a, <1>10, <1>14, <2>1 DEF Interpret, Programs
  <2>. QED  BY <1>4, <1>8a, <1>14, <2>1, <2>2 DEF Programs
<1>15. ASSUME t.id = "call" PROVE Effect
  <2>0. Append(p.stack, b) \in Seq(Nat)
    BY <1>4, <1>9
  <2>1. PICK s \in Seq(Nat) : s = Append(p.stack, b)
    BY <2>0
  <2>2. q = [p EXCEPT !.data = e, !.at = t.addr, !.stack = s]
    BY <1>1, <1>4, <1>5, <1>6, <1>8, <1>8a, <1>9, <1>10, <1>15, <2>1 DEF Interpret, Programs
  <2>. QED  BY <1>4, <1>8a, <1>9, <1>15, <2>1, <2>2 DEF Programs
<1>16. ASSUME t.id = "ret" /\ p.stack # <<>> PROVE Effect
  <2>0. Front(p.stack) \in Seq(Nat)
    BY <1>4, <1>16 DEF Front
  <2>1. PICK s \in Seq(Nat) : s = Front(p.stack)
    BY <2>0
  <2>2. PICK l \in Nat : l = Last(p.stack)
    BY <1>4, <1>16 DEF Last
  <2>3. q = [p EXCEPT !.data = e, !.at = l, !.stack = s]
    BY <1>1, <1>4, <1>5, <1>6, <1>8, <1>8a, <1>10, <1>16, <2>1, <2>2 DEF Interpret, Programs
  <2>. QED  BY <1>4, <1>8a, <1>16, <2>1, <2>2, <2>3 DEF Programs
<1>17. Effect
  <2>. HIDE DEF Effect
  <2>. QED  BY <1>4, <1>11, <1>12, <1>13, <1>14, <1>15, <1>16
<1>. QED  BY <1>1, <1>3, <1>7, <1>8, <1>9, <1>10, <1>17

\* The addresses that the calls of the stack s come back to are in the registers r.
Stacked(r, s) ==
    /\ r.asp = Len(s)
    /\ Len(s) >= 1 => r.asr0 = s[1]
    /\ Len(s) = 2 => r.asr1 = s[2]

\* The registers r are those of the program p.
At(r, p) == ~p.over /\ r.tadr = p.at /\ Stacked(r, p.stack)

\* The walk reads a tag as the program does.
LEMMA LinkFollows ==
    ASSUME tags \in DmaChains, NEW w \in Walks, NEW p \in Programs, At(w, p), ~w.done,
           p.at \in DOMAIN tags, Interpret(tags, p).over \/ Len(Interpret(tags, p).stack) <= 2
    PROVE  LET t == tags[p.at]
               a == TagStep(w, t)
               q == Interpret(tags, p)
           IN  /\ Words(a.data, t.qwc) = TagData(tags, p)
               /\ a.done = q.over
               /\ ~q.over => At(a, q)
<1>1. PICK t : t = tags[p.at]
  OBVIOUS
<1>2. t \in Tags
  BY <1>1, TagType
<1>3. PICK a : a = TagStep(w, t)
  OBVIOUS
<1>4. PICK q : q = Interpret(tags, p)
  OBVIOUS
<1>5. /\ t.qwc \in Nat /\ t.addr \in Nat /\ p.at \in Nat /\ p.stack \in Seq(Nat)
      /\ w.tadr = p.at /\ w.asp \in 0..2 /\ w.done = FALSE
      /\ t.id \in {"refe", "cnt", "next", "ref", "call", "ret", "end"}
  BY <1>2 DEF Tags, Programs, Walks, At
<1>6. PICK here \in Nat : here = w.tadr + 1
  BY <1>5
<1>7. PICK b \in Nat : b = here + t.qwc /\ b = p.at + 1 + t.qwc
  BY <1>5, <1>6
<1>8. PICK s \in Seq(Nat) : s = p.stack
  BY <1>5
<1>9. /\ q \in Programs
      /\ q.over = (t.id \in {"refe", "end"} \/ (t.id = "ret" /\ s = <<>>))
      /\ t.id = "cnt" => q.at = b /\ q.stack = s
      /\ t.id = "next" => q.at = t.addr /\ q.stack = s
      /\ t.id = "ref" => q.at = here /\ q.stack = s
      /\ t.id = "call" => q.at = t.addr /\ q.stack = Append(s, b)
      /\ t.id = "ret" /\ s # <<>> => q.at = Last(s) /\ q.stack = Front(s)
  BY <1>1, <1>4, <1>5, <1>6, <1>7, <1>8, InterpretSteps DEF At
<1>10. PICK z \in Seq(Nat) : z = q.stack
  BY <1>9 DEF Programs
<1>11. PICK from : from = IF t.id \in {"ref", "refe"} THEN t.addr ELSE here
  OBVIOUS
<1>12. Stacked(w, s) /\ (q.over \/ Len(z) <= 2)
  BY <1>4, <1>8, <1>10 DEF At
<1>13. PICK n \in 0..2 : n = w.asp /\ n = Len(s)
  BY <1>5, <1>12 DEF Stacked
<1> DEFINE Same == a.data = from /\ a.done = q.over /\ (~q.over => a.tadr = q.at /\ Stacked(a, z))
<1>14. ASSUME t.id = "refe" PROVE Same
  <2>1. a = [w EXCEPT !.data = t.addr, !.tadr = here, !.done = TRUE]
    BY <1>3, <1>6, <1>14 DEF TagStep
  <2>. QED  BY <1>9, <1>11, <1>14, <2>1 DEF Walks
<1>15. ASSUME t.id = "cnt" PROVE Same
  <2>1. a = [w EXCEPT !.data = here, !.tadr = b]
    BY <1>3, <1>6, <1>7, <1>15 DEF TagStep
  <2>. QED  BY <1>5, <1>9, <1>10, <1>11, <1>12, <1>15, <2>1 DEF Walks, Stacked
<1>16. ASSUME t.id = "next" PROVE Same
  <2>1. a = [w EXCEPT !.data = here, !.tadr = t.addr]
    BY <1>3, <1>6, <1>16 DEF TagStep
  <2>. QED  BY <1>5, <1>9, <1>10, <1>11, <1>12, <1>16, <2>1 DEF Walks, Stacked
<1>17. ASSUME t.id = "ref" PROVE Same
  <2>1. a = [w EXCEPT !.data = t.addr, !.tadr = here]
    BY <1>3, <1>6, <1>17 DEF TagStep
  <2>. QED  BY <1>5, <1>9, <1>10, <1>11, <1>12, <1>17, <2>1 DEF Walks, Stacked
<1>18. ASSUME t.id = "call" PROVE Same
  <2>1. z = Append(s, b) /\ q.at = t.addr /\ q.over = FALSE
    BY <1>9, <1>10, <1>18
  <2>2. n + 1 <= 2 /\ Len(z) = n + 1 /\ z[n + 1] = b /\ \A i \in 1..n : z[i] = s[i]
    BY <1>12, <1>13, <2>1
  <2>3. PICK k \in 0..2 : k = n + 1
    BY <2>2
  <2>4. CASE n = 0
    <3>1. a = [w EXCEPT !.data = here, !.tadr = t.addr, !.asr0 = b, !.asp = k]
      BY <1>3, <1>6, <1>7, <1>13, <1>18, <2>3, <2>4 DEF TagStep
    <3>2. a.data = here /\ a.tadr = t.addr /\ a.asr0 = b /\ a.asp = k /\ a.done = FALSE
      BY <1>5, <3>1 DEF Walks
    <3>3. Stacked(a, z)
      BY <2>2, <2>3, <2>4, <3>2 DEF Stacked
    <3>. QED  BY <1>11, <1>18, <2>1, <3>2, <3>3
  <2>5. CASE n = 1
    <3>1. a = [w EXCEPT !.data = here, !.tadr = t.addr, !.asr1 = b, !.asp = k]
      BY <1>3, <1>6, <1>7, <1>13, <1>18, <2>3, <2>5 DEF TagStep
    <3>2. /\ a.data = here /\ a.tadr = t.addr /\ a.asr1 = b /\ a.asp = k /\ a.done = FALSE
          /\ a.asr0 = w.asr0
      BY <1>5, <3>1 DEF Walks
    <3>3. Stacked(a, z)
      <4>1. w.asr0 = s[1] /\ z[1] = s[1] /\ z[2] = b /\ Len(z) = 2 /\ k = 2
        BY <1>12, <1>13, <2>2, <2>3, <2>5 DEF Stacked
      <4>. QED  BY <3>2, <4>1 DEF Stacked
    <3>. QED  BY <1>11, <1>18, <2>1, <3>2, <3>3
  <2>. QED  BY <2>2, <2>4, <2>5
<1>19. ASSUME t.id = "ret" PROVE Same
  <2>1. CASE n = 0
    <3>1. a = [w EXCEPT !.data = here, !.done = TRUE]
      BY <1>3, <1>6, <1>13, <1>19, <2>1 DEF TagStep
    <3>2. s = <<>>
      <4>1. Len(s) = 0
        BY <1>13, <2>1
      <4>. QED  BY <4>1
    <3>. QED  BY <1>9, <1>11, <1>19, <3>1, <3>2 DEF Walks
  <2>2. ASSUME n # 0
        PROVE  /\ q.at = s[n] /\ Len(z) = n - 1 /\ q.over = FALSE
               /\ \A i \in 1..(n - 1) : z[i] = s[i]
    <3>1. s # <<>>
      BY <1>13, <2>2
    <3>2. z = Front(s) /\ q.at = Last(s) /\ q.over = FALSE
      BY <1>9, <1>10, <1>19, <3>1
    <3>. QED  BY <1>13, <2>2, <3>2 DEF Front, Last
  <2>3. CASE n = 1
    <3>1. PICK k \in 0..2 : k = 0
      OBVIOUS
    <3>2. a = [w EXCEPT !.data = here, !.tadr = w.asr0, !.asp = k]
      BY <1>3, <1>6, <1>13, <1>19, <2>3, <3>1 DEF TagStep
    <3>3. a.data = here /\ a.tadr = w.asr0 /\ a.asp = k /\ a.done = FALSE
      BY <1>5, <3>2 DEF Walks
    <3>4. w.asr0 = s[1] /\ q.at = s[1] /\ q.over = FALSE
      <4>1. q.at = s[1] /\ q.over = FALSE
        <5>1. n # 0
          BY <2>3
        <5>2. q.at = s[n] /\ q.over = FALSE
          BY <2>2, <5>1, Zenon
        <5>. QED  BY <2>3, <5>2, Zenon
      <4>2. w.asr0 = s[1]
        BY <1>12, <1>13, <2>3 DEF Stacked
      <4>. QED  BY <4>1, <4>2
    <3>5. Stacked(a, z)
      BY <2>2, <2>3, <3>1, <3>3 DEF Stacked
    <3>. QED  BY <1>11, <1>19, <3>3, <3>4, <3>5
  <2>4. CASE n = 2
    <3>1. PICK k \in 0..2 : k = 1
      OBVIOUS
    <3>2. a = [w EXCEPT !.data = here, !.tadr = w.asr1, !.asp = k]
      BY <1>3, <1>6, <1>13, <1>19, <2>4, <3>1 DEF TagStep
    <3>3. a.data = here /\ a.tadr = w.asr1 /\ a.asp = k /\ a.done = FALSE /\ a.asr0 = w.asr0
      BY <1>5, <3>2 DEF Walks
    <3>4. w.asr0 = s[1] /\ w.asr1 = s[2] /\ q.at = s[2] /\ q.over = FALSE
      <4>1. q.at = s[2] /\ q.over = FALSE
        <5>1. n # 0
          BY <2>4
        <5>2. q.at = s[n] /\ q.over = FALSE
          BY <2>2, <5>1, Zenon
        <5>. QED  BY <2>4, <5>2, Zenon
      <4>2. w.asr0 = s[1] /\ w.asr1 = s[2]
        BY <1>12, <1>13, <2>4 DEF Stacked
      <4>. QED  BY <4>1, <4>2
    <3>5. Stacked(a, z)
      <4>1. z[1] = s[1] /\ Len(z) = 1
        BY <2>2, <2>4
      <4>. QED  BY <3>1, <3>3, <3>4, <4>1 DEF Stacked
    <3>. QED  BY <1>11, <1>19, <3>3, <3>4, <3>5
  <2>. QED  BY <2>1, <2>3, <2>4
<1>20. ASSUME t.id = "end" PROVE Same
  <2>1. a = [w EXCEPT !.data = here, !.done = TRUE]
    BY <1>3, <1>6, <1>20 DEF TagStep
  <2>. QED  BY <1>9, <1>11, <1>20, <2>1 DEF Walks
<1>21. Same
  <2>. HIDE DEF Same
  <2>. QED  BY <1>5, <1>14, <1>15, <1>16, <1>17, <1>18, <1>19, <1>20
<1>22. ~q.over => At(a, q)
  BY <1>10, <1>21 DEF At
<1>23. TagData(tags, p) = Words(from, t.qwc)
  BY <1>1, <1>5, <1>6, <1>11 DEF TagData
<1>. QED  BY <1>1, <1>3, <1>4, <1>21, <1>22, <1>23

\* A chain that ends is a program at each of its tags.
LEMMA ProgramType ==
    ASSUME NEW m \in DmaChains, ChainEnds(m)
    PROVE  Program(m) \in [0..MaxChainTags -> Programs]
<1>1. PICK f : f = Program(m)
  OBVIOUS
<1>2. /\ f = [n \in 0..MaxChainTags |-> f[n]] /\ f[0] = ProgramStart
      /\ \A n \in 1..MaxChainTags : f[n] =
            IF f[n - 1].over THEN f[n - 1] ELSE Interpret(m, f[n - 1])
  BY <1>1, ProgramUnfolds
<1>3. f[0] \in Programs
  <2>1. PICK s \in Seq(Nat) : s = <<>>
    BY EmptySeq
  <2>2. PICK d \in Payloads : d = <<>>
    BY EmptySeq DEF Payloads
  <2>3. PICK a \in Nat : a = ChainStart
    BY DmaGifAssumption
  <2>4. f[0] = [at |-> a, stack |-> s, data |-> d, over |-> FALSE]
    BY <1>2, <2>1, <2>2, <2>3 DEF ProgramStart
  <2>. QED  BY <2>4 DEF Programs
<1>4. ASSUME NEW n \in 1..MaxChainTags, f[n - 1] \in Programs PROVE f[n] \in Programs
  <2>1. CASE f[n - 1].over
    BY <1>2, <1>4, <2>1
  <2>2. CASE ~f[n - 1].over
    <3>1. n - 1 \in 0..MaxChainTags
      BY DmaGifAssumption
    <3>2. f[n - 1].at \in DOMAIN m
      BY <1>1, <2>2, <3>1 DEF ChainEnds
    <3>. QED  BY <1>2, <1>4, <2>2, <3>2, InterpretSteps
  <2>. QED  BY <2>1, <2>2
<1>5. MaxChainTags \in Nat
  BY DmaGifAssumption
<1>. QED  BY <1>1, <1>2, <1>3, <1>4, <1>5, StepwiseType

\* Where the chain is over it stays so, and what it has transferred is a prefix of
\* all it transfers.
LEMMA ProgramGrows ==
    ASSUME NEW m \in DmaChains, ChainEnds(m), NEW k \in 0..MaxChainTags
    PROVE  /\ Program(m)[k].over => Program(m)[MaxChainTags] = Program(m)[k]
           /\ IsPrefix(Program(m)[k].data, Program(m)[MaxChainTags].data)
<1>1. PICK f : f = Program(m)
  OBVIOUS
<1>2. PICK N \in Nat : N = MaxChainTags
  BY DmaGifAssumption
<1>3. /\ f \in [0..N -> Programs]
      /\ \A n \in 1..N : f[n] = IF f[n - 1].over THEN f[n - 1] ELSE Interpret(m, f[n - 1])
  BY <1>1, <1>2, ProgramUnfolds, ProgramType
<1>4. f[k].data \in Payloads /\ f[k] \in Programs /\ k \in 0..N
  BY <1>2, <1>3 DEF Programs
<1> DEFINE Grown(n) == \E d \in Payloads : f[k + n].data = f[k].data \o d
           Good == {n \in 0..(N - k) : (f[k].over => f[k + n] = f[k]) /\ Grown(n)}
<1>5. 0 \in Good
  <2>1. PICK d \in Payloads : d = <<>>
    BY EmptySeq DEF Payloads
  <2>2. f[k].data \o d = f[k].data /\ k + 0 = k /\ 0 \in 0..(N - k)
    BY <1>4, <2>1 DEF Payloads
  <2>. QED  BY <2>2
<1>6. ASSUME NEW n \in 1..(N - k), n - 1 \in Good PROVE n \in Good
  <2>1. PICK i \in 0..N : i = k + (n - 1) /\ i + 1 = k + n /\ i + 1 \in 1..N /\ n \in 0..(N - k)
    BY <1>4
  <2>2. PICK d \in Payloads : f[i].data = f[k].data \o d
    <3>1. Grown(n - 1)
      <4>. HIDE DEF Grown
      <4>. QED  BY <1>6
    <3>. QED  BY <2>1, <3>1
  <2>3. (f[k].over => f[i] = f[k]) /\ f[i] \in Programs
    BY <1>3, <1>6, <2>1
  <2>4. f[i + 1] = IF f[i].over THEN f[i] ELSE Interpret(m, f[i])
    <3>1. (i + 1) - 1 = i
      BY <2>1
    <3>. QED  BY <1>3, <2>1, <3>1
  <2>5. CASE f[i].over
    <3>1. f[k + n] = f[i]
      BY <2>1, <2>4, <2>5
    <3>. QED  BY <2>1, <2>2, <2>3, <3>1
  <2>6. CASE ~f[i].over
    <3>1. f[i].at \in DOMAIN m
      BY <1>1, <1>2, <2>6 DEF ChainEnds
    <3>2. PICK e \in Payloads : f[i + 1].data = f[i].data \o e
      BY <2>3, <2>4, <2>6, <3>1, InterpretSteps
    <3>3. (f[k].data \o d) \o e = f[k].data \o (d \o e) /\ d \o e \in Payloads
      <4>1. PICK x \in Payloads : x = f[k].data
        BY <1>4
      <4>2. (x \o d) \o e = x \o (d \o e) /\ d \o e \in Payloads
        BY PayloadsAssociate
      <4>. QED  BY <4>1, <4>2
    <3>4. f[k + n].data = f[k].data \o (d \o e)
      BY <2>1, <2>2, <3>2, <3>3
    <3>5. ~f[k].over
      BY <2>3, <2>6
    <3>. QED  BY <2>1, <3>3, <3>4, <3>5
  <2>. QED  BY <2>5, <2>6
<1>7. N - k \in Nat /\ N - k \in 0..(N - k) /\ k + (N - k) = N
  BY <1>4
<1>8. N - k \in Good
  <2>. HIDE DEF Good
  <2>. QED  BY <1>5, <1>6, <1>7, Upwards
<1>9. PICK d \in Payloads : f[N].data = f[k].data \o d
  <2>1. Grown(N - k)
    <3>. HIDE DEF Grown
    <3>. QED  BY <1>8
  <2>. QED  BY <1>7, <2>1
<1>10. IsPrefix(f[k].data, f[k].data \o d)
  <2>1. PICK x \in Seq(Nat) : x = f[k].data
    BY <1>4 DEF Payloads
  <2>2. IsPrefix(x, x \o d)
    BY DEF IsPrefix, Payloads
  <2>. QED  BY <2>1, <2>2
<1>11. f[k].over => f[N] = f[k]
  BY <1>7, <1>8
<1>. QED  BY <1>1, <1>2, <1>9, <1>10, <1>11

\* A walk that starts with the registers of the program's k-th tag gathers what the
\* program transfers from there, and leaves the registers of the tag it stops at.
LEMMA WalkFollows ==
    ASSUME tags \in DmaChains, ChainEnds(tags), NEW r \in Registers,
           NEW k \in 0..MaxChainTags, At(r, Program(tags)[k])
    PROVE  \E j \in 0..MaxChainTags :
              /\ Program(tags)[k].data \o Joined(ChainWalk(r).links) = Program(tags)[j].data
              /\ ChainWalk(r).stopped => At(ChainWalk(r), Program(tags)[j])
              /\ ~ChainWalk(r).stopped => Program(tags)[j].over
<1>1. PICK f : f = Program(tags)
  OBVIOUS
<1>2. PICK N \in Nat : N = MaxChainTags
  BY DmaGifAssumption
<1>3. PICK v : v = WalkFrom(r)
  OBVIOUS
<1>4. /\ f \in [0..N -> Programs] /\ f[N].over
      /\ \A n \in 1..N : f[n] = IF f[n - 1].over THEN f[n - 1] ELSE Interpret(tags, f[n - 1])
      /\ \A n \in 0..N : ~f[n].over => f[n].at \in DOMAIN tags /\ Len(f[n].stack) <= 2
  BY <1>1, <1>2, ProgramUnfolds, ProgramType DEF ChainEnds
<1>5. /\ v \in [0..N -> Walks] /\ v[0] = WalkStart(r)
      /\ \A n \in 1..N : v[n] = IF v[n - 1].done THEN v[n - 1] ELSE Link(v[n - 1])
  BY <1>2, <1>3, WalkSteps
<1>6. PICK before \in Payloads : before = f[k].data
  BY <1>2, <1>4 DEF Programs
<1> DEFINE Follows(n, j) ==
             /\ before \o Joined(v[n].links) = f[j].data
             /\ ~v[n].done => ~v[n].stopped /\ j = k + n
             /\ ~v[n].done \/ v[n].stopped => At(v[n], f[j])
             /\ v[n].done /\ ~v[n].stopped => f[j].over
           Good == {n \in 0..N : \E j \in 0..N : Follows(n, j)}
<1>7. 0 \in Good
  <2>1. v[0].links = <<>> /\ v[0].stopped = FALSE /\ v[0].done = FALSE
    BY <1>5 DEF WalkStart
  <2>2. before \o Joined(v[0].links) = f[k].data
    <3>1. before \o <<>> = before
      BY DEF Payloads
    <3>. QED  BY <1>6, <2>1, <3>1, JoinedNone
  <2>3. At(v[0], f[k])
    BY <1>1, <1>5 DEF At, Stacked, WalkStart
  <2>4. k = k + 0 /\ k \in 0..N
    BY <1>2
  <2>5. Follows(0, k)
    BY <2>1, <2>2, <2>3, <2>4
  <2>. HIDE DEF Follows
  <2>. QED  BY <2>4, <2>5
<1>8. ASSUME NEW n \in 1..N, n - 1 \in Good PROVE n \in Good
  <2>1. PICK i \in 0..N : i = n - 1 /\ n \in 0..N
    OBVIOUS
  <2>2. PICK j \in 0..N : Follows(i, j)
    <3>. HIDE DEF Follows
    <3>. QED  BY <1>8, <2>1
  <2>3. v[n] = IF v[i].done THEN v[i] ELSE Link(v[i])
    BY <1>5, <2>1
  <2>4. CASE v[i].done
    <3>1. v[n] = v[i]
      BY <2>3, <2>4
    <3>2. Follows(n, j)
      BY <2>2, <2>4, <3>1
    <3>. HIDE DEF Follows
    <3>. QED  BY <2>1, <3>2
  <2>5. CASE ~v[i].done
    <3>1. PICK w \in Walks : w = v[i]
      BY <1>5
    <3>2. PICK p \in Programs : p = f[j]
      BY <1>4
    <3>3. ~w.done /\ At(w, p) /\ j = k + i /\ before \o Joined(w.links) = p.data
      BY <2>2, <2>5, <3>1, <3>2
    <3>4. ~p.over /\ p.at \in DOMAIN tags /\ w.tadr = p.at
      BY <1>4, <3>2, <3>3 DEF At
    <3>5. j # N /\ j + 1 \in 0..N /\ j + 1 \in 1..N /\ (j + 1) - 1 = j
      BY <1>4, <3>2, <3>4
    <3>6. PICK q : q = Interpret(tags, p)
      OBVIOUS
    <3>7. f[j + 1] = q
      BY <1>4, <3>2, <3>4, <3>5, <3>6
    <3>8. q.over \/ Len(q.stack) <= 2
      BY <1>4, <3>5, <3>7
    <3>9. PICK t : t = tags[p.at]
      OBVIOUS
    <3>10. PICK a : a = TagStep(w, t)
      OBVIOUS
    <3>11. Words(a.data, t.qwc) = TagData(tags, p) /\ a.done = q.over /\ (~q.over => At(a, q))
      BY <3>3, <3>4, <3>6, <3>8, <3>9, <3>10, LinkFollows
    <3>12. PICK x : x = Link(w)
      OBVIOUS
    <3>13. PICK l : l = [code |-> t.code, words |-> Words(a.data, t.qwc)]
      OBVIOUS
    <3>14. /\ l \in Links /\ x.links = Append(w.links, l)
           /\ x.stopped = (t.irq /\ w.tie /\ ~a.done)
           /\ x.done = (a.done \/ (t.irq /\ w.tie))
           /\ x.tadr = a.tadr /\ x.asp = a.asp /\ x.asr0 = a.asr0 /\ x.asr1 = a.asr1
      BY <3>4, <3>9, <3>10, <3>12, <3>13, LinkSteps
    <3>15. v[n] = x
      BY <2>3, <2>5, <3>1, <3>12
    <3>16. before \o Joined(x.links) = q.data
      <4>1. PICK d \in Payloads : d = TagData(tags, p) /\ q.data = p.data \o d
        BY <3>4, <3>6, InterpretSteps
      <4>2. l.words = d
        BY <3>11, <3>13, <4>1
      <4>3. PICK y \in Payloads : y = Joined(w.links)
        BY JoinedType DEF Walks
      <4>4. w.links \in Seq(Links)
        BY DEF Walks
      <4>5. Joined(x.links) = y \o d
        BY <3>14, <4>2, <4>3, <4>4, JoinedAppend
      <4>6. before \o (y \o d) = (before \o y) \o d
        BY PayloadsAssociate
      <4>. QED  BY <3>3, <4>1, <4>3, <4>5, <4>6
    <3>17. ~q.over => At(x, q)
      BY <3>11, <3>14 DEF At, Stacked
    <3>18. Follows(n, j + 1)
      <4>1. before \o Joined(v[n].links) = f[j + 1].data
        BY <3>7, <3>15, <3>16
      <4>2. ~v[n].done => ~v[n].stopped /\ j + 1 = k + n
        <5>1. j + 1 = k + n
          BY <2>1, <3>3
        <5>2. ~x.done => ~x.stopped
          BY <3>14, Zenon
        <5>. QED  BY <3>15, <5>1, <5>2
      <4>3. ~v[n].done \/ v[n].stopped => At(v[n], f[j + 1])
        BY <3>7, <3>11, <3>14, <3>15, <3>17
      <4>4. v[n].done /\ ~v[n].stopped => f[j + 1].over
        BY <3>7, <3>11, <3>14, <3>15
      <4>. QED  BY <4>1, <4>2, <4>3, <4>4
    <3>. HIDE DEF Follows
    <3>. QED  BY <2>1, <3>5, <3>18
  <2>. QED  BY <2>4, <2>5
<1>9. N \in Good
  <2>. HIDE DEF Good
  <2>. QED  BY <1>7, <1>8, Upwards
<1>10. PICK j \in 0..N : Follows(N, j)
  <2>. HIDE DEF Follows
  <2>. QED  BY <1>9
<1>11. v[N].done
  <2>1. SUFFICES ASSUME ~v[N].done PROVE FALSE
    OBVIOUS
  <2>2. j = k + N /\ At(v[N], f[j])
    BY <1>10, <2>1
  <2>3. j = N
    BY <1>2, <2>2
  <2>. QED  BY <1>4, <2>2, <2>3 DEF At
<1>12. ChainWalk(r) = v[N]
  BY <1>2, <1>3 DEF ChainWalk
<1>. QED  BY <1>1, <1>2, <1>6, <1>10, <1>11, <1>12

\* What a channel has gathered is what its registers say the chain has transferred.
Resumes(c) ==
    /\ chan[c].open => \E k \in 0..MaxChainTags : /\ At(chan[c], Program(tags)[k])
                                                  /\ gathered[c] = Program(tags)[k].data
    /\ ~chan[c].open => gathered[c] = <<>> \/ gathered[c] = WholeChain

ResumeInv == \A c \in Channels : Resumes(c)

\* A channel that the step does not touch.
LEMMA ResumesElsewhere ==
    ASSUME NEW c, Resumes(c), tags' = tags, chan'[c].open = chan[c].open,
           chan'[c].tadr = chan[c].tadr, chan'[c].asp = chan[c].asp, chan'[c].asr0 = chan[c].asr0,
           chan'[c].asr1 = chan[c].asr1, gathered'[c] = gathered[c]
    PROVE  Resumes(c)'
  BY DEF Resumes, At, Stacked, WholeChain

\* A channel that is kicked with the registers of the program's k-th tag.
LEMMA KickResumes ==
    ASSUME DmaTypes, ChainEnds(tags), NEW c \in Channels, NEW r \in Registers,
           NEW before \in Payloads, NEW k \in 0..MaxChainTags, At(r, Program(tags)[k]),
           before = Program(tags)[k].data, dmae,
           LET w == ChainWalk(r)
           IN  /\ Deliver(c, w.links, Registered(r, w), dstat, TRUE)
               /\ gathered' = [gathered EXCEPT ![c] = before \o Joined(w.links)]
    PROVE  Resumes(c)'
<1>1. PICK w : w = ChainWalk(r)
  OBVIOUS
<1>2. w \in Walks /\ tags \in DmaChains
  BY <1>1, ChainWalkType DEF DmaTypes
<1>3. PICK x : x = [Registered(r, w) EXCEPT !.str = ~HasData(c, w.links)]
  OBVIOUS
<1>4. tags' = tags /\ chan'[c] = x
  BY <1>1, <1>3 DEF Deliver, DmaTypes
<1>5. x.open = w.stopped /\ x.tadr = w.tadr /\ x.asp = w.asp /\ x.asr0 = w.asr0 /\ x.asr1 = w.asr1
  BY <1>2, <1>3 DEF Registered, Registers
<1>6. PICK j \in 0..MaxChainTags :
         /\ before \o Joined(w.links) = Program(tags)[j].data
         /\ w.stopped => At(w, Program(tags)[j])
         /\ ~w.stopped => Program(tags)[j].over
  BY <1>1, <1>2, WalkFollows
<1>7. gathered'[c] = Program(tags)[j].data
  BY <1>1, <1>6 DEF DmaTypes
<1>8. CASE w.stopped
  <2>1. At(x, Program(tags)[j])
    BY <1>5, <1>6, <1>8 DEF At, Stacked
  <2>. QED  BY <1>4, <1>5, <1>7, <1>8, <2>1 DEF Resumes
<1>9. CASE ~w.stopped
  <2>1. Program(tags)[MaxChainTags] = Program(tags)[j]
    BY <1>2, <1>6, <1>9, ProgramGrows
  <2>. QED  BY <1>4, <1>5, <1>7, <1>9, <2>1 DEF Resumes, WholeChain
<1>. QED  BY <1>8, <1>9

\* A kick that gives up the chain.
LEMMA TransferResumes ==
    ASSUME DmaTypes, ResumeInv, tags' = tags, NEW x \in Registers, ~x.open,
           chan' = [chan EXCEPT !["gif"] = x], gathered' = [gathered EXCEPT !["gif"] = <<>>]
    PROVE  ResumeInv'
<1>1. ASSUME NEW c \in Channels PROVE Resumes(c)'
  <2>1. CASE c = "gif"
    BY <2>1 DEF Resumes, DmaTypes
  <2>2. CASE c # "gif"
    <3>1. chan'[c] = chan[c] /\ gathered'[c] = gathered[c]
      BY <2>2 DEF DmaTypes
    <3>. QED  BY <3>1, ResumesElsewhere DEF ResumeInv
  <2>. QED  BY <2>1, <2>2
<1>. QED  BY <1>1 DEF ResumeInv

\* Every step keeps what the registers say.
LEMMA DmaResumes ==
    ASSUME DmaTypes, ResumeInv, ChainEnds(tags), DmaNext
    PROVE  ResumeInv'
<1>1. \A c \in Channels : chan[c] \in Registers /\ gathered[c] \in Payloads /\ Resumes(c)
  BY DEF DmaTypes, ResumeInv
<1>2. tags \in DmaChains /\ MaxChainTags \in Nat
  BY DmaGifAssumption DEF DmaTypes
<1>3. ASSUME NEW c \in Channels, NEW r \in Registers, NEW before, ChainKick(c, r, before),
             Resumes(c)'
      PROVE  ResumeInv'
  <2>1. PICK x, y : /\ chan' = [chan EXCEPT ![c] = x] /\ tags' = tags
                    /\ gathered' = gathered \/ gathered' = [gathered EXCEPT ![c] = y]
    BY <1>3 DEF ChainKick, Ignored, Deliver
  <2>2. ASSUME NEW d \in Channels, d # c PROVE Resumes(d)'
    <3>1. chan'[d] = chan[d] /\ gathered'[d] = gathered[d]
      BY <2>1, <2>2 DEF DmaTypes
    <3>. QED  BY <1>1, <2>1, <3>1, ResumesElsewhere
  <2>. QED  BY <1>3, <2>2 DEF ResumeInv
<1>4. ASSUME NEW c \in Channels, NEW r \in Registers, NEW before,
             Ignored(c, r, dstat, TRUE), UNCHANGED gathered, r.open = chan[c].open,
             r.open => r = chan[c]
      PROVE  Resumes(c)'
  <2>1. PICK x : x = [r EXCEPT !.str = TRUE]
    OBVIOUS
  <2>2. tags' = tags /\ chan'[c] = x /\ gathered'[c] = gathered[c]
    BY <1>4, <2>1 DEF Ignored, DmaTypes
  <2>3. /\ x.open = r.open /\ x.tadr = r.tadr /\ x.asp = r.asp /\ x.asr0 = r.asr0
        /\ x.asr1 = r.asr1
    BY <2>1 DEF Registers
  <2>4. CASE r.open
    BY <1>1, <1>4, <2>2, <2>3, <2>4, ResumesElsewhere
  <2>5. CASE ~r.open
    BY <1>1, <1>4, <2>2, <2>3, <2>5 DEF Resumes, WholeChain
  <2>. QED  BY <2>4, <2>5
<1>5. ASSUME NEW c \in Channels, NEW tie \in BOOLEAN, SendChain(c, tie) PROVE ResumeInv'
  <2>1. PICK r : r = [chan[c] EXCEPT !.tadr = ChainStart, !.asp = 0, !.tie = tie]
    OBVIOUS
  <2>2. ChainStart \in Nat
    BY DmaGifAssumption DEF DmaTypes
  <2>3. PICK p \in 0..2 : p = 0
    OBVIOUS
  <2>4. r = [chan[c] EXCEPT !.tadr = ChainStart, !.asp = p, !.tie = tie]
    BY <2>1, <2>3
  <2>5. r \in Registers /\ r.open = chan[c].open /\ r.tadr = ChainStart /\ r.asp = p
    BY <1>1, <2>2, <2>4 DEF Registers
  <2>6. PICK e \in Payloads : e = <<>>
    BY EmptySeq DEF Payloads
  <2>7. ~chan[c].open /\ ChainKick(c, r, e)
    BY <1>5, <2>1, <2>6 DEF SendChain
  <2>8. Program(tags)[0] = ProgramStart /\ 0 \in 0..MaxChainTags
    BY <1>2, ProgramUnfolds
  <2>9. At(r, Program(tags)[0]) /\ e = Program(tags)[0].data
    <3>1. PICK s : s = <<>> /\ s \in Seq(Nat) /\ Len(s) = 0
      BY EmptySeq
    <3>2. Stacked(r, s)
      BY <2>3, <2>5, <3>1 DEF Stacked
    <3>. QED  BY <2>5, <2>6, <2>8, <3>1, <3>2 DEF At, ProgramStart
  <2>10. Resumes(c)'
    BY <1>4, <2>5, <2>7, <2>8, <2>9, KickResumes DEF ChainKick
  <2>. QED  BY <1>3, <2>5, <2>7, <2>10
<1>6. ASSUME NEW c \in Channels, RestartChain(c) PROVE ResumeInv'
  <2>1. /\ chan[c] \in Registers /\ gathered[c] \in Payloads /\ chan[c].open
        /\ ChainKick(c, chan[c], gathered[c])
    BY <1>1, <1>6 DEF RestartChain
  <2>2. PICK k \in 0..MaxChainTags : At(chan[c], Program(tags)[k])
                                 /\ gathered[c] = Program(tags)[k].data
    BY <1>1, <2>1 DEF Resumes
  <2>3. Resumes(c)'
    BY <1>4, <2>1, <2>2, KickResumes DEF ChainKick
  <2>. QED  BY <1>3, <2>1, <2>3
<1>7. ASSUME NEW a \in Nat, NEW ws, NEW st, NEW drains, Transfer(ws, NewTransfer(a), st, drains)
      PROVE  ResumeInv'
  <2>0. PICK b \in BOOLEAN : /\ chan' = [chan EXCEPT !["gif"] = [NewTransfer(a) EXCEPT !.str = b]]
                             /\ tags' = tags
    <3>1. CASE Ignored("gif", NewTransfer(a), st, drains)
      BY <3>1 DEF Ignored
    <3>2. CASE Deliver("gif", <<[code |-> "nop", words |-> ws]>>, NewTransfer(a), st, drains)
      <4>1. PICK b \in BOOLEAN : b = ~HasData("gif", <<[code |-> "nop", words |-> ws]>>)
        OBVIOUS
      <4>2. /\ chan' = [chan EXCEPT !["gif"] = [NewTransfer(a) EXCEPT !.str = b]]
            /\ tags' = tags
        BY <3>2, <4>1 DEF Deliver
      <4>. QED  BY <4>2
    <3>. QED  BY <1>7, <3>1, <3>2 DEF Transfer
  <2>1. PICK x : /\ chan' = [chan EXCEPT !["gif"] = x] /\ tags' = tags
                 /\ x = [NewTransfer(a) EXCEPT !.str = b]
                 /\ gathered' = [gathered EXCEPT !["gif"] = <<>>]
    BY <1>7, <2>0 DEF Transfer
  <2>2. NewTransfer(a) \in Registers /\ ~NewTransfer(a).open
    BY NewTransferType DEF NewTransfer, DmaTypes, Channels, Registers
  <2>3. x \in Registers /\ ~x.open
    BY <2>1, <2>2 DEF Registers
  <2>. QED  BY <2>1, <2>3, TransferResumes
<1>8. ASSUME NEW a \in Nat, NEW ws, NEW st, NativeDraws(ws, NewTransfer(a), st) PROVE ResumeInv'
  <2>1. PICK x : /\ chan' = [chan EXCEPT !["gif"] = x] /\ tags' = tags
                 /\ x = [NewTransfer(a) EXCEPT !.str = FALSE, !.asr0 = 0, !.asr1 = 0]
                 /\ gathered' = [gathered EXCEPT !["gif"] = <<>>]
    BY <1>8 DEF NativeDraws
  <2>2. NewTransfer(a) \in Registers /\ ~NewTransfer(a).open
    BY NewTransferType DEF NewTransfer, DmaTypes, Channels, Registers
  <2>3. x \in Registers /\ ~x.open
    BY <2>1, <2>2 DEF Registers
  <2>. QED  BY <2>1, <2>3, TransferResumes
<1>9. ASSUME NEW qwc \in 0..1, NEW drains \in BOOLEAN, SendBlock(qwc, drains) PROVE ResumeInv'
  <2>1. chan["gif"].tadr \in Nat
    BY <1>1 DEF Channels, Registers
  <2>. QED  BY <1>7, <1>9, <2>1 DEF SendBlock
<1>10. ASSUME NEW acked, SendNative(acked) PROVE ResumeInv'
  <2>1. 200 + 10 * kicks \in Nat
    BY DEF DmaTypes
  <2>. QED  BY <1>7, <1>8, <1>10, <2>1 DEF SendNative
<1>11. ASSUME UNCHANGED <<tags, chan, gathered>> PROVE ResumeInv'
  BY <1>11 DEF ResumeInv, Resumes, WholeChain
<1>12. CASE drainCompletedDmacHandlers
  BY <1>11, <1>12 DEF drainCompletedDmacHandlers
<1>13. ASSUME NEW c \in Channels, AckDStat(c) PROVE ResumeInv'
  BY <1>11, <1>13 DEF AckDStat
<1>14. ASSUME NEW on \in BOOLEAN, SetDmae(on) PROVE ResumeInv'
  BY <1>11, <1>14 DEF SetDmae
<1>. QED  BY <1>5, <1>6, <1>9, <1>10, <1>12, <1>13, <1>14 DEF DmaNext

\* A chain stopped at its interrupt tags, inside calls too, and restarted each time
\* transfers in all what it says, in its order and each word once, whatever it is
\* made of and wherever its interrupt tags are, as long as it ends within
\* kMaxChainTags tags and nests its calls no deeper than ASR0 and ASR1 reach: of a
\* third call the DMAC drops the return address (ps2_memory.cpp 1629-1746).
THEOREM ChainsResume == (\A m \in DmaChains : ChainEnds(m)) => (Spec => []ChainResumes)
<1>. SUFFICES ASSUME \A m \in DmaChains : ChainEnds(m) PROVE Spec => []ChainResumes
  OBVIOUS
<1>1. Init => Path3Inv /\ ResumeInv
  <2>. SUFFICES ASSUME Init PROVE ResumeInv
    BY Path3Starts
  <2>. QED  BY DEF Init, DmaInit, ResumeInv, Resumes
<1>2. Path3Inv /\ ResumeInv /\ [Next]_vars => (Path3Inv /\ ResumeInv)'
  <2>. SUFFICES ASSUME Path3Inv, ResumeInv, [Next]_vars PROVE ResumeInv'
    BY Path3Keeps
  <2>1. ASSUME UNCHANGED dmaVars PROVE ResumeInv'
    BY <2>1 DEF dmaVars, ResumeInv, Resumes, WholeChain
  <2>2. DmaTypes /\ ChainEnds(tags)
    BY DEF Path3Inv, DmaTypes
  <2>. QED  BY <2>1, <2>2, DmaResumes DEF Next, vars
<1>3. Path3Inv /\ ResumeInv => ChainResumes
  <2>. SUFFICES ASSUME Path3Inv, ResumeInv, NEW c \in Channels
                PROVE  /\ chan[c].open => IsPrefix(gathered[c], WholeChain)
                       /\ ~chan[c].open /\ gathered[c] # <<>> => gathered[c] = WholeChain
    BY DEF ChainResumes
  <2>1. tags \in DmaChains /\ ChainEnds(tags)
    BY DEF Path3Inv, DmaTypes
  <2>. QED  BY <2>1, ProgramGrows DEF ResumeInv, Resumes, WholeChain
<1>. QED  BY <1>1, <1>2, <1>3, PTL DEF Spec

-----------------------------------------------------------------------------
(* The lists of queues and servers *)

\* The i-th element of the list l; Nil behind its end.
Element(l, i) == IF i \in 1..Len(l) THEN l[i] ELSE Nil

\* The list l is linked in memory from head on.
Threads(l, head, next) ==
    head = Element(l, 1) /\ \A i \in 1..Len(l) : next[l[i]] = Element(l, i + 1)

\* Places is what its definition says.
LEMMA PlacesSteps ==
    ASSUME NEW X, Nil \notin X, NEW head \in X \cup {Nil}, NEW next \in [X -> X \cup {Nil}]
    PROVE  /\ Places(head, next) \in [0..MaxLinks -> X \cup {Nil}]
           /\ Places(head, next)[0] = head
           /\ \A i \in 1..MaxLinks :
                 Places(head, next)[i] = IF Places(head, next)[i - 1] = Nil THEN Nil
                                         ELSE next[Places(head, next)[i - 1]]
<1> DEFINE V == X \cup {Nil}
           On(x) == IF x = Nil THEN Nil ELSE next[x]
           step == [i \in 1..MaxLinks |-> [x \in V |-> On(x)]]
<1>1. MaxLinks \in Nat
  BY SifRpcAssumption
<1>2. \A x \in V : On(x) \in V
  OBVIOUS
<1>3. /\ step \in [1..MaxLinks -> [V -> V]] /\ head \in V
      /\ \A i \in 1..MaxLinks : \A x \in V : step[i][x] = On(x)
  BY <1>2
<1>. HIDE DEF step, On, V
<1>4. PICK f \in [0..MaxLinks -> V] : Stepwise(f, MaxLinks, head, step)
  BY <1>1, <1>3, Recursion
<1>5. f = [i \in 0..MaxLinks |-> IF i = 0 THEN head ELSE On(f[i - 1])]
  BY <1>1, <1>3, <1>4 DEF Stepwise
<1>6. PICK g : g = Places(head, next)
  OBVIOUS
<1>7. g = [i \in 0..MaxLinks |-> IF i = 0 THEN head ELSE On(g[i - 1])]
  BY <1>5, <1>6 DEF Places, On
<1>8. g = [i \in 0..MaxLinks |-> g[i]]
  BY <1>7
<1>9. g[0] = head /\ \A i \in 1..MaxLinks : g[i] = On(g[i - 1])
  BY <1>1, <1>7
<1>10. g \in [0..MaxLinks -> V]
  <2>1. g[0] \in V /\ \A i \in 1..MaxLinks : g[i - 1] \in V => g[i] \in V
    BY <1>2, <1>3, <1>9
  <2>. QED  BY <1>1, <1>8, <2>1, StepwiseType
<1>. QED  BY <1>6, <1>9, <1>10 DEF On, V

\* A walk sees the list that is linked in memory, all of it.
LEMMA WalkSees ==
    ASSUME NEW X, Nil \notin X, NEW head \in X \cup {Nil}, NEW next \in [X -> X \cup {Nil}],
           NEW l \in Seq(X), Threads(l, head, next), Len(l) <= MaxLinks
    PROVE  Walk(head, next) = l
<1>1. PICK at : at = Places(head, next)
  OBVIOUS
<1>2. PICK N \in Nat : N = MaxLinks
  BY SifRpcAssumption
<1>3. PICK n \in Nat : n = Len(l) /\ n <= N
  BY <1>2
<1>4. at[0] = head /\ \A i \in 1..N : at[i] = IF at[i - 1] = Nil THEN Nil ELSE next[at[i - 1]]
  BY <1>1, <1>2, PlacesSteps
<1>5. \A i \in 1..n : l[i] \in X /\ l[i] # Nil /\ Element(l, i) = l[i]
  BY <1>3 DEF Element
<1> DEFINE Good == {i \in 0..n : at[i] = Element(l, i + 1)}
<1>6. 0 \in Good
  BY <1>4 DEF Threads
<1>7. ASSUME NEW i \in 1..n, i - 1 \in Good PROVE i \in Good
  <2>1. at[i - 1] = Element(l, (i - 1) + 1) /\ (i - 1) + 1 = i
    BY <1>7
  <2>2. at[i - 1] = l[i] /\ at[i - 1] # Nil
    BY <1>5, <2>1
  <2>3. i \in 1..N /\ i \in 0..n /\ i \in 1..Len(l)
    BY <1>3
  <2>4. at[i] = next[l[i]]
    BY <1>4, <2>2, <2>3
  <2>5. next[l[i]] = Element(l, i + 1)
    BY <2>3 DEF Threads
  <2>. QED  BY <2>3, <2>4, <2>5
<1>8. \A i \in 0..n : at[i] = Element(l, i + 1)
  <2>1. \A i \in 0..n : i \in Good
    <3>. HIDE DEF Good
    <3>. QED  BY <1>6, <1>7, Upwards
  <2>. QED  BY <2>1
<1>9. \A i \in 1..n : i - 1 \in 0..n /\ at[i - 1] = l[i] /\ at[i - 1] # Nil
  <2>. SUFFICES ASSUME NEW i \in 1..n PROVE i - 1 \in 0..n /\ at[i - 1] = l[i] /\ at[i - 1] # Nil
    OBVIOUS
  <2>1. i - 1 \in 0..n /\ (i - 1) + 1 = i
    OBVIOUS
  <2>2. at[i - 1] = Element(l, i)
    BY <1>8, <2>1
  <2>. QED  BY <1>5, <2>1, <2>2
<1>10. at[n] = Nil
  <2>1. n + 1 \notin 1..Len(l) /\ n \in 0..n
    BY <1>3
  <2>. QED  BY <1>8, <2>1 DEF Element
<1> DEFINE ends == {i \in 0..N : at[i] = Nil}
<1>11. ends # {} /\ Min(ends) = n
  <2>1. n \in ends /\ ends \in SUBSET Nat
    BY <1>3, <1>10
  <2>2. \A i \in ends : i >= n
    <3>. SUFFICES ASSUME NEW i \in 0..N, at[i] = Nil, i < n PROVE FALSE
      BY <1>3
    <3>1. i + 1 \in 1..n /\ (i + 1) - 1 = i
      BY <1>3
    <3>. QED  BY <1>9, <3>1
  <2>3. Min(ends) \in ends /\ \A i \in ends : Min(ends) <= i
    <3>1. ends # {}
      BY <2>1
    <3>. HIDE DEF ends
    <3>. QED  BY <2>1, <3>1, MinPosition
  <2>4. Min(ends) \in Nat
    BY <2>1, <2>3
  <2>. HIDE DEF ends
  <2>. QED  BY <2>1, <2>2, <2>3, <2>4
<1>12. Walk(head, next) = [i \in 1..n |-> at[i - 1]]
  BY <1>1, <1>2, <1>11 DEF Walk
<1>13. l = [i \in 1..n |-> l[i]]
  BY <1>3
<1>. QED  BY <1>9, <1>12, <1>13

\* A list without duplicates is no longer than its elements are many.
LEMMA ListFits ==
    ASSUME NEW X, IsFiniteSet(X), NEW l \in Seq(X), NoDuplicates(l)
    PROVE  Len(l) <= Cardinality(X)
<1>1. PICK n \in Nat : n = Len(l) /\ DOMAIN l = 1..n
  OBVIOUS
<1>2. l \in Injection(1..n, X)
  <2>1. l \in [1..n -> X]
    BY <1>1
  <2>2. \A i, j \in 1..n : l[i] = l[j] => i = j
    BY <1>1 DEF NoDuplicates
  <2>. QED  BY <1>1, <2>1, <2>2 DEF Injection, IsInjective
<1>3. Cardinality(1..n) <= Cardinality(X)
  BY <1>2, FS_Injection
<1>4. Cardinality(1..n) = n
  <2>1. Cardinality(1..n) = IF 1 > n THEN 0 ELSE n - 1 + 1
    BY FS_Interval, 1 \in Int, n \in Int, Zenon
  <2>. QED  BY <2>1
<1>. QED  BY <1>1, <1>3, <1>4

\* An element more at the end.
LEMMA ThreadsAppend ==
    ASSUME NEW X, NEW l \in Seq(X), NEW e \in X, NEW head, NEW next, Threads(l, head, next),
           NoDuplicates(l), ~Contains(l, e), NEW head2, NEW next2,
           head2 = IF Len(l) = 0 THEN e ELSE head, next2[e] = Nil,
           \A i \in 1..Len(l) : next2[l[i]] = IF i = Len(l) THEN e ELSE next[l[i]]
    PROVE  /\ Threads(Append(l, e), head2, next2) /\ NoDuplicates(Append(l, e))
           /\ Append(l, e) \in Seq(X)
           /\ \A x : Contains(Append(l, e), x) <=> Contains(l, x) \/ x = e
<1>1. PICK n \in Nat : n = Len(l)
  OBVIOUS
<1>2. PICK m : m = Append(l, e)
  OBVIOUS
<1>3. m \in Seq(X) /\ Len(m) = n + 1 /\ m[n + 1] = e /\ \A i \in 1..n : m[i] = l[i]
  BY <1>1, <1>2
<1>4. \A i \in 1..n : l[i] # e
  BY <1>1 DEF Contains
<1>5. NoDuplicates(m)
  BY <1>1, <1>3, <1>4 DEF NoDuplicates
<1>6. \A x : Contains(m, x) <=> Contains(l, x) \/ x = e
  BY <1>1, <1>3 DEF Contains
<1>7. \A i \in 1..n + 1 : Element(m, i) = m[i]
  BY <1>3 DEF Element
<1>8. head2 = Element(m, 1)
  <2>1. CASE n = 0
    BY <1>1, <1>3, <1>7, <2>1
  <2>2. CASE n # 0
    <3>1. 1 \in 1..n /\ 1 \in 1..n + 1
      BY <2>2
    <3>. QED  BY <1>1, <1>3, <1>7, <2>2, <3>1 DEF Threads, Element
  <2>. QED  BY <2>1, <2>2
<1>9. ASSUME NEW i \in 1..Len(m) PROVE next2[m[i]] = Element(m, i + 1)
  <2>1. CASE i = n + 1
    <3>1. i + 1 \notin 1..Len(m)
      BY <1>3, <2>1
    <3>. QED  BY <1>3, <2>1, <3>1 DEF Element
  <2>2. CASE i = n
    <3>1. i \in 1..n /\ i + 1 = n + 1 /\ n + 1 \in 1..n + 1
      BY <2>2
    <3>. QED  BY <1>1, <1>3, <1>7, <2>2, <3>1
  <2>3. CASE i \in 1..(n - 1)
    <3>1. i \in 1..n /\ i # n /\ i + 1 \in 1..n /\ i + 1 \in 1..n + 1
      BY <2>3
    <3>2. next2[m[i]] = Element(l, i + 1)
      BY <1>1, <1>3, <3>1 DEF Threads
    <3>. QED  BY <1>1, <1>3, <1>7, <3>1, <3>2 DEF Element
  <2>. QED  BY <1>1, <1>3, <2>1, <2>2, <2>3
<1>. QED  BY <1>2, <1>3, <1>5, <1>6, <1>8, <1>9 DEF Threads

\* An element less: its predecessor, or the head, takes over its link.
LEMMA ThreadsRemove ==
    ASSUME NEW X, NEW l \in Seq(X), NEW k \in 1..Len(l), NEW head, NEW next,
           Threads(l, head, next), NoDuplicates(l), NEW head2, NEW next2,
           head2 = IF k = 1 THEN next[l[k]] ELSE head,
           \A i \in 1..Len(l) : i # k => next2[l[i]] = IF i = k - 1 THEN next[l[k]] ELSE next[l[i]]
    PROVE  /\ Threads(RemoveFirst(l, l[k]), head2, next2) /\ NoDuplicates(RemoveFirst(l, l[k]))
           /\ RemoveFirst(l, l[k]) \in Seq(X)
           /\ \A x : Contains(RemoveFirst(l, l[k]), x) <=> Contains(l, x) /\ x # l[k]
<1>1. PICK n \in Nat : n = Len(l)
  OBVIOUS
<1>2. PICK m : m = RemoveAt(l, k)
  OBVIOUS
<1>3. RemoveFirst(l, l[k]) = m
  <2> DEFINE S == {i \in 1..Len(l) : l[i] = l[k]}
  <2>1. S = {k}
    BY DEF NoDuplicates
  <2>2. {k} \in SUBSET Nat /\ {k} # {}
    OBVIOUS
  <2>3. Min({k}) = k
    BY <2>2, MinPosition
  <2>4. SelectInSeq(l, LAMBDA v : v = l[k]) = k
    BY <2>1, <2>3, Zenon DEF SelectInSeq
  <2>5. \E i \in 1..Len(l) : l[i] = l[k]
    OBVIOUS
  <2>. QED  BY <1>2, <2>4, <2>5, Zenon DEF RemoveFirst
<1>4. /\ m \in Seq(X) /\ Len(m) = n - 1
      /\ \A j \in 1..(n - 1) : m[j] = IF j < k THEN l[j] ELSE l[j + 1]
  BY <1>1, <1>2, RemoveAtPointwise
<1>5. NoDuplicates(m)
  <2>. SUFFICES ASSUME NEW i \in 1..(n - 1), NEW j \in 1..(n - 1), i # j PROVE m[i] # m[j]
    BY <1>4 DEF NoDuplicates
  <2>1. PICK a \in 1..n : a = IF i < k THEN i ELSE i + 1
    BY <1>1
  <2>2. PICK b \in 1..n : b = IF j < k THEN j ELSE j + 1
    BY <1>1
  <2>3. a # b /\ m[i] = l[a] /\ m[j] = l[b]
    BY <1>1, <1>4, <2>1, <2>2
  <2>. QED  BY <1>1, <2>3 DEF NoDuplicates
<1>6. \A x : Contains(m, x) <=> Contains(l, x) /\ x # l[k]
  <2>. SUFFICES ASSUME NEW x PROVE Contains(m, x) <=> Contains(l, x) /\ x # l[k]
    OBVIOUS
  <2>1. ASSUME NEW j \in 1..(n - 1), m[j] = x PROVE Contains(l, x) /\ x # l[k]
    <3>1. PICK a \in 1..n : a = IF j < k THEN j ELSE j + 1
      BY <1>1
    <3>2. a # k /\ l[a] = x
      BY <1>1, <1>4, <2>1, <3>1
    <3>. QED  BY <1>1, <3>2 DEF Contains, NoDuplicates
  <2>2. ASSUME NEW a \in 1..n, l[a] = x, x # l[k] PROVE Contains(m, x)
    <3>1. PICK j \in 1..(n - 1) : j = IF a < k THEN a ELSE a - 1
      BY <1>1, <2>2
    <3>2. m[j] = x
      <4>1. a # k
        BY <2>2
      <4>2. CASE a < k
        BY <1>4, <2>2, <3>1, <4>2
      <4>3. CASE a > k
        <5>1. ~(j < k) /\ j + 1 = a
          BY <3>1, <4>3
        <5>. QED  BY <1>4, <2>2, <5>1
      <4>. QED  BY <1>1, <4>1, <4>2, <4>3
    <3>. QED  BY <1>4, <3>2 DEF Contains
  <2>. QED  BY <1>1, <1>4, <2>1, <2>2 DEF Contains
<1>7. head2 = Element(m, 1)
  <2>1. CASE k = 1
    <3>1. next[l[k]] = Element(l, 2)
      BY <2>1 DEF Threads
    <3>2. CASE n = 1
      <4>1. 2 \notin 1..Len(l) /\ 1 \notin 1..Len(m)
        BY <1>1, <1>4, <3>2
      <4>. QED  BY <2>1, <3>1, <4>1 DEF Element
    <3>3. CASE n # 1
      <4>1. 2 \in 1..Len(l) /\ 1 \in 1..Len(m) /\ 1 \in 1..(n - 1) /\ ~(1 < k) /\ 1 + 1 = 2
        BY <1>1, <1>4, <2>1, <3>3
      <4>2. m[1] = l[2]
        BY <1>4, <4>1
      <4>. QED  BY <2>1, <3>1, <4>1, <4>2 DEF Element
    <3>. QED  BY <3>2, <3>3
  <2>2. CASE k # 1
    <3>1. 1 \in 1..Len(l) /\ 1 \in 1..Len(m) /\ 1 \in 1..(n - 1) /\ 1 < k
      BY <1>1, <1>4, <2>2
    <3>2. m[1] = l[1]
      BY <1>4, <3>1
    <3>. QED  BY <2>2, <3>1, <3>2 DEF Threads, Element
  <2>. QED  BY <2>1, <2>2
<1>8. ASSUME NEW i \in 1..Len(m) PROVE next2[m[i]] = Element(m, i + 1)
  <2>1. PICK a \in 1..n : a = IF i < k THEN i ELSE i + 1
    BY <1>1, <1>4
  <2>2. a # k /\ m[i] = l[a] /\ a \in 1..Len(l)
    BY <1>1, <1>4, <2>1
  <2>3. PICK b \in Nat : b = IF a = k - 1 THEN k + 1 ELSE a + 1
    OBVIOUS
  <2>4. next2[m[i]] = Element(l, b)
    <3>1. next[l[k]] = Element(l, k + 1) /\ next[l[a]] = Element(l, a + 1)
      BY <2>2 DEF Threads
    <3>. QED  BY <2>2, <2>3, <3>1
  <2>5. CASE i + 1 \in 1..Len(m)
    <3>1. b \in 1..Len(l) /\ b = IF i + 1 < k THEN i + 1 ELSE (i + 1) + 1
      BY <1>1, <1>4, <2>1, <2>2, <2>3, <2>5
    <3>2. m[i + 1] = l[b]
      BY <1>4, <2>5, <3>1
    <3>. QED  BY <2>4, <2>5, <3>1, <3>2 DEF Element
  <2>6. CASE i + 1 \notin 1..Len(m)
    <3>1. b \notin 1..Len(l)
      BY <1>1, <1>4, <2>1, <2>2, <2>3, <2>6
    <3>. QED  BY <2>4, <2>6, <3>1 DEF Element
  <2>. QED  BY <2>5, <2>6
<1>. QED  BY <1>3, <1>4, <1>5, <1>6, <1>7, <1>8 DEF Threads

QueueRecords == [link : Servers \cup {Nil}, next : RpcQueues \cup {Nil}]

ListTypes ==
    /\ sd \in [Servers -> DescRecords] /\ qd \in [RpcQueues -> QueueRecords]
    /\ activeQueue \in RpcQueues \cup {Nil}
    /\ queued \in Seq(RpcQueues) /\ linked \in [RpcQueues -> Seq(Descriptors)]

\* The queues set, and the servers of each queue, are linked in memory in their order.
QueuesLinked == NoDuplicates(queued) /\ Threads(queued, activeQueue, QueueLinks)
ServersLinked ==
    \A q \in RpcQueues : NoDuplicates(linked[q]) /\ Threads(linked[q], qd[q].link, ServerLinks)

\* A server is with one queue only.
OneQueue ==
    \A p, q \in RpcQueues : \A x : Contains(linked[p], x) /\ Contains(linked[q], x) => p = q

ListInv == ListTypes /\ QueuesLinked /\ ServersLinked /\ OneQueue

\* The links of the lists.
LEMMA LinkTypes ==
    ASSUME ListTypes
    PROVE  /\ QueueLinks \in [RpcQueues -> RpcQueues \cup {Nil}]
           /\ ServerLinks \in [Servers -> Servers \cup {Nil}]
           /\ Nil \notin RpcQueues /\ Nil \notin Servers
           /\ \A q \in RpcQueues : linked[q] \in Seq(Descriptors) /\ linked[q] \in Seq(Servers)
           /\ \A q \in RpcQueues : qd[q].link \in Servers \cup {Nil}
           /\ \A q \in RpcQueues : QueueLinks[q] = qd[q].next
           /\ \A s \in Servers : ServerLinks[s] = sd[s].link
<1>1. Descriptors \subseteq Servers
  BY DEF Servers
<1>2. \A q \in RpcQueues : linked[q] \in Seq(Descriptors) /\ linked[q] \in Seq(Servers)
  BY <1>1 DEF ListTypes
<1>3. \A q \in RpcQueues : qd[q] \in QueueRecords
  BY DEF ListTypes
<1>4. \A s \in Servers : sd[s] \in DescRecords
  BY DEF ListTypes
<1>5. QueueLinks \in [RpcQueues -> RpcQueues \cup {Nil}]
  BY <1>3 DEF QueueLinks, QueueRecords
<1>6. ServerLinks \in [Servers -> Servers \cup {Nil}]
  BY <1>4 DEF ServerLinks, DescRecords
<1>7. \A q \in RpcQueues : qd[q].link \in Servers \cup {Nil}
  BY <1>3 DEF QueueRecords
<1>. QED  BY <1>2, <1>5, <1>6, <1>7, SifRpcAssumption DEF QueueLinks, ServerLinks

\* What the code's walks see.
LEMMA ListsSeen ==
    ASSUME ListInv, WalksReach
    PROVE  ActiveQueues = queued /\ \A q \in RpcQueues : ServersOf(q) = linked[q]
<1>0. ListTypes
  BY DEF ListInv
<1>1. MaxLinks \in Nat
  BY SifRpcAssumption
<1>2. ActiveQueues = queued
  <2>1. Len(queued) <= Cardinality(RpcQueues) /\ Cardinality(RpcQueues) \in Nat
    BY ListFits, FS_CardinalityType DEF WalksReach, ListInv, ListTypes, QueuesLinked
  <2>2. queued \in Seq(RpcQueues) /\ Len(queued) <= MaxLinks
    BY <1>1, <2>1 DEF ListInv, ListTypes, WalksReach
  <2>. QED  BY <1>0, <2>2, LinkTypes, WalkSees DEF ListInv, ListTypes, QueuesLinked, ActiveQueues
<1>3. ASSUME NEW q \in RpcQueues PROVE ServersOf(q) = linked[q]
  <2>0. linked[q] \in Seq(Descriptors) /\ linked[q] \in Seq(Servers)
    BY <1>0, LinkTypes
  <2>1. Len(linked[q]) <= Cardinality(Descriptors) /\ Cardinality(Descriptors) \in Nat
    BY <2>0, ListFits, FS_CardinalityType DEF WalksReach, ListInv, ServersLinked
  <2>2. Len(linked[q]) <= MaxLinks
    BY <1>1, <2>0, <2>1 DEF WalksReach
  <2>. QED  BY <1>0, <2>0, <2>2, LinkTypes, WalkSees DEF ListInv, ServersLinked, ServersOf
<1>. QED  BY <1>2, <1>3

\* A list none of whose links changes.
LEMMA ThreadsSame ==
    ASSUME NEW l, NEW head, NEW next, NEW next2, Threads(l, head, next),
           \A i \in 1..Len(l) : next2[l[i]] = next[l[i]]
    PROVE  Threads(l, head, next2)
  BY DEF Threads

\* The first element of a list, and its last.
LEMMA ThreadsEnds ==
    ASSUME NEW X, Nil \notin X, NEW l \in Seq(X), NEW head, NEW next, Threads(l, head, next)
    PROVE  /\ head = Nil <=> Len(l) = 0
           /\ Len(l) # 0 => /\ head = l[1] /\ 1 \in 1..Len(l) /\ Len(l) \in 1..Len(l)
                            /\ Last(l) = l[Len(l)] /\ next[l[Len(l)]] = Nil
<1>1. PICK n \in Nat : n = Len(l)
  OBVIOUS
<1>2. CASE n = 0
  <2>1. 1 \notin 1..Len(l)
    BY <1>1, <1>2
  <2>. QED  BY <1>1, <1>2, <2>1 DEF Threads, Element
<1>3. CASE n # 0
  <2>1. 1 \in 1..Len(l) /\ n \in 1..Len(l) /\ n + 1 \notin 1..Len(l)
    BY <1>1, <1>3
  <2>2. head = l[1] /\ l[1] \in X
    BY <2>1 DEF Threads, Element
  <2>3. next[l[n]] = Nil
    BY <2>1 DEF Threads, Element
  <2>. QED  BY <1>1, <1>3, <2>1, <2>2, <2>3 DEF Last
<1>. QED  BY <1>2, <1>3

\* The predecessor of an element.
LEMMA ThreadsBefore ==
    ASSUME NEW X, Nil \notin X, NEW l \in Seq(X), NEW head, NEW next, Threads(l, head, next),
           NoDuplicates(l), NEW k \in 1..Len(l), NEW p, Contains(l, p), next[p] = l[k]
    PROVE  k - 1 \in 1..Len(l) /\ l[k - 1] = p
<1>1. PICK j \in 1..Len(l) : l[j] = p
  BY DEF Contains
<1>2. Element(l, j + 1) = l[k] /\ l[k] # Nil
  BY <1>1 DEF Threads
<1>3. j + 1 \in 1..Len(l) /\ l[j + 1] = l[k]
  BY <1>2 DEF Element
<1>4. j + 1 = k
  BY <1>3 DEF NoDuplicates
<1>. QED  BY <1>1, <1>4

\* Servers' lists that a step of the queues leaves alone.
LEMMA QueueStep ==
    ASSUME ListInv, ListTypes', UNCHANGED sd, QueuesLinked',
           \A p \in RpcQueues : \/ linked'[p] = linked[p] /\ qd'[p].link = qd[p].link
                                \/ linked'[p] = <<>> /\ qd'[p].link = Nil
    PROVE  ListInv'
<1>1. ServerLinks' = ServerLinks
  BY DEF ServerLinks
<1>2. PICK e : e = <<>> /\ e \in Seq(Servers) /\ Len(e) = 0
  BY EmptySeq
<1>3. NoDuplicates(e) /\ Threads(e, Nil, ServerLinks) /\ \A x : ~Contains(e, x)
  BY <1>2 DEF NoDuplicates, Threads, Element, Contains
<1>4. ServersLinked'
  BY <1>1, <1>2, <1>3 DEF ListInv, ServersLinked
<1>5. OneQueue'
  <2>. SUFFICES ASSUME NEW p \in RpcQueues, NEW q \in RpcQueues, NEW x,
                       Contains(linked'[p], x), Contains(linked'[q], x)
                PROVE  p = q
    BY DEF OneQueue
  <2>1. linked'[p] = linked[p] /\ linked'[q] = linked[q]
    BY <1>2, <1>3
  <2>. QED  BY <2>1 DEF ListInv, OneQueue
<1>. QED  BY <1>4, <1>5 DEF ListInv

\* SifSetRpcQueue links the queue behind the last one.
LEMMA SetQueueKeeps ==
    ASSUME ListInv, WalksReach, NEW q \in RpcQueues, SifSetRpcQueue(q)
    PROVE  ListInv'
<1>1. /\ ListTypes /\ queued \in Seq(RpcQueues) /\ NoDuplicates(queued)
      /\ Threads(queued, activeQueue, QueueLinks) /\ Nil \notin RpcQueues
      /\ qd \in [RpcQueues -> QueueRecords] /\ linked \in [RpcQueues -> Seq(Descriptors)]
      /\ activeQueue \in RpcQueues \cup {Nil}
  BY LinkTypes DEF ListInv, ListTypes, QueuesLinked
<1>2. PICK z : z = [link |-> Nil, next |-> Nil]
  OBVIOUS
<1>3. z \in QueueRecords /\ z.link = Nil /\ z.next = Nil
  BY <1>2 DEF QueueRecords
<1>4. PICK cleared : cleared = [qd EXCEPT ![q] = z]
  OBVIOUS
<1>5. /\ cleared \in [RpcQueues -> QueueRecords] /\ cleared[q] = z
      /\ \A p \in RpcQueues : p # q => cleared[p] = qd[p]
  BY <1>1, <1>3, <1>4
<1>6. /\ ~Contains(queued, q) /\ queued' = Append(queued, q)
      /\ linked' = [linked EXCEPT ![q] = <<>>] /\ sd' = sd
  BY DEF SifSetRpcQueue
<1>7. PICK n \in Nat : n = Len(queued)
  BY <1>1
<1>8. /\ activeQueue' = IF n = 0 THEN q ELSE activeQueue
      /\ qd' \in [RpcQueues -> QueueRecords]
      /\ \A p \in RpcQueues : qd'[p].link = IF p = q THEN Nil ELSE qd[p].link
      /\ qd'[q].next = Nil
      /\ \A i \in 1..n : qd'[queued[i]].next = IF i = n THEN q ELSE qd[queued[i]].next
  <2>1. \A i \in 1..n : queued[i] \in RpcQueues /\ queued[i] # q
    BY <1>1, <1>6, <1>7 DEF Contains
  <2>2. CASE n = 0
    <3>1. activeQueue = Nil
      BY <1>1, <1>7, <2>2, ThreadsEnds
    <3>2. activeQueue' = q /\ qd' = cleared
      BY <1>2, <1>4, <3>1 DEF SifSetRpcQueue
    <3>3. 1..n = {}
      BY <2>2
    <3>. QED  BY <1>3, <1>5, <2>2, <3>2, <3>3
  <2>3. CASE n # 0
    <3>1. /\ activeQueue # Nil /\ Last(queued) = queued[n] /\ QueueLinks[queued[n]] = Nil
          /\ n \in 1..n
      BY <1>1, <1>7, <2>3, ThreadsEnds
    <3>2. PICK last \in RpcQueues : last = queued[n] /\ last # q
      BY <2>1, <3>1
    <3>3. ActiveQueues = queued
      BY ListsSeen
    <3>4. qd[last].next = Nil
      BY <1>1, <3>1, <3>2, LinkTypes
    <3>5. activeQueue' = activeQueue /\ qd' = [cleared EXCEPT ![last].next = q]
      BY <1>2, <1>4, <3>1, <3>2, <3>3, <3>4 DEF SifSetRpcQueue
    <3>6. PICK y : y = [cleared[last] EXCEPT !.next = q]
      OBVIOUS
    <3>7. y \in QueueRecords /\ y.next = q /\ y.link = cleared[last].link
      BY <1>5, <3>6 DEF QueueRecords
    <3>8. qd' = [cleared EXCEPT ![last] = y]
      BY <3>5, <3>6
    <3>9. /\ qd' \in [RpcQueues -> QueueRecords] /\ qd'[last] = y
          /\ \A p \in RpcQueues : p # last => qd'[p] = cleared[p]
      BY <1>5, <3>2, <3>7, <3>8
    <3>10. \A p \in RpcQueues : qd'[p].link = IF p = q THEN Nil ELSE qd[p].link
      BY <1>3, <1>5, <3>2, <3>7, <3>9
    <3>11. \A i \in 1..n : i # n => queued[i] # last
      BY <1>1, <1>7, <3>1, <3>2 DEF NoDuplicates
    <3>12. \A i \in 1..n : qd'[queued[i]].next = IF i = n THEN q ELSE qd[queued[i]].next
      BY <1>5, <2>1, <3>2, <3>7, <3>9, <3>11
    <3>. QED  BY <1>3, <1>5, <2>3, <3>2, <3>5, <3>9, <3>10, <3>12
  <2>. QED  BY <2>2, <2>3
<1>9. PICK next2 : next2 = QueueLinks'
  OBVIOUS
<1>10. \A p \in RpcQueues : next2[p] = qd'[p].next /\ QueueLinks[p] = qd[p].next
  BY <1>9 DEF QueueLinks
<1>11. \A i \in 1..Len(queued) : next2[queued[i]] =
            IF i = Len(queued) THEN q ELSE QueueLinks[queued[i]]
  <2>. SUFFICES ASSUME NEW i \in 1..n
                PROVE  next2[queued[i]] = IF i = n THEN q ELSE QueueLinks[queued[i]]
    BY <1>7
  <2>1. queued[i] \in RpcQueues
    BY <1>1, <1>7
  <2>. QED  BY <1>8, <1>10, <2>1
<1>12. activeQueue' = IF Len(queued) = 0 THEN q ELSE activeQueue
  BY <1>7, <1>8
<1>13. next2[q] = Nil
  BY <1>8, <1>10
<1>14. /\ Threads(queued', activeQueue', next2) /\ NoDuplicates(queued')
       /\ queued' \in Seq(RpcQueues)
  BY <1>1, <1>6, <1>11, <1>12, <1>13, ThreadsAppend, SMTT(30)
<1>15. QueuesLinked'
  BY <1>9, <1>14 DEF QueuesLinked
<1>16. linked' \in [RpcQueues -> Seq(Descriptors)]
  <2>1. PICK e \in Seq(Descriptors) : e = <<>>
    BY EmptySeq
  <2>. QED  BY <1>1, <1>6, <2>1
<1>17. ListTypes'
  BY <1>1, <1>6, <1>8, <1>14, <1>16 DEF ListTypes
<1>18. \A p \in RpcQueues : \/ linked'[p] = linked[p] /\ qd'[p].link = qd[p].link
                            \/ linked'[p] = <<>> /\ qd'[p].link = Nil
  BY <1>1, <1>6, <1>8
<1>. QED  BY <1>6, <1>15, <1>17, <1>18, QueueStep

\* SifRemoveRpcQueue takes the queue out, the first one or another.
LEMMA RemoveQueueKeeps ==
    ASSUME ListInv, WalksReach, NEW q \in RpcQueues, SifRemoveRpcQueue(q)
    PROVE  ListInv'
<1>1. /\ ListTypes /\ queued \in Seq(RpcQueues) /\ NoDuplicates(queued)
      /\ Threads(queued, activeQueue, QueueLinks) /\ Nil \notin RpcQueues
      /\ qd \in [RpcQueues -> QueueRecords] /\ activeQueue \in RpcQueues \cup {Nil}
  BY LinkTypes DEF ListInv, ListTypes, QueuesLinked
<1>2. PICK k \in 1..Len(queued) : queued[k] = q
  BY DEF SifRemoveRpcQueue, Contains
<1>3. queued' = RemoveFirst(queued, queued[k]) /\ UNCHANGED <<sd, linked>>
  BY <1>2 DEF SifRemoveRpcQueue
<1>4. \A i \in 1..Len(queued) : queued[i] \in RpcQueues
  BY <1>1
<1>5. \A p \in RpcQueues : QueueLinks'[p] = qd'[p].next /\ QueueLinks[p] = qd[p].next
  BY DEF QueueLinks
<1>6. qd[q].next \in RpcQueues \cup {Nil}
  BY <1>1 DEF QueueRecords
<1>7. /\ activeQueue' = IF k = 1 THEN QueueLinks[queued[k]] ELSE activeQueue
      /\ activeQueue' \in RpcQueues \cup {Nil}
      /\ qd' \in [RpcQueues -> QueueRecords]
      /\ \A p \in RpcQueues : qd'[p].link = qd[p].link
      /\ \A i \in 1..Len(queued) : i # k =>
            QueueLinks'[queued[i]] = IF i = k - 1 THEN QueueLinks[queued[k]]
                                        ELSE QueueLinks[queued[i]]
  <2>0. Len(queued) # 0 /\ activeQueue = queued[1] /\ 1 \in 1..Len(queued)
    BY <1>1, <1>2, ThreadsEnds
  <2>1. CASE activeQueue = q
    <3>1. k = 1
      BY <1>1, <1>2, <2>0, <2>1 DEF NoDuplicates
    <3>2. activeQueue' = qd[q].next /\ qd' = qd
      BY <2>1 DEF SifRemoveRpcQueue
    <3>3. \A i \in 1..Len(queued) : i # k - 1
      BY <3>1
    <3>. QED  BY <1>1, <1>2, <1>4, <1>5, <1>6, <3>1, <3>2, <3>3
  <2>2. CASE activeQueue # q
    <3>1. k # 1
      BY <1>2, <2>0, <2>2
    <3>2. PICK p \in RpcQueues : /\ Contains(queued, p) /\ qd[p].next = q
                                 /\ qd' = [qd EXCEPT ![p].next = qd[q].next]
      BY <2>2, ListsSeen DEF SifRemoveRpcQueue
    <3>3. k - 1 \in 1..Len(queued) /\ queued[k - 1] = p
      BY <1>1, <1>2, <1>5, <3>2, ThreadsBefore
    <3>4. PICK y : y = [qd[p] EXCEPT !.next = qd[q].next]
      OBVIOUS
    <3>5. y \in QueueRecords /\ y.next = qd[q].next /\ y.link = qd[p].link
      BY <1>1, <1>6, <3>4 DEF QueueRecords
    <3>6. qd' = [qd EXCEPT ![p] = y]
      BY <3>2, <3>4
    <3>7. /\ qd' \in [RpcQueues -> QueueRecords] /\ qd'[p] = y
          /\ \A o \in RpcQueues : o # p => qd'[o] = qd[o]
      BY <1>1, <3>5, <3>6
    <3>8. \A i \in 1..Len(queued) : i # k - 1 => queued[i] # p
      BY <1>1, <3>3 DEF NoDuplicates
    <3>9. activeQueue' = activeQueue
      BY <2>2 DEF SifRemoveRpcQueue
    <3>10. \A i \in 1..Len(queued) : i # k =>
              QueueLinks'[queued[i]] = IF i = k - 1 THEN QueueLinks[queued[k]]
                                          ELSE QueueLinks[queued[i]]
      BY <1>2, <1>4, <1>5, <3>3, <3>5, <3>7, <3>8
    <3>11. \A o \in RpcQueues : qd'[o].link = qd[o].link
      BY <3>5, <3>7
    <3>. QED  BY <1>1, <3>1, <3>7, <3>9, <3>10, <3>11
  <2>. QED  BY <2>1, <2>2
<1>8. PICK next2 : next2 = QueueLinks'
  OBVIOUS
<1>9. /\ Threads(queued', activeQueue', next2) /\ NoDuplicates(queued')
      /\ queued' \in Seq(RpcQueues)
  <2>1. \A i \in 1..Len(queued) : i # k =>
           next2[queued[i]] = IF i = k - 1 THEN QueueLinks[queued[k]] ELSE QueueLinks[queued[i]]
    BY <1>7, <1>8
  <2>2. PICK head2 : head2 = activeQueue'
    OBVIOUS
  <2>3. head2 = IF k = 1 THEN QueueLinks[queued[k]] ELSE activeQueue
    BY <1>7, <2>2
  <2>4. PICK l : l = RemoveFirst(queued, queued[k])
    OBVIOUS
  <2>5. Threads(l, head2, next2) /\ NoDuplicates(l) /\ l \in Seq(RpcQueues)
    <3>1. PICK o \in Seq(RpcQueues) : o = queued
      BY <1>1
    <3>2. PICK next : next = QueueLinks
      OBVIOUS
    <3>3. k \in 1..Len(o) /\ NoDuplicates(o) /\ Threads(o, activeQueue, next)
      BY <1>1, <3>1, <3>2
    <3>4. head2 = IF k = 1 THEN next[o[k]] ELSE activeQueue
      BY <2>3, <3>1, <3>2
    <3>5. \A i \in 1..Len(o) : i # k =>
             next2[o[i]] = IF i = k - 1 THEN next[o[k]] ELSE next[o[i]]
      BY <2>1, <3>1, <3>2
    <3>6. l = RemoveFirst(o, o[k])
      BY <2>4, <3>1
    <3>7. /\ Threads(RemoveFirst(o, o[k]), head2, next2) /\ NoDuplicates(RemoveFirst(o, o[k]))
          /\ RemoveFirst(o, o[k]) \in Seq(RpcQueues)
      BY <3>3, <3>4, <3>5, ThreadsRemove
    <3>. QED  BY <3>6, <3>7
  <2>. QED  BY <1>3, <2>2, <2>4, <2>5
<1>10. QueuesLinked'
  BY <1>8, <1>9 DEF QueuesLinked
<1>11. ListTypes'
  BY <1>1, <1>3, <1>7, <1>9 DEF ListTypes
<1>. QED  BY <1>3, <1>7, <1>10, <1>11, QueueStep

\* The lists after a step that gives the queue q the list l.
LEMMA ServerStep ==
    ASSUME ListInv, ListTypes', UNCHANGED <<queued, activeQueue>>, NEW q \in RpcQueues, NEW l,
           linked' = [linked EXCEPT ![q] = l],
           NoDuplicates(l), Threads(l, qd'[q].link, ServerLinks'),
           \A p \in RpcQueues : qd'[p].next = qd[p].next,
           \A p \in RpcQueues : p # q => qd'[p].link = qd[p].link,
           \A p \in RpcQueues : p # q => \A i \in 1..Len(linked[p]) :
               ServerLinks'[linked[p][i]] = ServerLinks[linked[p][i]] /\ ~Contains(l, linked[p][i])
    PROVE  ListInv'
<1>1. QueuesLinked'
  <2>1. QueueLinks' = QueueLinks
    BY DEF QueueLinks
  <2>. QED  BY <2>1 DEF ListInv, QueuesLinked
<1>2. linked \in [RpcQueues -> Seq(Descriptors)]
  BY DEF ListInv, ListTypes
<1>3. linked'[q] = l /\ \A p \in RpcQueues : p # q => linked'[p] = linked[p]
  BY <1>2
<1>4. PICK next2 : next2 = ServerLinks'
  OBVIOUS
<1>5. ServersLinked'
  <2>. SUFFICES ASSUME NEW p \in RpcQueues
                PROVE  NoDuplicates(linked'[p]) /\ Threads(linked'[p], qd'[p].link, next2)
    BY <1>4 DEF ServersLinked
  <2>1. CASE p = q
    BY <1>3, <1>4, <2>1
  <2>2. CASE p # q
    <3>1. Threads(linked[p], qd[p].link, ServerLinks) /\ NoDuplicates(linked[p])
      BY DEF ListInv, ServersLinked
    <3>2. Threads(linked[p], qd[p].link, next2)
      BY <1>4, <2>2, <3>1, ThreadsSame
    <3>. QED  BY <1>3, <2>2, <3>1, <3>2
  <2>. QED  BY <2>1, <2>2
<1>6. OneQueue'
  <2>1. ASSUME NEW p \in RpcQueues, p # q, NEW x, Contains(linked[p], x), Contains(l, x) PROVE FALSE
    BY <2>1 DEF Contains
  <2>. SUFFICES ASSUME NEW p \in RpcQueues, NEW o \in RpcQueues, NEW x,
                       Contains(linked'[p], x), Contains(linked'[o], x)
                PROVE  p = o
    BY DEF OneQueue
  <2>2. CASE p = q
    BY <1>3, <2>1, <2>2
  <2>3. CASE o = q
    BY <1>3, <2>1, <2>3
  <2>4. CASE p # q /\ o # q
    BY <1>3, <2>4 DEF ListInv, OneQueue
  <2>. QED  BY <2>2, <2>3, <2>4
<1>. QED  BY <1>1, <1>5, <1>6 DEF ListInv

\* SifRegisterRpc links the server behind the last one of its queue.
LEMMA RegisterServerKeeps ==
    ASSUME ListInv, WalksReach, NEW q \in RpcQueues, NEW d \in Descriptors, NEW sid \in Sids,
           NEW func \in BOOLEAN, SifRegisterRpc(d, sid, q, func)
    PROVE  ListInv'
<1>1. /\ ListTypes /\ sd \in [Servers -> DescRecords] /\ qd \in [RpcQueues -> QueueRecords]
      /\ linked \in [RpcQueues -> Seq(Descriptors)] /\ d \in Servers /\ Nil \notin Servers
  BY LinkTypes DEF ListInv, ListTypes, Servers
<1>2. PICK l : l = linked[q]
  OBVIOUS
<1>3. /\ l \in Seq(Descriptors) /\ l \in Seq(Servers) /\ NoDuplicates(l)
      /\ Threads(l, qd[q].link, ServerLinks)
  BY <1>1, <1>2, LinkTypes DEF ListInv, ServersLinked
<1>4. PICK r : r = [sid |-> sid, func |-> func, link |-> Nil]
  OBVIOUS
<1>5. r \in DescRecords /\ r.link = Nil
  BY <1>4 DEF DescRecords
<1>6. PICK fresh : fresh = [sd EXCEPT ![d] = r]
  OBVIOUS
<1>7. /\ fresh \in [Servers -> DescRecords] /\ fresh[d] = r
      /\ \A s \in Servers : s # d => fresh[s] = sd[s]
  BY <1>1, <1>5, <1>6
<1>8. /\ \A p \in RpcQueues : ~Contains(linked[p], d)
      /\ linked' = [linked EXCEPT ![q] = Append(l, d)] /\ UNCHANGED <<queued, activeQueue>>
  BY <1>2 DEF SifRegisterRpc
<1>9. PICK n \in Nat : n = Len(l)
  BY <1>3
<1>10. \A i \in 1..n : l[i] \in Servers /\ l[i] # d
  BY <1>2, <1>3, <1>8, <1>9 DEF Contains
<1>11. /\ qd' \in [RpcQueues -> QueueRecords] /\ sd' \in [Servers -> DescRecords]
       /\ qd'[q].link = IF n = 0 THEN d ELSE qd[q].link
       /\ \A p \in RpcQueues : qd'[p].next = qd[p].next /\ (p # q => qd'[p].link = qd[p].link)
       /\ sd'[d].link = Nil
       /\ \A i \in 1..n : sd'[l[i]].link = IF i = n THEN d ELSE sd[l[i]].link
       /\ \A s \in Servers : s # d /\ ~Contains(l, s) => sd'[s].link = sd[s].link
  <2>1. CASE n = 0
    <3>1. qd[q].link = Nil
      BY <1>1, <1>3, <1>9, <2>1, ThreadsEnds
    <3>2. qd' = [qd EXCEPT ![q].link = d] /\ sd' = fresh
      BY <1>4, <1>6, <3>1 DEF SifRegisterRpc
    <3>3. PICK y : y = [qd[q] EXCEPT !.link = d]
      OBVIOUS
    <3>4. y \in QueueRecords /\ y.link = d /\ y.next = qd[q].next
      BY <1>1, <3>3 DEF QueueRecords
    <3>5. qd' = [qd EXCEPT ![q] = y]
      BY <3>2, <3>3
    <3>6. /\ qd' \in [RpcQueues -> QueueRecords] /\ qd'[q] = y
          /\ \A p \in RpcQueues : p # q => qd'[p] = qd[p]
      BY <1>1, <3>4, <3>5
    <3>7. 1..n = {}
      BY <2>1
    <3>. QED  BY <1>5, <1>7, <2>1, <3>2, <3>4, <3>6, <3>7
  <2>2. CASE n # 0
    <3>1. /\ qd[q].link # Nil /\ Last(l) = l[n] /\ ServerLinks[l[n]] = Nil /\ n \in 1..n
      BY <1>1, <1>3, <1>9, <2>2, ThreadsEnds
    <3>2. PICK last \in Servers : last = l[n] /\ last # d
      BY <1>10, <3>1
    <3>3. ServersOf(q) = l
      BY <1>2, ListsSeen
    <3>4. sd[last].link = Nil
      BY <1>1, <3>1, <3>2, LinkTypes
    <3>5. qd' = qd /\ sd' = [fresh EXCEPT ![last].link = d]
      BY <1>4, <1>6, <3>1, <3>2, <3>3, <3>4 DEF SifRegisterRpc
    <3>6. PICK y : y = [fresh[last] EXCEPT !.link = d]
      OBVIOUS
    <3>7. y \in DescRecords /\ y.link = d
      BY <1>1, <1>7, <3>6 DEF DescRecords
    <3>8. sd' = [fresh EXCEPT ![last] = y]
      BY <3>5, <3>6
    <3>9. /\ sd' \in [Servers -> DescRecords] /\ sd'[last] = y
          /\ \A s \in Servers : s # last => sd'[s] = fresh[s]
      BY <1>7, <3>7, <3>8
    <3>10. \A i \in 1..n : i # n => l[i] # last
      BY <1>3, <1>9, <3>1, <3>2 DEF NoDuplicates
    <3>11. \A i \in 1..n : sd'[l[i]].link = IF i = n THEN d ELSE sd[l[i]].link
      BY <1>7, <1>10, <3>2, <3>7, <3>9, <3>10
    <3>12. Contains(l, last)
      BY <1>9, <3>1, <3>2 DEF Contains
    <3>. QED  BY <1>1, <1>5, <1>7, <2>2, <3>2, <3>5, <3>9, <3>11, <3>12
  <2>. QED  BY <2>1, <2>2
<1>12. PICK next2 : next2 = ServerLinks'
  OBVIOUS
<1>13. \A s \in Servers : next2[s] = sd'[s].link /\ ServerLinks[s] = sd[s].link
  BY <1>12 DEF ServerLinks
<1>14. PICK m : m = Append(l, d)
  OBVIOUS
<1>15. PICK head2 : head2 = qd'[q].link
  OBVIOUS
<1>16. /\ Threads(m, head2, next2) /\ NoDuplicates(m)
       /\ \A x : Contains(m, x) <=> Contains(l, x) \/ x = d
  <2>1. ~Contains(l, d) /\ next2[d] = Nil /\ head2 = IF Len(l) = 0 THEN d ELSE qd[q].link
    BY <1>1, <1>2, <1>8, <1>9, <1>11, <1>13, <1>15
  <2>2. \A i \in 1..Len(l) : next2[l[i]] = IF i = Len(l) THEN d ELSE ServerLinks[l[i]]
    <3>. SUFFICES ASSUME NEW i \in 1..n
                  PROVE  next2[l[i]] = IF i = n THEN d ELSE ServerLinks[l[i]]
      BY <1>9
    <3>. QED  BY <1>10, <1>11, <1>13
  <2>3. d \in Servers
    BY <1>1
  <2>4. /\ Threads(Append(l, d), head2, next2) /\ NoDuplicates(Append(l, d))
        /\ \A x : Contains(Append(l, d), x) <=> Contains(l, x) \/ x = d
    BY <1>3, <2>1, <2>2, <2>3, ThreadsAppend, SMTT(30)
  <2>. QED  BY <1>14, <2>4
<1>17. ASSUME NEW p \in RpcQueues, p # q, NEW i \in 1..Len(linked[p])
       PROVE  ServerLinks'[linked[p][i]] = ServerLinks[linked[p][i]] /\ ~Contains(m, linked[p][i])
  <2>1. PICK x : x = linked[p][i]
    OBVIOUS
  <2>2. x \in Servers /\ Contains(linked[p], x)
    BY <1>1, <2>1, LinkTypes DEF Contains
  <2>3. ~Contains(l, x) /\ x # d
    BY <1>2, <1>8, <1>17, <2>2 DEF ListInv, OneQueue
  <2>. QED  BY <1>11, <1>12, <1>13, <1>16, <2>1, <2>2, <2>3
<1>18. ListTypes'
  <2>1. m \in Seq(Descriptors)
    BY <1>3, <1>14
  <2>. QED  BY <1>1, <1>8, <1>11, <1>14, <2>1 DEF ListTypes
<1>19. Threads(m, qd'[q].link, ServerLinks') /\ linked' = [linked EXCEPT ![q] = m]
  BY <1>8, <1>12, <1>14, <1>15, <1>16
<1>20. /\ UNCHANGED <<queued, activeQueue>>
       /\ \A p \in RpcQueues : qd'[p].next = qd[p].next
       /\ \A p \in RpcQueues : p # q => qd'[p].link = qd[p].link
  BY <1>8, <1>11
<1>. QED  BY <1>16, <1>17, <1>18, <1>19, <1>20, ServerStep

\* SifRemoveRpc takes the server out of its queue.
LEMMA RemoveServerKeeps ==
    ASSUME ListInv, WalksReach, NEW q \in RpcQueues, NEW d \in Descriptors, SifRemoveRpc(d, q)
    PROVE  ListInv'
<1>1. /\ ListTypes /\ sd \in [Servers -> DescRecords] /\ qd \in [RpcQueues -> QueueRecords]
      /\ linked \in [RpcQueues -> Seq(Descriptors)] /\ d \in Servers /\ Nil \notin Servers
  BY LinkTypes DEF ListInv, ListTypes, Servers
<1>2. PICK l : l = linked[q]
  OBVIOUS
<1>3. /\ l \in Seq(Descriptors) /\ l \in Seq(Servers) /\ NoDuplicates(l)
      /\ Threads(l, qd[q].link, ServerLinks)
  BY <1>1, <1>2, LinkTypes DEF ListInv, ServersLinked
<1>4. PICK k \in 1..Len(l) : l[k] = d
  BY <1>2 DEF SifRemoveRpc, Contains
<1>5. linked' = [linked EXCEPT ![q] = RemoveFirst(l, d)] /\ UNCHANGED <<queued, activeQueue>>
  BY <1>2 DEF SifRemoveRpc
<1>6. \A i \in 1..Len(l) : l[i] \in Servers
  BY <1>3
<1>7. PICK t \in Servers \cup {Nil} : t = sd[d].link
  BY <1>1 DEF DescRecords
<1>8. PICK z : z = [sd[d] EXCEPT !.link = Nil]
  OBVIOUS
<1>9. z \in DescRecords
  BY <1>1, <1>8 DEF DescRecords
<1>10. Len(l) # 0 /\ qd[q].link = l[1] /\ 1 \in 1..Len(l)
  BY <1>1, <1>3, <1>4, ThreadsEnds
<1>11. /\ qd' \in [RpcQueues -> QueueRecords] /\ sd' \in [Servers -> DescRecords]
       /\ qd'[q].link = IF k = 1 THEN t ELSE qd[q].link
       /\ \A p \in RpcQueues : qd'[p].next = qd[p].next /\ (p # q => qd'[p].link = qd[p].link)
       /\ \A i \in 1..Len(l) : i # k => sd'[l[i]].link = IF i = k - 1 THEN t ELSE sd[l[i]].link
       /\ \A s \in Servers : ~Contains(l, s) => sd'[s].link = sd[s].link
  <2>0. Contains(l, d)
    BY <1>4 DEF Contains
  <2>1. CASE qd[q].link = d
    <3>1. k = 1
      BY <1>3, <1>4, <1>10, <2>1 DEF NoDuplicates
    <3>2. qd' = [qd EXCEPT ![q].link = t] /\ sd' = [sd EXCEPT ![d] = z]
      BY <1>7, <1>8, <2>1 DEF SifRemoveRpc
    <3>3. PICK y : y = [qd[q] EXCEPT !.link = t]
      OBVIOUS
    <3>4. y \in QueueRecords /\ y.link = t /\ y.next = qd[q].next
      BY <1>1, <3>3 DEF QueueRecords
    <3>5. qd' = [qd EXCEPT ![q] = y]
      BY <3>2, <3>3
    <3>6. /\ qd' \in [RpcQueues -> QueueRecords] /\ qd'[q] = y
          /\ \A p \in RpcQueues : p # q => qd'[p] = qd[p]
      BY <1>1, <3>4, <3>5
    <3>7. sd' \in [Servers -> DescRecords] /\ \A s \in Servers : s # d => sd'[s] = sd[s]
      BY <1>1, <1>9, <3>2
    <3>8. \A i \in 1..Len(l) : i # k => l[i] # d /\ i # k - 1
      BY <1>3, <1>4, <3>1 DEF NoDuplicates
    <3>9. \A i \in 1..Len(l) : i # k => sd'[l[i]].link = IF i = k - 1 THEN t ELSE sd[l[i]].link
      BY <1>6, <3>7, <3>8
    <3>. QED  BY <2>0, <3>1, <3>4, <3>6, <3>7, <3>9
  <2>2. CASE qd[q].link # d
    <3>1. k # 1
      BY <1>4, <1>10, <2>2
    <3>2. PICK s \in Servers : /\ Contains(l, s) /\ sd[s].link = d
                               /\ sd' = [sd EXCEPT ![s].link = sd[d].link, ![d].link = Nil]
      BY <1>2, <2>2, ListsSeen DEF SifRemoveRpc
    <3>3. ServerLinks[s] = l[k]
      BY <1>1, <1>4, <3>2, LinkTypes
    <3>4. k - 1 \in 1..Len(l) /\ l[k - 1] = s
      BY <1>1, <1>3, <3>2, <3>3, ThreadsBefore
    <3>5. s # d
      <4>1. k - 1 # k
        OBVIOUS
      <4>. QED  BY <1>3, <1>4, <3>4, <4>1 DEF NoDuplicates
    <3>6. PICK y : y = [sd[s] EXCEPT !.link = t]
      OBVIOUS
    <3>7. y \in DescRecords /\ y.link = t
      BY <1>1, <3>6 DEF DescRecords
    <3>8. sd' = [sd EXCEPT ![s] = y, ![d] = z]
      <4>1. PICK m : m = [sd EXCEPT ![s].link = sd[d].link]
        OBVIOUS
      <4>2. m = [sd EXCEPT ![s] = y] /\ m[d] = sd[d]
        BY <1>1, <1>7, <3>5, <3>6, <4>1
      <4>3. sd' = [m EXCEPT ![d].link = Nil]
        BY <3>2, <4>1
      <4>4. sd' = [m EXCEPT ![d] = z]
        BY <1>8, <4>2, <4>3
      <4>. QED  BY <4>2, <4>4
    <3>9. /\ sd' \in [Servers -> DescRecords] /\ sd'[s] = y
          /\ \A o \in Servers : o # s /\ o # d => sd'[o] = sd[o]
      BY <1>1, <1>9, <3>5, <3>7, <3>8
    <3>10. \A i \in 1..Len(l) : (i # k => l[i] # d) /\ (i # k - 1 => l[i] # s)
      BY <1>3, <1>4, <3>4 DEF NoDuplicates
    <3>11. \A i \in 1..Len(l) : i # k => sd'[l[i]].link = IF i = k - 1 THEN t ELSE sd[l[i]].link
      BY <1>6, <3>4, <3>7, <3>9, <3>10
    <3>12. qd' = qd
      BY <2>2 DEF SifRemoveRpc
    <3>13. \A o \in Servers : ~Contains(l, o) => sd'[o].link = sd[o].link
      BY <2>0, <3>2, <3>9
    <3>. QED  BY <1>1, <3>1, <3>9, <3>11, <3>12, <3>13
  <2>. QED  BY <2>1, <2>2
<1>12. PICK next2 : next2 = ServerLinks'
  OBVIOUS
<1>13. \A s \in Servers : next2[s] = sd'[s].link /\ ServerLinks[s] = sd[s].link
  BY <1>12 DEF ServerLinks
<1>14. PICK m : m = RemoveFirst(l, l[k])
  OBVIOUS
<1>15. PICK head2 : head2 = qd'[q].link
  OBVIOUS
<1>16. /\ Threads(m, head2, next2) /\ NoDuplicates(m) /\ m \in Seq(Descriptors)
       /\ \A x : Contains(m, x) <=> Contains(l, x) /\ x # l[k]
  <2>1. head2 = IF k = 1 THEN ServerLinks[l[k]] ELSE qd[q].link
    BY <1>1, <1>4, <1>7, <1>11, <1>13, <1>15
  <2>2. \A i \in 1..Len(l) : i # k =>
           next2[l[i]] = IF i = k - 1 THEN ServerLinks[l[k]] ELSE ServerLinks[l[i]]
    <3>. SUFFICES ASSUME NEW i \in 1..Len(l), i # k
                  PROVE  next2[l[i]] = IF i = k - 1 THEN ServerLinks[l[k]] ELSE ServerLinks[l[i]]
      OBVIOUS
    <3>1. l[i] \in Servers /\ ServerLinks[l[k]] = t
      BY <1>1, <1>4, <1>6, <1>7, <1>13
    <3>. QED  BY <1>11, <1>13, <3>1
  <2>. QED  BY <1>3, <1>14, <2>1, <2>2, ThreadsRemove
<1>17. ASSUME NEW p \in RpcQueues, p # q, NEW i \in 1..Len(linked[p])
       PROVE  ServerLinks'[linked[p][i]] = ServerLinks[linked[p][i]] /\ ~Contains(m, linked[p][i])
  <2>1. PICK x : x = linked[p][i]
    OBVIOUS
  <2>2. x \in Servers /\ Contains(linked[p], x)
    BY <1>1, <2>1, LinkTypes DEF Contains
  <2>3. ~Contains(l, x)
    BY <1>2, <1>17, <2>2 DEF ListInv, OneQueue
  <2>. QED  BY <1>11, <1>12, <1>13, <1>16, <2>1, <2>2, <2>3
<1>18. ListTypes'
  BY <1>1, <1>4, <1>5, <1>11, <1>14, <1>16 DEF ListTypes
<1>19. Threads(m, qd'[q].link, ServerLinks') /\ linked' = [linked EXCEPT ![q] = m]
  BY <1>4, <1>5, <1>12, <1>14, <1>15, <1>16
<1>20. /\ UNCHANGED <<queued, activeQueue>>
       /\ \A p \in RpcQueues : qd'[p].next = qd[p].next
       /\ \A p \in RpcQueues : p # q => qd'[p].link = qd[p].link
  BY <1>5, <1>11
<1>. QED  BY <1>16, <1>17, <1>18, <1>19, <1>20, ServerStep

\* A slot taken from the pool is in no list.
LEMMA SlotListKeeps ==
    ASSUME RpcTypes, ListInv, UNCHANGED <<qd, activeQueue, linked, queued>>,
           sd' = sd \/ \E content \in DescRecords : rpcAllocServerAddr(content)
    PROVE  ListInv'
<1>1. UNCHANGED <<qd, activeQueue, linked, queued>>
  OBVIOUS
<1>2. CASE sd' = sd
  BY <1>1, <1>2 DEF ListInv, ListTypes, QueuesLinked, ServersLinked, OneQueue, QueueLinks,
                    ServerLinks
<1>3. ASSUME NEW z \in DescRecords, rpcAllocServerAddr(z) PROVE ListInv'
  <2>. PICK dummy : dummy = serverIndex + 1
    OBVIOUS
  <2>1. dummy \in Pool /\ dummy \notin Descriptors
    BY SifRpcAssumption DEF RpcTypes, Pool
  <2>4. sd \in [Servers -> DescRecords] /\ sd' = [sd EXCEPT ![dummy] = z]
    BY <1>3 DEF ListInv, ListTypes, rpcAllocServerAddr
  <2>5. /\ sd' \in [Servers -> DescRecords]
        /\ \A s \in Servers : s \in Descriptors => sd'[s] = sd[s]
    BY <1>3, <2>1, <2>4
  <2>6. ListTypes'
    BY <1>1, <2>5 DEF ListInv, ListTypes
  <2>7. QueuesLinked' /\ OneQueue'
    BY <1>1 DEF ListInv, QueuesLinked, OneQueue, QueueLinks
  <2>8. PICK next2 : next2 = ServerLinks'
    OBVIOUS
  <2>9. ASSUME NEW q \in RpcQueues PROVE Threads(linked[q], qd[q].link, next2)
    <3>1. linked[q] \in Seq(Descriptors)
      BY DEF ListInv, ListTypes
    <3>2. \A i \in 1..Len(linked[q]) : linked[q][i] \in Descriptors /\ linked[q][i] \in Servers
      BY <3>1 DEF Servers
    <3>3. \A i \in 1..Len(linked[q]) : next2[linked[q][i]] = ServerLinks[linked[q][i]]
      BY <2>5, <2>8, <3>2 DEF ServerLinks
    <3>4. Threads(linked[q], qd[q].link, ServerLinks)
      BY DEF ListInv, ServersLinked
    <3>. QED  BY <3>3, <3>4, ThreadsSame
  <2>10. ServersLinked'
    BY <1>1, <2>8, <2>9 DEF ListInv, ServersLinked
  <2>. QED  BY <2>6, <2>7, <2>10 DEF ListInv
<1>. QED  BY <1>2, <1>3

\* The lists linked through guest memory are the queues set and the servers registered
\* and not removed since, in their order, and clients are at their services' servers,
\* whatever guest code registers under whichever service, removes, binds and calls, as
\* long as the guest has no more queues or servers than a walk of the code follows.
THEOREM RegistryKept == WalksReach => (Spec => []RegistrySound)
<1>. SUFFICES ASSUME WalksReach PROVE Spec => []RegistrySound
  OBVIOUS
<1>1. Init => ListInv
  <2>. SUFFICES ASSUME Init PROVE ListInv
    OBVIOUS
  <2>1. SifInitRpc
    BY DEF Init
  <2>2. PICK e : /\ e = <<>> /\ e \in Seq(Descriptors) /\ e \in Seq(RpcQueues) /\ Len(e) = 0
    BY EmptySeq
  <2>3. NoDuplicates(e) /\ (\A n : Threads(e, Nil, n)) /\ \A x : ~Contains(e, x)
    BY <2>2 DEF NoDuplicates, Threads, Element, Contains
  <2>4. Zeroed \in DescRecords
    BY DEF Zeroed, DescRecords
  <2>5. PICK z : z = [link |-> Nil, next |-> Nil]
    OBVIOUS
  <2>6. z \in QueueRecords /\ z.link = Nil
    BY <2>5 DEF QueueRecords
  <2>7. sd \in [Servers -> DescRecords] /\ qd = [q \in RpcQueues |-> z]
    BY <2>1, <2>4, <2>5 DEF SifInitRpc
  <2>8. /\ activeQueue = Nil /\ queued = e /\ linked = [q \in RpcQueues |-> e]
    BY <2>1, <2>2 DEF SifInitRpc
  <2>9. ListTypes
    BY <2>2, <2>6, <2>7, <2>8 DEF ListTypes
  <2>10. QueuesLinked /\ ServersLinked /\ OneQueue
    BY <2>3, <2>6, <2>7, <2>8 DEF QueuesLinked, ServersLinked, OneQueue
  <2>. QED  BY <2>9, <2>10 DEF ListInv
<1>2. RpcInv /\ ListInv /\ [Next]_vars => ListInv'
  <2>. SUFFICES ASSUME RpcInv, ListInv, [Next]_vars PROVE ListInv'
    OBVIOUS
  <2>0. RpcTypes
    BY DEF RpcInv
  <2>1. CASE UNCHANGED <<sd, qd, activeQueue, linked, queued>>
    BY <2>1 DEF ListInv, ListTypes, QueuesLinked, ServersLinked, OneQueue, QueueLinks, ServerLinks
  <2>2. CASE UNCHANGED sifVars
    BY <2>1, <2>2 DEF sifVars, lists
  <2>3. CASE SifNext
    <3>1. sifOps.queues \subseteq RpcQueues /\ sifOps.servers \subseteq Descriptors
      BY <2>0, SifRpcAssumption DEF RpcTypes
    <3>2. ASSUME NEW f \in RpcFibers, NEW end, NEW hle, NEW req, SifCallRpc(f, end, hle, req)
          PROVE  ListInv'
      <4>1. Zeroed \in DescRecords
        BY DEF Zeroed, DescRecords
      <4>2. UNCHANGED <<qd, activeQueue, linked, queued>> /\ Streams(req, hle)
        BY <3>2 DEF SifCallRpc
      <4>3. sd' = sd \/ \E content \in DescRecords : rpcAllocServerAddr(content)
        BY <4>1, <4>2 DEF Streams
      <4>. QED  BY <2>0, <4>2, <4>3, SlotListKeeps
    <3>3. ASSUME NEW f \in RpcFibers, ServerReturns(f) \/ EndReturns(f) \/ CallUnwinds(f)
          PROVE  ListInv'
      BY <2>1, <3>3 DEF ServerReturns, EndReturns, CallUnwinds, lists
    <3>4. ASSUME NEW f \in RpcFibers, NEW sid \in Sids, SifBindRpc(f, sid) PROVE ListInv'
      <4>1. PICK z : z = [Zeroed EXCEPT !.sid = sid]
        OBVIOUS
      <4>2. z \in DescRecords
        BY <4>1 DEF Zeroed, DescRecords
      <4>3. UNCHANGED <<qd, activeQueue, linked, queued>> /\ (sd' = sd \/ rpcAllocServerAddr(z))
        BY <3>4, <4>1 DEF SifBindRpc
      <4>. QED  BY <2>0, <4>2, <4>3, SlotListKeeps
    <3>5. CASE SifInitRpcAgain
      BY <2>1, <3>5 DEF SifInitRpcAgain, lists
    <3>6. ASSUME NEW q \in sifOps.queues, NEW d \in sifOps.servers, NEW sid \in Sids,
                 NEW func \in BOOLEAN, SifRegisterRpc(d, sid, q, func)
          PROVE  ListInv'
      BY <3>1, <3>6, RegisterServerKeeps
    <3>7. ASSUME NEW q \in sifOps.queues, NEW d \in sifOps.servers, SifRemoveRpc(d, q)
          PROVE  ListInv'
      BY <3>1, <3>7, RemoveServerKeeps
    <3>8. ASSUME NEW q \in sifOps.queues, SifSetRpcQueue(q) \/ SifRemoveRpcQueue(q)
          PROVE  ListInv'
      BY <3>1, <3>8, SetQueueKeeps, RemoveQueueKeeps
    <3>. QED  BY <2>3, <3>2, <3>3, <3>4, <3>5, <3>6, <3>7, <3>8 DEF SifNext
  <2>. QED  BY <2>2, <2>3 DEF Next, vars
<1>3. ListInv => ListsAsRegistered
  BY ListsSeen DEF ListsAsRegistered
<1>4. ListsAsRegistered /\ ClientFollowsServer => RegistrySound
  BY DEF RegistrySound
<1>. QED  BY <1>1, <1>2, <1>3, <1>4, RpcInvariant, ClientsFollow, PTL DEF Spec

-----------------------------------------------------------------------------
(* The blocks of the heap *)

Blocks == [addr : Nat, size : Nat \ {0}, free : BOOLEAN]

\* The blocks of s follow each other from lo to hi without a gap.
Tiles(s, lo, hi) ==
    /\ s \in Seq(Blocks)
    /\ Len(s) = 0 => lo = hi
    /\ Len(s) # 0 => s[1].addr = lo /\ EndOf(s[Len(s)]) = hi
    /\ \A i \in 1..(Len(s) - 1) : EndOf(s[i]) = s[i + 1].addr

\* No two neighbours are free.
Apart(s) == \A i \in 1..(Len(s) - 1) : ~(s[i].free /\ s[i + 1].free)

\* The block b is in use, with this address and this size.
InUse(b, a, z) == ~b.free /\ b.addr = a /\ b.size = z
Used(s, a, z) == \E i \in 1..Len(s) : InUse(s[i], a, z)

\* A block, its fields.
LEMMA BlockType ==
    ASSUME NEW b \in Blocks
    PROVE  /\ b.addr \in Nat /\ b.size \in Nat /\ b.size > 0 /\ b.free \in BOOLEAN
           /\ EndOf(b) \in Nat /\ EndOf(b) = b.addr + b.size /\ b.addr < EndOf(b)
<1>1. b.addr \in Nat /\ b.size \in Nat \ {0} /\ b.free \in BOOLEAN
  BY DEF Blocks
<1>2. EndOf(b) = b.addr + b.size
  BY DEF EndOf
<1>. QED  BY <1>1, <1>2

\* Two lists, one behind the other.
LEMMA TilesConcat ==
    ASSUME NEW s \in Seq(Blocks), NEW t \in Seq(Blocks)
    PROVE  /\ s \o t \in Seq(Blocks)
           /\ \A lo, mid, hi : Tiles(s, lo, mid) /\ Tiles(t, mid, hi) => Tiles(s \o t, lo, hi)
           /\ Apart(s) /\ Apart(t)
              /\ (Len(s) # 0 /\ Len(t) # 0 => ~(s[Len(s)].free /\ t[1].free)) => Apart(s \o t)
           /\ \A a, z : Used(s \o t, a, z) <=> Used(s, a, z) \/ Used(t, a, z)
<1>1. PICK m \in Nat : m = Len(s)
  OBVIOUS
<1>2. PICK n \in Nat : n = Len(t)
  OBVIOUS
<1>3. PICK u : u = s \o t
  OBVIOUS
<1>4. /\ u \in Seq(Blocks) /\ Len(u) = m + n
      /\ \A i \in 1..m + n : u[i] = IF i <= m THEN s[i] ELSE t[i - m]
  BY <1>1, <1>2, <1>3, ConcatProperties
<1>5. \A i \in 1..m : i \in 1..m + n /\ u[i] = s[i]
  BY <1>4
<1>6. \A i \in 1..n : m + i \in 1..m + n /\ u[m + i] = t[i]
  BY <1>4
<1>7. \A i \in 1..m + n : (i \in 1..m) \/ (i - m \in 1..n /\ u[i] = t[i - m])
  BY <1>4
<1>8. ASSUME NEW i \in 1..(m + n - 1)
      PROVE  \/ i \in 1..(m - 1) /\ u[i] = s[i] /\ u[i + 1] = s[i + 1]
             \/ m # 0 /\ n # 0 /\ u[i] = s[m] /\ u[i + 1] = t[1]
             \/ \E j \in 1..(n - 1) : u[i] = t[j] /\ u[i + 1] = t[j + 1]
  <2>1. CASE i < m
    <3>1. i \in 1..m /\ i + 1 \in 1..m /\ i \in 1..(m - 1)
      BY <2>1
    <3>. QED  BY <3>1, <1>5
  <2>2. CASE i = m
    <3>1. m \in 1..m /\ 1 \in 1..n /\ i + 1 = m + 1
      BY <2>2
    <3>. QED  BY <2>2, <3>1, <1>5, <1>6
  <2>3. CASE i > m
    <3>1. PICK j \in 1..(n - 1) : i = m + j /\ i + 1 = m + (j + 1) /\ j \in 1..n /\ j + 1 \in 1..n
      <4>1. i - m \in 1..(n - 1)
        BY <2>3
      <4>. QED  BY <4>1
    <3>. QED  BY <3>1, <1>6
  <2>. QED  BY <2>1, <2>2, <2>3
<1>9. ASSUME NEW lo, NEW mid, NEW hi, Tiles(s, lo, mid), Tiles(t, mid, hi) PROVE Tiles(u, lo, hi)
  <2>1. /\ m = 0 => lo = mid
        /\ m # 0 => s[1].addr = lo /\ EndOf(s[m]) = mid
        /\ \A i \in 1..(m - 1) : EndOf(s[i]) = s[i + 1].addr
        /\ n = 0 => mid = hi
        /\ n # 0 => t[1].addr = mid /\ EndOf(t[n]) = hi
        /\ \A i \in 1..(n - 1) : EndOf(t[i]) = t[i + 1].addr
    BY <1>1, <1>2, <1>9 DEF Tiles
  <2>2. \A i \in 1..(m + n - 1) : EndOf(u[i]) = u[i + 1].addr
    BY <1>8, <2>1
  <2>3. m + n = 0 => lo = hi
    BY <2>1
  <2>4. m + n # 0 => u[1].addr = lo
    <3>1. CASE m # 0
      BY <3>1, <1>5, <2>1
    <3>2. CASE m = 0 /\ n # 0
      BY <3>2, <1>6, <2>1
    <3>. QED  BY <3>1, <3>2
  <2>5. m + n # 0 => EndOf(u[m + n]) = hi
    <3>1. CASE n # 0
      BY <3>1, <1>6, <2>1
    <3>2. CASE n = 0 /\ m # 0
      BY <3>2, <1>5, <2>1
    <3>. QED  BY <3>1, <3>2
  <2>. QED  BY <1>4, <2>2, <2>3, <2>4, <2>5 DEF Tiles
<1>10. ASSUME Apart(s), Apart(t), m # 0 /\ n # 0 => ~(s[m].free /\ t[1].free) PROVE Apart(u)
  BY <1>1, <1>2, <1>4, <1>8, <1>10 DEF Apart
<1>11. ASSUME NEW a, NEW z PROVE Used(u, a, z) <=> Used(s, a, z) \/ Used(t, a, z)
  BY <1>1, <1>2, <1>4, <1>5, <1>6, <1>7 DEF Used
<1>. QED  BY <1>1, <1>2, <1>3, <1>4, <1>9, <1>10, <1>11

\* Nothing, and one block.
LEMMA TilesOne ==
    ASSUME NEW b \in Blocks
    PROVE  /\ <<b>> \in Seq(Blocks) /\ Len(<<b>>) = 1 /\ <<b>>[1] = b
           /\ Tiles(<<b>>, b.addr, EndOf(b)) /\ Apart(<<b>>)
           /\ \A a, z : Used(<<b>>, a, z) <=> InUse(b, a, z)
<1>1. PICK s : s = <<b>>
  OBVIOUS
<1>2. s \in Seq(Blocks) /\ Len(s) = 1 /\ s[1] = b
  BY <1>1
<1>3. Tiles(s, b.addr, EndOf(b)) /\ Apart(s)
  BY <1>2 DEF Tiles, Apart
<1>4. \A a, z : Used(s, a, z) <=> InUse(b, a, z)
  BY <1>2 DEF Used
<1>. QED  BY <1>1, <1>2, <1>3, <1>4

\* No block.
LEMMA TilesNone ==
    /\ <<>> \in Seq(Blocks) /\ Len(<<>>) = 0 /\ Apart(<<>>)
    /\ \A lo : Tiles(<<>>, lo, lo)
    /\ \A a, z : ~Used(<<>>, a, z)
<1>0. <<>> \in Seq(Blocks) /\ Len(<<>>) = 0
  OBVIOUS
<1>1. PICK s : s = <<>> /\ s \in Seq(Blocks) /\ Len(s) = 0
  BY <1>0
<1>2. \A i : i \notin 1..0 /\ i \notin 1..(0 - 1)
  OBVIOUS
<1>3. Apart(s) /\ \A lo : Tiles(s, lo, lo)
  BY <1>1, <1>2 DEF Apart, Tiles
<1>4. \A a, z : ~Used(s, a, z)
  BY <1>1, <1>2 DEF Used
<1>. QED  BY <1>1, <1>3, <1>4

\* The blocks of a list are in the order of their addresses, and within its ends.
LEMMA TilesOrder ==
    ASSUME NEW s, NEW lo \in Nat, NEW hi \in Nat, Tiles(s, lo, hi)
    PROVE  /\ \A i, j \in 1..Len(s) : i < j => EndOf(s[i]) <= s[j].addr
           /\ \A i \in 1..Len(s) : lo <= s[i].addr /\ EndOf(s[i]) <= hi
<1>1. s \in Seq(Blocks) /\ \A i \in 1..(Len(s) - 1) : EndOf(s[i]) = s[i + 1].addr
  BY DEF Tiles
<1>2. PICK n \in Nat : n = Len(s)
  BY <1>1
<1>3. \A i \in 1..n : s[i] \in Blocks
  BY <1>1, <1>2
<1>4. PICK at : at = [i \in 1..n |-> s[i].addr]
  OBVIOUS
<1>5. PICK end : end = [i \in 1..n |-> EndOf(s[i])]
  OBVIOUS
<1>6. /\ \A i \in 1..n : at[i] \in Nat /\ end[i] \in Nat /\ at[i] < end[i]
      /\ \A i \in 1..n : at[i] = s[i].addr /\ end[i] = EndOf(s[i])
      /\ \A i \in 1..(n - 1) : end[i] = at[i + 1]
  <2>1. \A i \in 1..n : at[i] = s[i].addr /\ end[i] = EndOf(s[i])
    BY <1>4, <1>5
  <2>2. \A i \in 1..n : s[i].addr \in Nat /\ EndOf(s[i]) \in Nat /\ s[i].addr < EndOf(s[i])
    BY <1>3, BlockType
  <2>3. \A i \in 1..(n - 1) : i \in 1..n /\ i + 1 \in 1..n /\ EndOf(s[i]) = s[i + 1].addr
    BY <1>1, <1>2
  <2>. QED  BY <2>1, <2>2, <2>3
<1> DEFINE Good == {k \in 0..n : \A i, j \in 1..k : i < j => end[i] <= at[j]}
<1>7. \A k \in 0..n : k \in Good
  <2>1. 0 \in Good
    OBVIOUS
  <2>2. ASSUME NEW k \in 1..n, k - 1 \in Good PROVE k \in Good
    <3>. SUFFICES ASSUME NEW i \in 1..k, NEW j \in 1..k, i < j PROVE end[i] <= at[j]
      OBVIOUS
    <3>1. \A x, y \in 1..(k - 1) : x < y => end[x] <= at[y]
      BY <2>2
    <3>. HIDE DEF Good
    <3>2. CASE j < k
      <4>1. i \in 1..(k - 1) /\ j \in 1..(k - 1)
        BY <3>2
      <4>. QED  BY <3>1, <4>1
    <3>3. CASE j = k /\ i = k - 1
      <4>1. i \in 1..(n - 1) /\ i + 1 = k
        BY <3>3
      <4>2. end[i] = at[k] /\ at[k] \in Nat
        BY <1>6, <4>1
      <4>. QED  BY <3>3, <4>2
    <3>4. CASE j = k /\ i < k - 1
      <4>1. i \in 1..(k - 1) /\ k - 1 \in 1..(k - 1) /\ k - 1 \in 1..(n - 1) /\ (k - 1) + 1 = k
        BY <3>4
      <4>2. end[i] <= at[k - 1] /\ end[k - 1] = at[k]
        BY <1>6, <3>1, <3>4, <4>1
      <4>3. k - 1 \in 1..n /\ k \in 1..n /\ i \in 1..n
        BY <4>1
      <4>4. end[i] \in Nat /\ at[k - 1] \in Nat /\ end[k - 1] \in Nat /\ at[k - 1] < end[k - 1]
        BY <1>6, <4>3
      <4>. QED  BY <3>4, <4>2, <4>4
    <3>. QED  BY <3>2, <3>3, <3>4
  <2>. HIDE DEF Good
  <2>. QED  BY <2>1, <2>2, Upwards
<1>8. \A i, j \in 1..n : i < j => end[i] <= at[j]
  BY <1>7
<1>9. ASSUME NEW i \in 1..n PROVE lo <= at[i] /\ end[i] <= hi
  <2>1. at[1] = lo /\ end[n] = hi /\ 1 \in 1..n /\ n \in 1..n
    BY <1>2, <1>6 DEF Tiles
  <2>2. at[i] \in Nat /\ end[i] \in Nat /\ end[1] \in Nat /\ at[1] < end[1] /\ at[n] < end[n]
        /\ at[n] \in Nat
    BY <1>6, <2>1
  <2>3. lo <= at[i]
    <3>1. CASE i = 1
      BY <2>1, <3>1
    <3>2. CASE 1 < i
      <4>1. end[1] <= at[i]
        BY <1>8, <2>1, <3>2
      <4>. QED  BY <2>1, <2>2, <4>1
    <3>. QED  BY <3>1, <3>2
  <2>4. end[i] <= hi
    <3>1. CASE i = n
      BY <2>1, <3>1
    <3>2. CASE i < n
      <4>1. end[i] <= at[n]
        BY <1>8, <2>1, <3>2
      <4>. QED  BY <2>1, <2>2, <4>1
    <3>. QED  BY <3>1, <3>2
  <2>. QED  BY <2>3, <2>4
<1>. QED  BY <1>2, <1>6, <1>8, <1>9

\* A list and the parts before and behind its i-th block.
LEMMA TilesSplit ==
    ASSUME NEW s, NEW lo, NEW hi, Tiles(s, lo, hi), NEW i \in 1..Len(s)
    PROVE  LET p == SubSeq(s, 1, i - 1)
               q == SubSeq(s, i + 1, Len(s))
           IN  /\ Tiles(p, lo, s[i].addr) /\ Tiles(q, EndOf(s[i]), hi)
               /\ Apart(s) => Apart(p) /\ Apart(q)
               /\ Len(p) # 0 => i - 1 \in 1..Len(s) /\ p[Len(p)] = s[i - 1]
               /\ Len(q) # 0 => i + 1 \in 1..Len(s) /\ q[1] = s[i + 1]
               /\ \A a, z : Used(s, a, z) <=> Used(p, a, z) \/ InUse(s[i], a, z) \/ Used(q, a, z)
<1>1. /\ s \in Seq(Blocks) /\ \A j \in 1..(Len(s) - 1) : EndOf(s[j]) = s[j + 1].addr
      /\ Len(s) # 0 => s[1].addr = lo /\ EndOf(s[Len(s)]) = hi
  BY DEF Tiles
<1>2. PICK n \in Nat : n = Len(s)
  BY <1>1
<1>3. i \in 1..n /\ i \in Int
  BY <1>2
<1>4. \A j \in 1..n : s[j] \in Blocks
  BY <1>1, <1>2
<1>5. PICK p : p = SubSeq(s, 1, i - 1)
  OBVIOUS
<1>6. PICK q : q = SubSeq(s, i + 1, Len(s))
  OBVIOUS
<1>7. p \in Seq(Blocks) /\ Len(p) = i - 1 /\ \A j \in 1..i - 1 : p[j] = s[j]
  BY <1>1, <1>2, <1>3, <1>5, SubSeqProperties, \A j \in 1..i - 1 : s[j] \in Blocks
<1>8. q \in Seq(Blocks) /\ Len(q) = n - i /\ \A j \in 1..n - i : q[j] = s[i + j]
  BY <1>1, <1>2, <1>3, <1>6, SubSeqProperties, \A j \in i + 1..Len(s) : s[j] \in Blocks
<1>9. PICK m \in Nat : m = i - 1
  BY <1>3
<1>10. PICK k \in Nat : k = n - i
  BY <1>3
<1>11. /\ \A j \in 1..(m - 1) : j \in 1..m /\ j + 1 \in 1..m /\ j \in 1..(n - 1)
       /\ \A j \in 1..(k - 1) : /\ j \in 1..k /\ j + 1 \in 1..k /\ i + j \in 1..(n - 1)
                               /\ i + (j + 1) = (i + j) + 1
       /\ m # 0 => m \in 1..m /\ 1 \in 1..m /\ m \in 1..(n - 1) /\ m \in 1..n /\ m + 1 = i
       /\ k # 0 => k \in 1..k /\ 1 \in 1..k /\ i \in 1..(n - 1) /\ i + 1 \in 1..n /\ i + k = n
       /\ m = 0 => i = 1
       /\ k = 0 => i = n
  BY <1>3, <1>9, <1>10
<1>12. Tiles(p, lo, s[i].addr)
  <2>1. \A j \in 1..(m - 1) : EndOf(p[j]) = p[j + 1].addr
    BY <1>1, <1>2, <1>7, <1>9, <1>11
  <2>2. m = 0 => lo = s[i].addr
    BY <1>1, <1>2, <1>11
  <2>3. m # 0 => p[1].addr = lo /\ EndOf(p[m]) = s[i].addr
    BY <1>1, <1>2, <1>7, <1>9, <1>11
  <2>. QED  BY <1>7, <1>9, <2>1, <2>2, <2>3 DEF Tiles
<1>13. Tiles(q, EndOf(s[i]), hi)
  <2>1. ASSUME NEW j \in 1..(k - 1) PROVE EndOf(q[j]) = q[j + 1].addr
    <3>1. j \in 1..k /\ j + 1 \in 1..k /\ i + j \in 1..(n - 1) /\ i + (j + 1) = (i + j) + 1
      BY <1>11
    <3>2. q[j] = s[i + j] /\ q[j + 1] = s[i + (j + 1)]
      BY <1>8, <1>10, <3>1
    <3>3. EndOf(s[i + j]) = s[(i + j) + 1].addr
      BY <1>1, <1>2, <3>1
    <3>. QED  BY <3>1, <3>2, <3>3
  <2>2. k = 0 => EndOf(s[i]) = hi
    BY <1>1, <1>2, <1>11
  <2>3. ASSUME k # 0 PROVE q[1].addr = EndOf(s[i]) /\ EndOf(q[k]) = hi
    <3>1. k \in 1..k /\ 1 \in 1..k /\ i \in 1..(n - 1) /\ i + k = n /\ n # 0
      BY <1>3, <1>11, <2>3
    <3>2. q[1] = s[i + 1] /\ q[k] = s[n]
      BY <1>8, <1>10, <3>1
    <3>3. EndOf(s[i]) = s[i + 1].addr /\ EndOf(s[n]) = hi
      BY <1>1, <1>2, <3>1
    <3>. QED  BY <3>2, <3>3
  <2>. QED  BY <1>8, <1>10, <2>1, <2>2, <2>3 DEF Tiles
<1>14. Apart(s) => Apart(p)
  <2>. SUFFICES ASSUME Apart(s), NEW j \in 1..(m - 1) PROVE ~(p[j].free /\ p[j + 1].free)
    BY <1>7, <1>9 DEF Apart
  <2>1. j \in 1..m /\ j + 1 \in 1..m /\ j \in 1..(n - 1)
    BY <1>11
  <2>2. ~(s[j].free /\ s[j + 1].free) /\ p[j] = s[j] /\ p[j + 1] = s[j + 1]
    BY <1>2, <1>7, <1>9, <2>1 DEF Apart
  <2>. QED  BY <2>2
<1>15. Apart(s) => Apart(q)
  <2>. SUFFICES ASSUME Apart(s), NEW j \in 1..(k - 1) PROVE ~(q[j].free /\ q[j + 1].free)
    BY <1>8, <1>10 DEF Apart
  <2>1. j \in 1..k /\ j + 1 \in 1..k /\ i + j \in 1..(n - 1) /\ i + (j + 1) = (i + j) + 1
    BY <1>11
  <2>2. ~(s[i + j].free /\ s[(i + j) + 1].free) /\ q[j] = s[i + j] /\ q[j + 1] = s[i + (j + 1)]
    BY <1>2, <1>8, <1>10, <2>1 DEF Apart
  <2>. QED  BY <2>1, <2>2
<1>16. ASSUME NEW a, NEW z
       PROVE  Used(s, a, z) <=> Used(p, a, z) \/ InUse(s[i], a, z) \/ Used(q, a, z)
  <2>1. \A j \in 1..n : j = i \/ (j \in 1..m) \/ (j - i \in 1..k /\ i + (j - i) = j)
    BY <1>3, <1>9, <1>10
  <2>2. \A j \in 1..m : j \in 1..n /\ p[j] = s[j]
    BY <1>3, <1>7, <1>9
  <2>3. \A j \in 1..k : i + j \in 1..n /\ q[j] = s[i + j]
    BY <1>3, <1>8, <1>10
  <2>4. ASSUME Used(s, a, z) PROVE Used(p, a, z) \/ InUse(s[i], a, z) \/ Used(q, a, z)
    <3>1. PICK j \in 1..n : InUse(s[j], a, z)
      BY <1>2, <2>4 DEF Used
    <3>2. CASE j \in 1..m
      BY <1>7, <1>9, <2>2, <3>1, <3>2 DEF Used
    <3>3. CASE j - i \in 1..k /\ i + (j - i) = j
      BY <1>8, <1>10, <2>3, <3>1, <3>3 DEF Used
    <3>. QED  BY <2>1, <3>1, <3>2, <3>3
  <2>5. ASSUME Used(p, a, z) PROVE Used(s, a, z)
    BY <1>2, <1>7, <1>9, <2>2, <2>5 DEF Used
  <2>6. ASSUME Used(q, a, z) PROVE Used(s, a, z)
    BY <1>2, <1>8, <1>10, <2>3, <2>6 DEF Used
  <2>7. ASSUME InUse(s[i], a, z) PROVE Used(s, a, z)
    BY <2>7 DEF Used
  <2>. QED  BY <2>4, <2>5, <2>6, <2>7
<1>17. Len(p) # 0 => i - 1 \in 1..Len(s) /\ p[Len(p)] = s[i - 1]
  BY <1>2, <1>7, <1>9, <1>11
<1>18. Len(q) # 0 => i + 1 \in 1..Len(s) /\ q[1] = s[i + 1]
  BY <1>2, <1>8, <1>10, <1>11
<1>. QED  BY <1>5, <1>6, <1>12, <1>13, <1>14, <1>15, <1>16, <1>17, <1>18, Zenon

\* The i-th block of s gives way to e.
LEMMA ReplacedBlock ==
    ASSUME NEW s \in Seq(Blocks), NEW i \in 1..Len(s), NEW e \in Blocks
    PROVE  LET t == [s EXCEPT ![i] = e]
           IN  /\ t \in Seq(Blocks) /\ Len(t) = Len(s) /\ t[i] = e
               /\ \A j \in 1..Len(s) : j # i => t[j] = s[j]
<1>1. PICK n \in Nat : n = Len(s)
  OBVIOUS
<1>2. PICK t : t = [s EXCEPT ![i] = e]
  OBVIOUS
<1>3. s \in [1..n -> Blocks] /\ i \in 1..n
  BY <1>1
<1>4. t \in [1..n -> Blocks] /\ t[i] = e /\ \A j \in 1..n : j # i => t[j] = s[j]
  BY <1>2, <1>3
<1>5. t \in Seq(Blocks) /\ Len(t) = n
  BY <1>4
<1>. QED  BY <1>1, <1>2, <1>4, <1>5

\* A block joined to a list of blocks is a list of blocks.
LEMMA MergedType ==
    ASSUME NEW acc \in Seq(Blocks), NEW b \in Blocks
    PROVE  Merged(acc, b) \in Seq(Blocks)
<1>1. CASE acc # <<>> /\ Last(acc).free /\ b.free /\ EndOf(Last(acc)) = b.addr
  <2>1. PICK k \in 1..Len(acc) : k = Len(acc)
    BY <1>1
  <2>2. PICK e : e = [acc[k] EXCEPT !.size = acc[k].size + b.size]
    OBVIOUS
  <2>3. acc[k] \in Blocks
    OBVIOUS
  <2>4. e \in Blocks
    <3>1. PICK z \in Nat \ {0} : z = acc[k].size + b.size
      BY <2>3, BlockType
    <3>. QED  BY <2>2, <2>3, <3>1 DEF Blocks
  <2>5. Merged(acc, b) = [acc EXCEPT ![k] = e]
    BY <1>1, <2>1, <2>2 DEF Merged
  <2>. QED  BY <2>1, <2>4, <2>5, ReplacedBlock
<1>2. CASE ~(acc # <<>> /\ Last(acc).free /\ b.free /\ EndOf(Last(acc)) = b.addr)
  <2>1. Merged(acc, b) = Append(acc, b)
    BY <1>2, Zenon DEF Merged
  <2>. QED  BY <2>1
<1>. QED  BY <1>1, <1>2

\* MergedUpTo is what its definition says.
LEMMA MergedSteps ==
    ASSUME NEW bs \in Seq(Blocks)
    PROVE  /\ MergedUpTo(bs) \in [0..Len(bs) -> Seq(Blocks)]
           /\ MergedUpTo(bs)[0] = <<>>
           /\ \A n \in 1..Len(bs) : MergedUpTo(bs)[n] = Merged(MergedUpTo(bs)[n - 1], bs[n])
<1> DEFINE V == Seq(Blocks)
           step == [n \in 1..Len(bs) |-> [v \in V |-> Merged(v, bs[n])]]
<1>1. ASSUME NEW n \in 1..Len(bs), NEW v \in V PROVE Merged(v, bs[n]) \in V
  <2>1. bs[n] \in Blocks
    OBVIOUS
  <2>. QED  BY <2>1, MergedType
<1>2. step \in [1..Len(bs) -> [V -> V]] /\ <<>> \in V /\ Len(bs) \in Nat
  BY <1>1
<1>3. \A n \in 1..Len(bs) : \A v \in V : step[n][v] = Merged(v, bs[n])
  OBVIOUS
<1>. HIDE DEF step, V
<1>4. PICK f \in [0..Len(bs) -> V] : Stepwise(f, Len(bs), <<>>, step)
  BY <1>2, Recursion
<1>5. f = [n \in 0..Len(bs) |-> IF n = 0 THEN <<>> ELSE Merged(f[n - 1], bs[n])]
  BY <1>2, <1>3, <1>4 DEF Stepwise
<1>6. PICK g : g = MergedUpTo(bs)
  OBVIOUS
<1>7. g = [n \in 0..Len(bs) |-> IF n = 0 THEN <<>> ELSE Merged(g[n - 1], bs[n])]
  BY <1>5, <1>6 DEF MergedUpTo
<1>8. g = [n \in 0..Len(bs) |-> g[n]]
  BY <1>7
<1>9. g[0] = <<>> /\ \A n \in 1..Len(bs) : g[n] = Merged(g[n - 1], bs[n])
  <2>1. PICK m \in Nat : m = Len(bs)
    BY <1>2
  <2>. QED  BY <1>7, <2>1
<1>10. g \in [0..Len(bs) -> V]
  <2>1. g[0] \in V /\ \A n \in 1..Len(bs) : g[n - 1] \in V => g[n] \in V
    BY <1>1, <1>2, <1>9
  <2>. QED  BY <1>2, <1>8, <2>1, StepwiseType
<1>. QED  BY <1>6, <1>9, <1>10 DEF V

\* One block more.
LEMMA MergedKeeps ==
    ASSUME NEW acc, NEW lo, NEW b \in Blocks, Tiles(acc, lo, b.addr), Apart(acc)
    PROVE  /\ Tiles(Merged(acc, b), lo, EndOf(b)) /\ Apart(Merged(acc, b))
           /\ \A a, z : Used(Merged(acc, b), a, z) <=> Used(acc, a, z) \/ InUse(b, a, z)
<1>0. acc \in Seq(Blocks)
  BY DEF Tiles
<1>1. CASE acc # <<>> /\ Last(acc).free /\ b.free /\ EndOf(Last(acc)) = b.addr
  <2>1. PICK k \in 1..Len(acc) : k = Len(acc)
    BY <1>0, <1>1
  <2>2. PICK e : e = [acc[k] EXCEPT !.size = acc[k].size + b.size]
    OBVIOUS
  <2>3. acc[k] \in Blocks /\ acc[k].free /\ EndOf(acc[k]) = b.addr
    BY <1>0, <1>1, <2>1 DEF Last
  <2>4. e \in Blocks /\ e.free /\ e.addr = acc[k].addr /\ e.size = acc[k].size + b.size
    <3>1. PICK z \in Nat \ {0} : z = acc[k].size + b.size
      BY <2>3, BlockType
    <3>. QED  BY <2>2, <2>3, <3>1 DEF Blocks
  <2>5. EndOf(e) = EndOf(b)
    <3>1. EndOf(e) = acc[k].addr + (acc[k].size + b.size)
          /\ EndOf(b) = (acc[k].addr + acc[k].size) + b.size
      BY <2>3, <2>4 DEF EndOf
    <3>2. acc[k].addr \in Nat /\ acc[k].size \in Nat /\ b.size \in Nat
      BY <2>3, BlockType
    <3>. QED  BY <3>1, <3>2
  <2>6. PICK t : t = Merged(acc, b)
    OBVIOUS
  <2>7. t = [acc EXCEPT ![k] = e]
    BY <1>1, <2>1, <2>2, <2>6 DEF Merged
  <2>8. PICK n \in Nat : n = Len(acc) /\ n = k /\ n # 0
    BY <1>0, <2>1
  <2>9. t \in Seq(Blocks) /\ Len(t) = n /\ t[n] = e /\ \A j \in 1..n : j # n => t[j] = acc[j]
    <3>1. /\ t \in Seq(Blocks) /\ Len(t) = Len(acc) /\ t[k] = e
          /\ \A j \in 1..Len(acc) : j # k => t[j] = acc[j]
      BY <1>0, <2>4, <2>7, ReplacedBlock
    <3>. QED  BY <2>8, <3>1
  <2>10. Tiles(t, lo, EndOf(b))
    <3>1. /\ acc[1].addr = lo
          /\ \A i \in 1..(n - 1) : EndOf(acc[i]) = acc[i + 1].addr
      BY <2>8 DEF Tiles
    <3>2. \A i \in 1..(n - 1) : i \in 1..n /\ i # n /\ i + 1 \in 1..n
      OBVIOUS
    <3>3. \A i \in 1..n : t[i].addr = acc[i].addr
      BY <2>4, <2>8, <2>9
    <3>4. \A i \in 1..(n - 1) : EndOf(t[i]) = t[i + 1].addr
      BY <2>9, <3>1, <3>2, <3>3
    <3>5. t[1].addr = lo
      BY <2>8, <3>1, <3>3
    <3>. QED  BY <2>5, <2>8, <2>9, <3>4, <3>5 DEF Tiles
  <2>11. Apart(t)
    <3>1. \A i \in 1..n : t[i].free = acc[i].free
      BY <2>3, <2>4, <2>8, <2>9, BlockType
    <3>2. \A i \in 1..(n - 1) : i \in 1..n /\ i + 1 \in 1..n
      OBVIOUS
    <3>. QED  BY <2>8, <2>9, <3>1, <3>2 DEF Apart
  <2>12. ASSUME NEW a, NEW z PROVE Used(t, a, z) <=> Used(acc, a, z) \/ InUse(b, a, z)
    <3>1. ~InUse(b, a, z) /\ ~InUse(e, a, z) /\ ~InUse(acc[n], a, z)
      BY <1>1, <2>3, <2>4, <2>8 DEF InUse
    <3>2. \A i \in 1..n : InUse(t[i], a, z) <=> InUse(acc[i], a, z)
      BY <2>9, <3>1
    <3>. QED  BY <2>8, <2>9, <3>1, <3>2 DEF Used
  <2>. QED  BY <2>6, <2>10, <2>11, <2>12
<1>2. CASE ~(acc # <<>> /\ Last(acc).free /\ b.free /\ EndOf(Last(acc)) = b.addr)
  <2>1. Merged(acc, b) = Append(acc, b)
    BY <1>2, Zenon DEF Merged
  <2>2. Append(acc, b) = acc \o <<b>>
    BY <1>0, AppendIsConcat
  <2>3. Len(acc) # 0 => ~(acc[Len(acc)].free /\ b.free)
    BY <1>0, <1>2 DEF Last, Tiles
  <2>4. /\ <<b>> \in Seq(Blocks) /\ Len(<<b>>) = 1 /\ <<b>>[1] = b
        /\ Tiles(<<b>>, b.addr, EndOf(b)) /\ Apart(<<b>>)
        /\ \A a, z : Used(<<b>>, a, z) <=> InUse(b, a, z)
    BY TilesOne
  <2>5. PICK t : t = <<b>>
    OBVIOUS
  <2>6. /\ t \in Seq(Blocks) /\ t[1] = b /\ Tiles(t, b.addr, EndOf(b)) /\ Apart(t)
        /\ \A a, z : Used(t, a, z) <=> InUse(b, a, z)
    BY <2>4, <2>5
  <2>7. /\ Tiles(acc \o t, lo, EndOf(b)) /\ Apart(acc \o t)
        /\ \A a, z : Used(acc \o t, a, z) <=> Used(acc, a, z) \/ Used(t, a, z)
    BY <1>0, <2>3, <2>6, TilesConcat
  <2>. QED  BY <2>1, <2>2, <2>5, <2>6, <2>7
<1>. QED  BY <1>1, <1>2

\* coalesceGuestHeapLocked: the same ground and the same blocks in use, and no two
\* free neighbours are left.
LEMMA CoalesceKeeps ==
    ASSUME NEW s, NEW lo, NEW hi, Tiles(s, lo, hi)
    PROVE  LET t == coalesceGuestHeapLocked(s)
           IN  /\ Tiles(t, lo, hi) /\ Apart(t)
               /\ \A a, z : Used(t, a, z) <=> Used(s, a, z)
<1>1. s \in Seq(Blocks)
  BY DEF Tiles
<1>2. PICK n \in Nat : n = Len(s)
  BY <1>1
<1>3. PICK g : g = MergedUpTo(s)
  OBVIOUS
<1>4. g[0] = <<>> /\ \A i \in 1..n : g[i] = Merged(g[i - 1], s[i])
  BY <1>1, <1>2, <1>3, MergedSteps
<1>5. /\ \A i \in 1..n : s[i] \in Blocks
      /\ n = 0 => lo = hi
      /\ n # 0 => s[1].addr = lo /\ EndOf(s[n]) = hi
      /\ \A i \in 1..(n - 1) : EndOf(s[i]) = s[i + 1].addr
  BY <1>1, <1>2 DEF Tiles
<1> DEFINE To(k) == IF k = n THEN hi ELSE s[k + 1].addr
           Same(k) == \A a, z : Used(g[k], a, z) <=> \E i \in 1..k : InUse(s[i], a, z)
           Good == {k \in 0..n : Tiles(g[k], lo, To(k)) /\ Apart(g[k]) /\ Same(k)}
<1>6. 0 \in Good
  <2>1. lo = To(0)
    BY <1>5
  <2>2. Same(0)
    <3>1. \A i : i \notin 1..0
      OBVIOUS
    <3>. QED  BY <1>4, <3>1, TilesNone
  <2>3. Tiles(g[0], lo, To(0)) /\ Apart(g[0])
    BY <1>4, <2>1, TilesNone
  <2>. HIDE DEF To, Same
  <2>. QED  BY <2>2, <2>3
<1>7. ASSUME NEW k \in 1..n, k - 1 \in Good PROVE k \in Good
  <2>0. Tiles(g[k - 1], lo, To(k - 1)) /\ Apart(g[k - 1]) /\ Same(k - 1)
    <3>. HIDE DEF To, Same
    <3>. QED  BY <1>7
  <2>1. To(k - 1) = s[k].addr
    OBVIOUS
  <2>2. To(k) = EndOf(s[k])
    BY <1>5
  <2>. HIDE DEF To, Same, Good
  <2>3. PICK b \in Blocks : b = s[k]
    BY <1>5
  <2>4. PICK acc : acc = g[k - 1]
    OBVIOUS
  <2>5. g[k] = Merged(acc, b)
    BY <1>4, <2>3, <2>4
  <2>6. Tiles(acc, lo, b.addr) /\ Apart(acc)
    BY <2>0, <2>1, <2>3, <2>4
  <2>7. /\ Tiles(g[k], lo, EndOf(b)) /\ Apart(g[k])
        /\ \A a, z : Used(g[k], a, z) <=> Used(acc, a, z) \/ InUse(b, a, z)
    BY <2>5, <2>6, MergedKeeps
  <2>8. \A i : i \in 1..k <=> i \in 1..(k - 1) \/ i = k
    OBVIOUS
  <2>9. Same(k)
    BY <2>0, <2>3, <2>4, <2>7, <2>8 DEF Same
  <2>. QED  BY <2>2, <2>3, <2>7, <2>9 DEF Good
<1>8. n \in Good
  <2>. HIDE DEF Good
  <2>1. n \in 0..n
    OBVIOUS
  <2>. QED  BY <1>6, <1>7, <2>1, Upwards
<1>9. Tiles(g[n], lo, hi) /\ Apart(g[n]) /\ Same(n)
  <2>1. To(n) = hi
    OBVIOUS
  <2>. HIDE DEF To, Same
  <2>. QED  BY <1>8, <2>1
<1>10. \A a, z : Used(s, a, z) <=> \E i \in 1..n : InUse(s[i], a, z)
  BY <1>2 DEF Used
<1>11. coalesceGuestHeapLocked(s) = g[n]
  BY <1>2, <1>3 DEF coalesceGuestHeapLocked
<1>. QED  BY <1>9, <1>10, <1>11

\* A block in use lies within the heap, and beside every other block of the list.
LEMMA UsedWithin ==
    ASSUME NEW s, NEW lo \in Nat, NEW hi \in Nat, Tiles(s, lo, hi), NEW a, NEW z, Used(s, a, z)
    PROVE  /\ a \in Nat /\ z \in Nat /\ z > 0 /\ lo <= a /\ a + z <= hi
           /\ \A i \in 1..Len(s) : \/ InUse(s[i], a, z)
                                   \/ a + z <= s[i].addr \/ EndOf(s[i]) <= a
<1>1. PICK k \in 1..Len(s) : InUse(s[k], a, z)
  BY DEF Used
<1>2. s \in Seq(Blocks)
  BY DEF Tiles
<1>3. PICK b \in Blocks : b = s[k]
  BY <1>2
<1>4. b.addr = a /\ b.size = z
  BY <1>1, <1>3 DEF InUse
<1>5. EndOf(s[k]) = a + z /\ s[k].addr = a
  BY <1>3, <1>4 DEF EndOf
<1>6. a \in Nat /\ z \in Nat /\ z > 0
  BY <1>3, <1>4, BlockType
<1>7. /\ \A i, j \in 1..Len(s) : i < j => EndOf(s[i]) <= s[j].addr
      /\ \A i \in 1..Len(s) : lo <= s[i].addr /\ EndOf(s[i]) <= hi
  BY TilesOrder
<1>8. ASSUME NEW i \in 1..Len(s)
      PROVE  InUse(s[i], a, z) \/ a + z <= s[i].addr \/ EndOf(s[i]) <= a
  <2>1. i < k \/ i = k \/ k < i
    OBVIOUS
  <2>. QED  BY <1>1, <1>5, <1>7, <2>1
<1>. QED  BY <1>5, <1>6, <1>7, <1>8

\* findGuestHeapBlockIndexLocked finds the block in use at a.
LEMMA FindsBlock ==
    ASSUME NEW s, NEW lo \in Nat, NEW hi \in Nat, Tiles(s, lo, hi), NEW a, NEW z, Used(s, a, z)
    PROVE  LET i == findGuestHeapBlockIndexLocked(s, a)
           IN  /\ i \in 1..Len(s) /\ InUse(s[i], a, z)
               /\ \A j \in 1..Len(s) : j # i => \A y : ~InUse(s[j], a, y)
<1> DEFINE at == {j \in 1..Len(s) : ~s[j].free /\ s[j].addr = a}
<1>1. at # {}
  BY DEF Used, InUse
<1>2. findGuestHeapBlockIndexLocked(s, a) = Min(at)
  BY <1>1, Zenon DEF findGuestHeapBlockIndexLocked, SelectInSeq
<1>3. PICK i \in 1..Len(s) : i = Min(at) /\ ~s[i].free /\ s[i].addr = a
  <2>1. at \in SUBSET Nat
    OBVIOUS
  <2>2. Min(at) \in at
    BY <1>1, <2>1, MinPosition
  <2>. QED  BY <2>2
<1>4. /\ \A j, k \in 1..Len(s) : j < k => EndOf(s[j]) <= s[k].addr
  BY TilesOrder
<1>5. \A j \in 1..Len(s) : s[j].addr \in Nat /\ EndOf(s[j]) \in Nat /\ s[j].addr < EndOf(s[j])
  <2>1. s \in Seq(Blocks)
    BY DEF Tiles
  <2>2. \A j \in 1..Len(s) : s[j] \in Blocks
    BY <2>1
  <2>. QED  BY <2>2, BlockType
<1>6. ASSUME NEW j \in 1..Len(s), j # i PROVE s[j].addr # a
  <2>1. j < i \/ i < j
    BY <1>6
  <2>. QED  BY <1>3, <1>4, <1>5, <2>1
<1>7. \A j \in 1..Len(s) : j # i => \A y : ~InUse(s[j], a, y)
  BY <1>6 DEF InUse
<1>8. InUse(s[i], a, z)
  BY <1>7 DEF Used
<1>. QED  BY <1>2, <1>3, <1>7, <1>8

\* freeGuestBlockLocked: the same ground without the block in use at a.
LEMMA FreeKeeps ==
    ASSUME NEW s, NEW lo \in Nat, NEW hi \in Nat, Tiles(s, lo, hi), NEW a, NEW z, Used(s, a, z)
    PROVE  LET t == freeGuestBlockLocked(s, a)
           IN  /\ Tiles(t, lo, hi) /\ Apart(t)
               /\ \A x, y : Used(t, x, y) <=> Used(s, x, y) /\ x # a
<1>1. PICK i : i = findGuestHeapBlockIndexLocked(s, a)
  OBVIOUS
<1>2. /\ i \in 1..Len(s) /\ InUse(s[i], a, z)
      /\ \A j \in 1..Len(s) : j # i => \A y : ~InUse(s[j], a, y)
  BY <1>1, FindsBlock
<1>3. s \in Seq(Blocks)
  BY DEF Tiles
<1>4. PICK n \in Nat : n = Len(s)
  BY <1>3
<1>5. PICK b \in Blocks : b = s[i]
  BY <1>2, <1>3
<1>6. PICK e : e = [s[i] EXCEPT !.free = TRUE]
  OBVIOUS
<1>7. e \in Blocks /\ e.free /\ e.addr = s[i].addr /\ e.size = s[i].size
  BY <1>5, <1>6 DEF Blocks
<1>8. PICK t : t = [s EXCEPT ![i] = e]
  OBVIOUS
<1>9. /\ t \in Seq(Blocks) /\ Len(t) = n /\ t[i] = e /\ i \in 1..n
      /\ \A j \in 1..n : j # i => t[j] = s[j]
  BY <1>2, <1>3, <1>4, <1>7, <1>8, ReplacedBlock
<1>10. Tiles(t, lo, hi)
  <2>1. /\ s[1].addr = lo /\ EndOf(s[n]) = hi /\ n # 0
        /\ \A j \in 1..(n - 1) : EndOf(s[j]) = s[j + 1].addr
    BY <1>4, <1>9 DEF Tiles
  <2>2. EndOf(e) = EndOf(s[i])
    BY <1>7 DEF EndOf
  <2>3. \A j \in 1..n : t[j].addr = s[j].addr /\ EndOf(t[j]) = EndOf(s[j])
    BY <1>7, <1>9, <2>2
  <2>4. 1 \in 1..n /\ n \in 1..n /\ \A j \in 1..(n - 1) : j \in 1..n /\ j + 1 \in 1..n
    BY <2>1
  <2>5. \A j \in 1..(n - 1) : EndOf(t[j]) = t[j + 1].addr
    BY <2>1, <2>3, <2>4
  <2>6. t[1].addr = lo /\ EndOf(t[n]) = hi
    BY <2>1, <2>3, <2>4
  <2>. QED  BY <1>9, <2>1, <2>5, <2>6 DEF Tiles
<1>11. ASSUME NEW x, NEW y PROVE Used(t, x, y) <=> Used(s, x, y) /\ x # a
  <2>1. ~InUse(e, x, y)
    BY <1>7 DEF InUse
  <2>2. InUse(s[i], x, y) => x = a
    BY <1>2 DEF InUse
  <2>3. ASSUME Used(t, x, y) PROVE Used(s, x, y) /\ x # a
    <3>1. PICK j \in 1..n : InUse(t[j], x, y)
      BY <1>9, <2>3 DEF Used
    <3>2. j # i /\ t[j] = s[j]
      BY <1>9, <2>1, <3>1
    <3>. QED  BY <1>2, <1>4, <3>1, <3>2 DEF Used
  <2>4. ASSUME Used(s, x, y), x # a PROVE Used(t, x, y)
    <3>1. PICK j \in 1..n : InUse(s[j], x, y)
      BY <1>4, <2>4 DEF Used
    <3>2. j # i
      BY <2>2, <2>4, <3>1
    <3>. QED  BY <1>9, <3>1, <3>2 DEF Used
  <2>. QED  BY <2>3, <2>4
<1>12. freeGuestBlockLocked(s, a) = coalesceGuestHeapLocked(t)
  <2>1. i # 0
    BY <1>2
  <2>2. t = [s EXCEPT ![i].free = TRUE]
    BY <1>6, <1>8
  <2>. QED  BY <1>1, <2>1, <2>2, Zenon DEF freeGuestBlockLocked
<1>13. PICK u : u = coalesceGuestHeapLocked(t)
  OBVIOUS
<1>14. /\ Tiles(u, lo, hi) /\ Apart(u) /\ \A x, y : Used(u, x, y) <=> Used(t, x, y)
  BY <1>10, <1>13, CoalesceKeeps
<1>. QED  BY <1>11, <1>12, <1>13, <1>14

-----------------------------------------------------------------------------
\* Rounding up and down to a multiple of a.
LEMMA Rounds ==
    ASSUME NEW a \in Nat \ {0}, NEW x \in Nat
    PROVE  (x \div a) * a \in Nat /\ (x \div a) * a <= x /\ x < (x \div a) * a + a
<1>1. PICK q \in Int : q = x \div a
  OBVIOUS
<1>2. x = a * q + (x % a) /\ x % a \in 0..(a - 1)
  BY <1>1
<1>3. q \in Nat
  BY <1>1
<1>4. q * a = a * q /\ q * a \in Nat
  BY <1>3
<1>. QED  BY <1>1, <1>2, <1>4

\* The size an allocation is rounded up to.
LEMMA AlignedSize ==
    ASSUME NEW size \in Nat, size > 0, size <= MaxWord - (HeapAlign - 1)
    PROVE  /\ alignGuestHeapValue(size, HeapAlign) \in Nat
           /\ alignGuestHeapValue(size, HeapAlign) >= size
<1>1. HeapAlign \in Nat \ {0} /\ MaxWord \in Nat
  BY GuestHeapAssumption
<1>2. PICK x \in Nat : x = size + HeapAlign - 1
  BY <1>1
<1>3. alignGuestHeapValue(size, HeapAlign) = (x \div HeapAlign) * HeapAlign
  BY <1>1, <1>2 DEF alignGuestHeapValue
<1>4. PICK n : n = (x \div HeapAlign) * HeapAlign
  OBVIOUS
<1>5. n \in Nat /\ x < n + HeapAlign
  BY <1>1, <1>4, Rounds
<1>. QED  BY <1>1, <1>2, <1>3, <1>4, <1>5

\* What is left of a free block before or behind an allocation.
LEMMA RestBlock ==
    ASSUME NEW from \in Nat, NEW to \in Nat, from <= to
    PROVE  LET s == IF from < to THEN <<[addr |-> from, size |-> to - from, free |-> TRUE]>>
                    ELSE <<>>
           IN  /\ s \in Seq(Blocks) /\ Tiles(s, from, to) /\ Apart(s)
               /\ \A a, z : ~Used(s, a, z)
<1>1. CASE from < to
  <2>1. PICK b : b = [addr |-> from, size |-> to - from, free |-> TRUE]
    OBVIOUS
  <2>2. to - from \in Nat \ {0}
    BY <1>1
  <2>3. b \in Blocks /\ b.addr = from /\ b.size = to - from /\ b.free
    BY <2>1, <2>2 DEF Blocks
  <2>4. EndOf(b) = to
    BY <2>3 DEF EndOf
  <2>5. \A a, z : ~InUse(b, a, z)
    BY <2>3 DEF InUse
  <2>6. PICK s : s = <<b>>
    OBVIOUS
  <2>7. s \in Seq(Blocks) /\ Tiles(s, from, to) /\ Apart(s) /\ \A a, z : ~Used(s, a, z)
    BY <2>3, <2>4, <2>5, <2>6, TilesOne
  <2>. QED  BY <1>1, <2>1, <2>6, <2>7, Zenon
<1>2. CASE ~(from < to)
  <2>1. from = to
    BY <1>2
  <2>2. <<>> \in Seq(Blocks) /\ Tiles(<<>>, from, to) /\ Apart(<<>>) /\ \A a, z : ~Used(<<>>, a, z)
    BY <2>1, TilesNone
  <2>. QED  BY <1>2, <2>2, Zenon
<1>. QED  BY <1>1, <1>2

\* A free block of the list that falls into a part u in use and what is left of it.
LEMMA TakenFrom ==
    ASSUME NEW s, NEW lo \in Nat, NEW hi \in Nat, Tiles(s, lo, hi), Apart(s),
           NEW i \in 1..Len(s), s[i].free, NEW u \in Blocks, ~u.free,
           NEW r1 \in Seq(Blocks), NEW r2 \in Seq(Blocks),
           Tiles(r1, s[i].addr, u.addr), Apart(r1), \A a, z : ~Used(r1, a, z),
           Tiles(r2, EndOf(u), EndOf(s[i])), Apart(r2), \A a, z : ~Used(r2, a, z)
    PROVE  LET t == SubSeq(s, 1, i - 1) \o r1 \o <<u>> \o r2 \o SubSeq(s, i + 1, Len(s))
           IN  /\ Tiles(t, lo, hi) /\ Apart(t)
               /\ \A a, z : Used(t, a, z) <=> Used(s, a, z) \/ InUse(u, a, z)
<1>1. PICK p : p = SubSeq(s, 1, i - 1)
  OBVIOUS
<1>2. PICK q : q = SubSeq(s, i + 1, Len(s))
  OBVIOUS
<1>3. /\ Tiles(p, lo, s[i].addr) /\ Tiles(q, EndOf(s[i]), hi) /\ Apart(p) /\ Apart(q)
      /\ Len(p) # 0 => i - 1 \in 1..Len(s) /\ p[Len(p)] = s[i - 1]
      /\ Len(q) # 0 => i + 1 \in 1..Len(s) /\ q[1] = s[i + 1]
      /\ \A a, z : Used(s, a, z) <=> Used(p, a, z) \/ InUse(s[i], a, z) \/ Used(q, a, z)
  BY <1>1, <1>2, TilesSplit
<1>4. p \in Seq(Blocks) /\ q \in Seq(Blocks) /\ s \in Seq(Blocks)
  BY <1>3 DEF Tiles
<1>5. Len(p) # 0 => ~p[Len(p)].free
  <2>. SUFFICES ASSUME Len(p) # 0 PROVE ~p[Len(p)].free
    OBVIOUS
  <2>1. PICK j \in 1..(Len(s) - 1) : j = i - 1 /\ j + 1 = i
    BY <1>3, <1>4
  <2>2. ~(s[j].free /\ s[j + 1].free)
    BY <2>1 DEF Apart
  <2>. QED  BY <1>3, <2>1, <2>2
<1>6. Len(q) # 0 => ~q[1].free
  <2>. SUFFICES ASSUME Len(q) # 0 PROVE ~q[1].free
    OBVIOUS
  <2>1. i \in 1..(Len(s) - 1)
    BY <1>3, <1>4
  <2>2. ~(s[i].free /\ s[i + 1].free)
    BY <2>1 DEF Apart
  <2>. QED  BY <1>3, <2>2
<1>7. \A a, z : ~InUse(s[i], a, z)
  BY DEF InUse
<1>8. PICK x : x = p \o r1
  OBVIOUS
<1>9. /\ x \in Seq(Blocks) /\ Tiles(x, lo, u.addr) /\ Apart(x)
      /\ \A a, z : Used(x, a, z) <=> Used(p, a, z)
  BY <1>3, <1>4, <1>5, <1>8, TilesConcat
<1>10. PICK v : v = <<u>>
  OBVIOUS
<1>11. /\ v \in Seq(Blocks) /\ Len(v) = 1 /\ v[1] = u /\ Tiles(v, u.addr, EndOf(u)) /\ Apart(v)
       /\ \A a, z : Used(v, a, z) <=> InUse(u, a, z)
  BY <1>10, TilesOne
<1>12. PICK y : y = x \o v
  OBVIOUS
<1>13. /\ y \in Seq(Blocks) /\ Tiles(y, lo, EndOf(u)) /\ Apart(y) /\ ~y[Len(y)].free
       /\ \A a, z : Used(y, a, z) <=> Used(p, a, z) \/ InUse(u, a, z)
  <2>1. /\ y \in Seq(Blocks) /\ Tiles(y, lo, EndOf(u))
        /\ \A a, z : Used(y, a, z) <=> Used(x, a, z) \/ Used(v, a, z)
    BY <1>9, <1>11, <1>12, TilesConcat
  <2>2. Apart(y)
    BY <1>9, <1>11, <1>12, TilesConcat
  <2>3. y[Len(y)] = v[Len(v)]
    <3>1. PICK m \in Nat : m = Len(x)
      BY <1>9
    <3>2. PICK n \in Nat : n = Len(v)
      BY <1>11
    <3>3. x \in Seq(Blocks) /\ v \in Seq(Blocks)
      BY <1>9, <1>11
    <3>4. Len(y) = m + n /\ \A j \in 1..m + n : y[j] = IF j <= m THEN x[j] ELSE v[j - m]
      BY <1>12, <3>1, <3>2, <3>3, ConcatProperties
    <3>5. n = 1 /\ m + n \in 1..m + n /\ ~(m + n <= m) /\ (m + n) - m = n
      BY <1>11, <3>2
    <3>. QED  BY <3>2, <3>4, <3>5
  <2>4. ~y[Len(y)].free
    BY <1>11, <2>3
  <2>. QED  BY <1>9, <1>11, <2>1, <2>2, <2>4
<1>14. PICK w : w = y \o r2
  OBVIOUS
<1>15. /\ w \in Seq(Blocks) /\ Tiles(w, lo, EndOf(s[i])) /\ Apart(w)
       /\ \A a, z : Used(w, a, z) <=> Used(p, a, z) \/ InUse(u, a, z)
  BY <1>13, <1>14, TilesConcat
<1>16. PICK t : t = w \o q
  OBVIOUS
<1>17. /\ Tiles(t, lo, hi) /\ Apart(t)
       /\ \A a, z : Used(t, a, z) <=> Used(w, a, z) \/ Used(q, a, z)
  BY <1>3, <1>4, <1>6, <1>15, <1>16, TilesConcat
<1>18. \A a, z : Used(t, a, z) <=> Used(s, a, z) \/ InUse(u, a, z)
  BY <1>3, <1>7, <1>15, <1>17
<1>. QED  BY <1>1, <1>2, <1>8, <1>10, <1>12, <1>14, <1>16, <1>17, <1>18

\* allocateGuestBlockLocked, when it succeeds: one block more in use, on ground that
\* was free.
LEMMA AllocKeeps ==
    ASSUME NEW s, NEW lo \in Nat, NEW hi \in Nat, Tiles(s, lo, hi), Apart(s),
           NEW size \in Nat, NEW al \in Nat \ {0},
           NEW r, r = allocateGuestBlockLocked(s, size, al), r.addr # 0
    PROVE  /\ size > 0 /\ size <= MaxWord - (HeapAlign - 1)
           /\ r.size = alignGuestHeapValue(size, HeapAlign)
           /\ r.addr \in Nat /\ r.size \in Nat /\ r.size > 0
           /\ lo <= r.addr /\ r.addr + r.size <= hi
           /\ Tiles(r.blocks, lo, hi) /\ Apart(r.blocks)
           /\ \A a, z : Used(r.blocks, a, z) <=> Used(s, a, z) \/ (r.addr = a /\ r.size = z)
           /\ \A a, z : Used(s, a, z) => a + z <= r.addr \/ r.addr + r.size <= a
<1> DEFINE n == alignGuestHeapValue(size, HeapAlign)
           fits == {k \in 1..Len(s) : Fits(s[k], n, al)}
           i == CHOOSE k \in fits : \A j \in fits : k <= j
           start == TopFit(s[i], n, al)
           rest(from, to) == IF from < to
                             THEN <<[addr |-> from, size |-> to - from, free |-> TRUE]>> ELSE <<>>
<1>0. r = IF size = 0 \/ size > MaxWord - (HeapAlign - 1) \/ fits = {}
          THEN [blocks |-> s, addr |-> 0, size |-> 0]
          ELSE [blocks |-> SubSeq(s, 1, i - 1) \o rest(s[i].addr, start)
                           \o <<[addr |-> start, size |-> n, free |-> FALSE]>>
                           \o rest(start + n, EndOf(s[i])) \o SubSeq(s, i + 1, Len(s)),
                addr |-> start, size |-> n]
  BY Zenon DEF allocateGuestBlockLocked
<1>1. n = alignGuestHeapValue(size, HeapAlign)
  OBVIOUS
<1>2. \A k : k \in fits <=> k \in 1..Len(s) /\ Fits(s[k], n, al)
  OBVIOUS
<1>3. ~(size = 0 \/ size > MaxWord - (HeapAlign - 1) \/ fits = {})
  <2>. SUFFICES ASSUME size = 0 \/ size > MaxWord - (HeapAlign - 1) \/ fits = {} PROVE FALSE
    OBVIOUS
  <2>1. r = [blocks |-> s, addr |-> 0, size |-> 0]
    BY <1>0
  <2>. QED  BY <2>1
<1>4. HeapAlign \in Nat \ {0} /\ MaxWord \in Nat
  BY GuestHeapAssumption
<1>5. size > 0 /\ size <= MaxWord - (HeapAlign - 1)
  BY <1>3, <1>4
<1>6. n \in Nat /\ n >= size /\ n > 0
  BY <1>1, <1>5, AlignedSize
<1>7. \E k \in fits : \A j \in fits : k <= j
  <2>1. fits \in SUBSET Nat
    BY <1>2
  <2>. HIDE DEF fits
  <2>. QED  BY <1>3, <2>1, MinPosition
<1>8. i \in fits
  <2>. HIDE DEF fits
  <2>. QED  BY <1>7
<1>9. start = TopFit(s[i], n, al)
  OBVIOUS
<1>. HIDE DEF n, fits, i, start
<1>10. i \in 1..Len(s) /\ s[i].free /\ n <= s[i].size /\ start >= s[i].addr
  BY <1>2, <1>8, <1>9 DEF Fits
<1>11. s \in Seq(Blocks)
  BY DEF Tiles
<1>12. PICK b \in Blocks : b = s[i]
  BY <1>10, <1>11
<1>13. /\ b.addr \in Nat /\ b.size \in Nat /\ EndOf(b) \in Nat /\ EndOf(b) = b.addr + b.size
       /\ lo <= b.addr /\ EndOf(b) <= hi
  BY <1>10, <1>12, BlockType, TilesOrder
<1>14. start \in Nat /\ b.addr <= start /\ start + n <= EndOf(b)
  <2>1. PICK x \in Nat : x = EndOf(b) - n
    BY <1>6, <1>10, <1>12, <1>13
  <2>2. start = (x \div al) * al
    BY <1>9, <1>12, <2>1 DEF TopFit
  <2>3. start \in Nat /\ start <= x
    BY <2>2, Rounds
  <2>. QED  BY <1>6, <1>10, <1>12, <1>13, <2>1, <2>3
<1>15. PICK u : u = [addr |-> start, size |-> n, free |-> FALSE]
  OBVIOUS
<1>16. u \in Blocks /\ ~u.free /\ u.addr = start /\ u.size = n
  BY <1>6, <1>14, <1>15 DEF Blocks
<1>17. EndOf(u) = start + n
  BY <1>16 DEF EndOf
<1>18. PICK r1 : r1 = rest(b.addr, start)
  OBVIOUS
<1>19. PICK r2 : r2 = rest(start + n, EndOf(b))
  OBVIOUS
<1>20. r1 \in Seq(Blocks) /\ Tiles(r1, b.addr, start) /\ Apart(r1) /\ \A a, z : ~Used(r1, a, z)
  BY <1>13, <1>14, <1>18, RestBlock
<1>21. /\ r2 \in Seq(Blocks) /\ Tiles(r2, start + n, EndOf(b)) /\ Apart(r2)
       /\ \A a, z : ~Used(r2, a, z)
  <2>1. PICK e \in Nat : e = start + n
    BY <1>6, <1>14
  <2>2. e <= EndOf(b) /\ EndOf(b) \in Nat
    BY <1>13, <1>14, <2>1
  <2>3. r2 = IF e < EndOf(b) THEN <<[addr |-> e, size |-> EndOf(b) - e, free |-> TRUE]>> ELSE <<>>
    BY <1>19, <2>1
  <2>. QED  BY <2>1, <2>2, <2>3, RestBlock
<1>22. PICK t : t = SubSeq(s, 1, i - 1) \o r1 \o <<u>> \o r2 \o SubSeq(s, i + 1, Len(s))
  OBVIOUS
<1>23. r = [blocks |-> t, addr |-> start, size |-> n]
  <2>1. r1 = rest(s[i].addr, start) /\ r2 = rest(start + n, EndOf(s[i]))
    BY <1>12, <1>18, <1>19
  <2>. HIDE DEF rest
  <2>. QED  BY <1>0, <1>3, <1>15, <1>22, <2>1
<1>24. /\ Tiles(t, lo, hi) /\ Apart(t)
       /\ \A a, z : Used(t, a, z) <=> Used(s, a, z) \/ InUse(u, a, z)
  <2>1. Tiles(r1, s[i].addr, u.addr) /\ Tiles(r2, EndOf(u), EndOf(s[i]))
    BY <1>12, <1>16, <1>17, <1>20, <1>21
  <2>. QED  BY <1>10, <1>16, <1>20, <1>21, <1>22, <2>1, TakenFrom
<1>25. \A a, z : InUse(u, a, z) <=> start = a /\ n = z
  BY <1>16 DEF InUse
<1>26. ASSUME NEW a, NEW z, Used(s, a, z) PROVE a + z <= start \/ start + n <= a
  <2>1. ~InUse(s[i], a, z)
    BY <1>10 DEF InUse
  <2>2. a \in Nat /\ z \in Nat /\ (a + z <= s[i].addr \/ EndOf(s[i]) <= a)
    BY <1>10, <1>26, <2>1, UsedWithin
  <2>. QED  BY <1>6, <1>12, <1>13, <1>14, <2>2
<1>27. lo <= start /\ start + n <= hi
  BY <1>6, <1>13, <1>14
<1>28. r.blocks = t /\ r.addr = start /\ r.size = n
  BY <1>23
<1>. QED  BY <1>1, <1>5, <1>6, <1>14, <1>24, <1>25, <1>26, <1>27, <1>28

\* The list after the block in use at a has got the size n.
Resized(s, t, lo, hi, a, n) ==
    /\ Tiles(t, lo, hi) /\ Apart(t)
    /\ \A x, y : Used(t, x, y) <=> (Used(s, x, y) /\ x # a) \/ (x = a /\ y = n)

\* guestRealloc, a smaller size: what is cut off is free.
LEMMA ShrinkKeeps ==
    ASSUME NEW s, NEW lo \in Nat, NEW hi \in Nat, Tiles(s, lo, hi), NEW i \in 1..Len(s),
           ~s[i].free, NEW n \in Nat, n > 0, n < s[i].size
    PROVE  Resized(s, coalesceGuestHeapLocked(
                         SubSeq(s, 1, i - 1)
                         \o <<[s[i] EXCEPT !.size = n],
                              [addr |-> s[i].addr + n, size |-> s[i].size - n, free |-> TRUE]>>
                         \o SubSeq(s, i + 1, Len(s))), lo, hi, s[i].addr, n)
<1>1. s \in Seq(Blocks)
  BY DEF Tiles
<1>2. PICK b \in Blocks : b = s[i]
  BY <1>1
<1>3. PICK a \in Nat : a = b.addr
  BY BlockType
<1>4. PICK z \in Nat : z = b.size /\ z > n /\ EndOf(b) = a + z
  BY <1>2, <1>3, BlockType
<1>5. PICK e : e = [b EXCEPT !.size = n]
  OBVIOUS
<1>6. PICK f : f = [addr |-> a + n, size |-> z - n, free |-> TRUE]
  OBVIOUS
<1>7. e \in Blocks /\ ~e.free /\ e.addr = a /\ e.size = n
  <2>1. n \in Nat \ {0}
    OBVIOUS
  <2>. QED  BY <1>2, <1>3, <1>5, <2>1 DEF Blocks
<1>8. f \in Blocks /\ f.free /\ f.addr = a + n /\ f.size = z - n
  <2>1. a + n \in Nat /\ z - n \in Nat \ {0}
    BY <1>4
  <2>. QED  BY <1>6, <2>1 DEF Blocks
<1>9. EndOf(e) = f.addr /\ EndOf(f) = EndOf(b)
  BY <1>4, <1>7, <1>8 DEF EndOf
<1>10. PICK p : p = SubSeq(s, 1, i - 1)
  OBVIOUS
<1>11. PICK q : q = SubSeq(s, i + 1, Len(s))
  OBVIOUS
<1>12. /\ Tiles(p, lo, a) /\ Tiles(q, EndOf(b), hi)
       /\ \A x, y : Used(s, x, y) <=> Used(p, x, y) \/ InUse(b, x, y) \/ Used(q, x, y)
  BY <1>2, <1>3, <1>10, <1>11, TilesSplit
<1>13. p \in Seq(Blocks) /\ q \in Seq(Blocks)
  BY <1>12 DEF Tiles
<1>14. PICK m : m = <<e, f>>
  OBVIOUS
<1>15. /\ m \in Seq(Blocks) /\ Tiles(m, a, EndOf(b))
       /\ \A x, y : Used(m, x, y) <=> x = a /\ y = n
  <2>1. m \in Seq(Blocks) /\ Len(m) = 2 /\ m[1] = e /\ m[2] = f
    BY <1>7, <1>8, <1>14
  <2>2. /\ \A j : j \in 1..2 <=> j = 1 \/ j = 2
        /\ \A j : j \in 1..(2 - 1) <=> j = 1
    OBVIOUS
  <2>3. Tiles(m, a, EndOf(b))
    BY <1>7, <1>9, <2>1, <2>2 DEF Tiles
  <2>4. \A x, y : (InUse(e, x, y) <=> x = a /\ y = n) /\ ~InUse(f, x, y)
    BY <1>7, <1>8 DEF InUse
  <2>. QED  BY <2>1, <2>2, <2>3, <2>4 DEF Used
<1>16. PICK u : u = p \o m
  OBVIOUS
<1>17. /\ u \in Seq(Blocks) /\ Tiles(u, lo, EndOf(b))
       /\ \A x, y : Used(u, x, y) <=> Used(p, x, y) \/ Used(m, x, y)
  BY <1>12, <1>13, <1>15, <1>16, TilesConcat
<1>18. PICK t : t = u \o q
  OBVIOUS
<1>19. Tiles(t, lo, hi) /\ \A x, y : Used(t, x, y) <=> Used(u, x, y) \/ Used(q, x, y)
  BY <1>12, <1>13, <1>17, <1>18, TilesConcat
<1>20. ASSUME NEW x, NEW y, Used(p, x, y) PROVE x # a
  <2>1. x \in Nat /\ y \in Nat /\ y > 0 /\ x + y <= a
    BY <1>12, <1>20, UsedWithin
  <2>. QED  BY <2>1
<1>21. ASSUME NEW x, NEW y, Used(q, x, y) PROVE x # a
  <2>1. EndOf(b) \in Nat
    BY BlockType
  <2>2. x \in Nat /\ EndOf(b) <= x
    BY <1>12, <1>21, <2>1, UsedWithin
  <2>. QED  BY <1>4, <2>2
<1>22. \A x, y : InUse(b, x, y) => x = a
  BY <1>3 DEF InUse
<1>23. \A x, y : Used(t, x, y) <=> (Used(s, x, y) /\ x # a) \/ (x = a /\ y = n)
  BY <1>12, <1>15, <1>17, <1>19, <1>20, <1>21, <1>22
<1>24. PICK v : v = coalesceGuestHeapLocked(t)
  OBVIOUS
<1>25. Tiles(v, lo, hi) /\ Apart(v) /\ \A x, y : Used(v, x, y) <=> Used(t, x, y)
  BY <1>19, <1>24, CoalesceKeeps
<1>26. Resized(s, v, lo, hi, a, n)
  BY <1>23, <1>25 DEF Resized
<1>27. t = p \o <<e, f>> \o q
  BY <1>14, <1>16, <1>18
<1>. QED  BY <1>2, <1>3, <1>4, <1>5, <1>6, <1>10, <1>11, <1>24, <1>26, <1>27, Zenon

\* guestRealloc, a larger size that leaves something of the next block.
LEMMA GrowKeeps ==
    ASSUME NEW s, NEW lo \in Nat, NEW hi \in Nat, Tiles(s, lo, hi), Apart(s), NEW i \in 1..Len(s),
           ~s[i].free, i < Len(s), s[i + 1].free,
           \A j \in 1..Len(s) : j # i => \A y : ~InUse(s[j], s[i].addr, y),
           NEW n \in Nat, NEW more \in Nat, more = n - s[i].size, more > 0, s[i + 1].size > more
    PROVE  Resized(s, [s EXCEPT ![i].size = n, ![i + 1].addr = @ + more,
                                ![i + 1].size = @ - more], lo, hi, s[i].addr, n)
<1>1. s \in Seq(Blocks)
  BY DEF Tiles
<1>2. PICK k \in Nat : k = Len(s)
  BY <1>1
<1>3. i \in 1..k /\ i + 1 \in 1..k /\ i # i + 1 /\ k # 0 /\ i \in 1..(k - 1)
  BY <1>2
<1>4. PICK b \in Blocks : b = s[i]
  BY <1>1
<1>5. PICK c \in Blocks : c = s[i + 1]
  BY <1>1, <1>2, <1>3
<1>6. PICK a \in Nat : a = b.addr
  BY BlockType
<1>7. PICK e : e = [b EXCEPT !.size = n]
  OBVIOUS
<1>8. b.size \in Nat /\ c.addr \in Nat /\ c.size \in Nat /\ n = b.size + more
      /\ n > 0 /\ c.size > more
  BY <1>4, <1>5, BlockType
<1>9. PICK f : f = [[c EXCEPT !.addr = c.addr + more] EXCEPT !.size = c.size - more]
  OBVIOUS
<1>10. e \in Blocks /\ ~e.free /\ e.addr = a /\ e.size = n
  <2>1. n \in Nat \ {0}
    BY <1>8
  <2>. QED  BY <1>4, <1>6, <1>7, <2>1 DEF Blocks
<1>11. f \in Blocks /\ f.free /\ f.addr = c.addr + more /\ f.size = c.size - more
  <2>1. PICK x \in Nat : x = c.addr + more
    BY <1>8
  <2>2. PICK y \in Nat \ {0} : y = c.size - more
    BY <1>8
  <2>. QED  BY <1>5, <1>9, <2>1, <2>2 DEF Blocks
<1>12. EndOf(b) = c.addr
  BY <1>2, <1>3, <1>4, <1>5 DEF Tiles
<1>13. EndOf(e) = f.addr /\ EndOf(f) = EndOf(c)
  <2>1. c.addr = a + b.size
    BY <1>6, <1>12 DEF EndOf
  <2>2. EndOf(e) = a + n /\ EndOf(f) = (c.addr + more) + (c.size - more)
        /\ EndOf(c) = c.addr + c.size
    BY <1>10, <1>11 DEF EndOf
  <2>3. PICK z, x, y \in Nat : z = b.size /\ x = c.addr /\ y = c.size
    BY <1>8
  <2>4. x = a + z /\ n = z + more
    BY <1>8, <2>1, <2>3
  <2>5. a + n = x + more /\ (x + more) + (y - more) = x + y
    BY <2>4
  <2>. QED  BY <1>11, <2>2, <2>3, <2>5
<1>14. PICK u : u = [s EXCEPT ![i] = e]
  OBVIOUS
<1>15. /\ u \in Seq(Blocks) /\ Len(u) = k /\ u[i] = e
       /\ \A j \in 1..k : j # i => u[j] = s[j]
  BY <1>1, <1>2, <1>10, <1>14, ReplacedBlock
<1>16. PICK t : t = [u EXCEPT ![i + 1] = f]
  OBVIOUS
<1>17. /\ t \in Seq(Blocks) /\ Len(t) = k /\ t[i + 1] = f
       /\ \A j \in 1..k : j # i + 1 => t[j] = u[j]
  BY <1>3, <1>11, <1>15, <1>16, ReplacedBlock
<1>18. /\ t[i] = e /\ t[i + 1] = f
       /\ \A j \in 1..k : j # i /\ j # i + 1 => t[j] = s[j]
  BY <1>3, <1>15, <1>17
<1>19. [s EXCEPT ![i].size = n, ![i + 1].addr = @ + more, ![i + 1].size = @ - more] = t
  <2>1. u = [s EXCEPT ![i].size = n]
    BY <1>4, <1>7, <1>14
  <2>2. u[i + 1] = c
    BY <1>3, <1>5, <1>15
  <2>3. PICK c1 : c1 = [c EXCEPT !.addr = c.addr + more]
    OBVIOUS
  <2>4. c1 \in Blocks /\ c1.size = c.size
    <3>1. PICK x \in Nat : x = c.addr + more
      BY <1>8
    <3>. QED  BY <2>3, <3>1 DEF Blocks
  <2>5. PICK u1 : u1 = [u EXCEPT ![i + 1] = c1]
    OBVIOUS
  <2>6. u1[i + 1] = c1
    BY <1>3, <1>15, <2>4, <2>5, ReplacedBlock
  <2>7. [s EXCEPT ![i].size = n, ![i + 1].addr = @ + more, ![i + 1].size = @ - more]
        = [u1 EXCEPT ![i + 1] = [c1 EXCEPT !.size = c1.size - more]]
    <3>1. [u EXCEPT ![i + 1].addr = @ + more] = u1
      BY <2>2, <2>3, <2>5
    <3>2. [u1 EXCEPT ![i + 1].size = @ - more]
          = [u1 EXCEPT ![i + 1] = [c1 EXCEPT !.size = c1.size - more]]
      BY <2>6
    <3>3. [s EXCEPT ![i].size = n, ![i + 1].addr = @ + more, ![i + 1].size = @ - more]
          = [[[s EXCEPT ![i].size = n] EXCEPT ![i + 1].addr = @ + more]
            EXCEPT ![i + 1].size = @ - more]
      OBVIOUS
    <3>. QED  BY <2>1, <3>1, <3>2, <3>3
  <2>8. [c1 EXCEPT !.size = c1.size - more] = f
    BY <1>9, <2>3, <2>4
  <2>9. [u1 EXCEPT ![i + 1] = f] = [u EXCEPT ![i + 1] = f]
    BY <1>15, <2>5
  <2>. QED  BY <1>16, <2>7, <2>8, <2>9
<1>20. Tiles(t, lo, hi)
  <2>1. /\ s[1].addr = lo /\ EndOf(s[k]) = hi
        /\ \A j \in 1..(k - 1) : EndOf(s[j]) = s[j + 1].addr
    BY <1>2, <1>3 DEF Tiles
  <2>2. /\ \A j \in 1..k : j # i + 1 => t[j].addr = s[j].addr
        /\ \A j \in 1..k : j # i => EndOf(t[j]) = EndOf(s[j])
    BY <1>3, <1>4, <1>5, <1>6, <1>10, <1>13, <1>18
  <2>3. ASSUME NEW j \in 1..(k - 1) PROVE EndOf(t[j]) = t[j + 1].addr
    <3>1. j \in 1..k /\ j + 1 \in 1..k /\ (j # i => j + 1 # i + 1)
      OBVIOUS
    <3>2. CASE j = i
      BY <1>13, <1>18, <3>2
    <3>3. CASE j # i
      BY <2>1, <2>2, <3>1, <3>3
    <3>. QED  BY <3>2, <3>3
  <2>4. 1 \in 1..k /\ k \in 1..k /\ 1 # i + 1 /\ k # i
    BY <1>3
  <2>5. t[1].addr = lo /\ EndOf(t[k]) = hi
    BY <2>1, <2>2, <2>4
  <2>. QED  BY <1>3, <1>17, <2>3, <2>5 DEF Tiles
<1>21. Apart(t)
  <2>1. \A j \in 1..k : t[j].free => s[j].free
    BY <1>3, <1>10, <1>18
  <2>2. \A j \in 1..(k - 1) : j \in 1..k /\ j + 1 \in 1..k
    OBVIOUS
  <2>. QED  BY <1>2, <1>17, <2>1, <2>2 DEF Apart
<1>22. ASSUME NEW x, NEW y PROVE Used(t, x, y) <=> (Used(s, x, y) /\ x # a) \/ (x = a /\ y = n)
  <2>1. (InUse(e, x, y) <=> x = a /\ y = n) /\ ~InUse(f, x, y) /\ ~InUse(s[i + 1], x, y)
    BY <1>10, <1>11 DEF InUse
  <2>2. InUse(s[i], x, y) => x = a
    BY <1>4, <1>6 DEF InUse
  <2>3. ASSUME Used(t, x, y) PROVE (Used(s, x, y) /\ x # a) \/ (x = a /\ y = n)
    <3>1. PICK j \in 1..k : InUse(t[j], x, y)
      BY <1>17, <2>3 DEF Used
    <3>2. CASE j = i
      BY <1>18, <2>1, <3>1, <3>2
    <3>3. CASE j # i
      <4>1. j # i + 1 /\ t[j] = s[j]
        BY <1>18, <2>1, <3>1, <3>3
      <4>2. InUse(s[j], x, y) /\ x # a
        BY <1>2, <1>4, <1>6, <3>1, <3>3, <4>1
      <4>. QED  BY <1>2, <4>2 DEF Used
    <3>. QED  BY <3>2, <3>3
  <2>4. ASSUME Used(s, x, y), x # a PROVE Used(t, x, y)
    <3>1. PICK j \in 1..k : InUse(s[j], x, y)
      BY <1>2, <2>4 DEF Used
    <3>2. j # i /\ j # i + 1
      BY <2>1, <2>2, <2>4, <3>1
    <3>. QED  BY <1>17, <1>18, <3>1, <3>2 DEF Used
  <2>5. ASSUME x = a, y = n PROVE Used(t, x, y)
    BY <1>3, <1>17, <1>18, <2>1, <2>5 DEF Used
  <2>. QED  BY <2>3, <2>4, <2>5
<1>. QED  BY <1>4, <1>6, <1>19, <1>20, <1>21, <1>22 DEF Resized

\* guestRealloc, a larger size that takes all of the next block.
LEMMA SwallowKeeps ==
    ASSUME NEW s, NEW lo \in Nat, NEW hi \in Nat, Tiles(s, lo, hi), Apart(s), NEW i \in 1..Len(s),
           ~s[i].free, i < Len(s), s[i + 1].free,
           \A j \in 1..Len(s) : j # i => \A y : ~InUse(s[j], s[i].addr, y),
           NEW n \in Nat, n = s[i].size + s[i + 1].size
    PROVE  Resized(s, RemoveAt([s EXCEPT ![i].size = n], i + 1), lo, hi, s[i].addr, n)
<1>1. s \in Seq(Blocks)
  BY DEF Tiles
<1>2. PICK k \in Nat : k = Len(s)
  BY <1>1
<1>3. i \in 1..k /\ i + 1 \in 1..k /\ k # 0 /\ i \in 1..(k - 1) /\ k - 1 # 0 /\ k - 1 \in Nat
  BY <1>2
<1>4. PICK b \in Blocks : b = s[i]
  BY <1>1
<1>5. PICK c \in Blocks : c = s[i + 1]
  BY <1>1, <1>2, <1>3
<1>6. PICK a \in Nat : a = b.addr
  BY BlockType
<1>7. PICK e : e = [b EXCEPT !.size = n]
  OBVIOUS
<1>8. b.size \in Nat /\ c.addr \in Nat /\ c.size \in Nat /\ n = b.size + c.size /\ n > 0
  BY <1>4, <1>5, BlockType
<1>9. e \in Blocks /\ ~e.free /\ e.addr = a /\ e.size = n
  <2>1. n \in Nat \ {0}
    BY <1>8
  <2>. QED  BY <1>4, <1>6, <1>7, <2>1 DEF Blocks
<1>10. EndOf(b) = c.addr
  BY <1>2, <1>3, <1>4, <1>5 DEF Tiles
<1>11. EndOf(e) = EndOf(c)
  BY <1>6, <1>8, <1>9, <1>10 DEF EndOf
<1>12. PICK u : u = [s EXCEPT ![i] = e]
  OBVIOUS
<1>13. /\ u \in Seq(Blocks) /\ Len(u) = k /\ u[i] = e
       /\ \A j \in 1..k : j # i => u[j] = s[j]
  BY <1>1, <1>2, <1>9, <1>12, ReplacedBlock
<1>14. PICK t : t = RemoveAt(u, i + 1)
  OBVIOUS
<1>15. /\ t \in Seq(Blocks) /\ Len(t) = k - 1
       /\ \A j \in 1..(k - 1) : t[j] = IF j < i + 1 THEN u[j] ELSE u[j + 1]
  BY <1>3, <1>13, <1>14, RemoveAtPointwise
<1>16. ASSUME NEW j \in 1..(k - 1)
       PROVE  /\ j < i => t[j] = s[j]
              /\ j = i => t[j] = e
              /\ j > i => t[j] = s[j + 1]
  <2>1. j \in 1..k /\ j + 1 \in 1..k
    BY <1>3
  <2>2. t[j] = IF j < i + 1 THEN u[j] ELSE u[j + 1]
    BY <1>15
  <2>3. (j < i => j < i + 1 /\ j # i) /\ (j = i => j < i + 1)
        /\ (j > i => ~(j < i + 1) /\ j + 1 # i)
    OBVIOUS
  <2>. QED  BY <1>13, <2>1, <2>2, <2>3
<1>17. Tiles(t, lo, hi)
  <2>1. /\ s[1].addr = lo /\ EndOf(s[k]) = hi
        /\ \A j \in 1..(k - 1) : EndOf(s[j]) = s[j + 1].addr
    BY <1>2, <1>3 DEF Tiles
  <2>2. ASSUME NEW j \in 1..((k - 1) - 1) PROVE EndOf(t[j]) = t[j + 1].addr
    <3>1. /\ j \in 1..(k - 1) /\ j + 1 \in 1..(k - 1) /\ (j + 1) + 1 \in 1..k
          /\ EndOf(s[j]) = s[j + 1].addr /\ EndOf(s[j + 1]) = s[(j + 1) + 1].addr
      BY <1>3, <2>1
    <3>2. CASE j + 1 < i
      <4>1. j < i
        BY <3>2
      <4>. QED  BY <1>16, <3>1, <3>2, <4>1
    <3>3. CASE j + 1 = i
      <4>1. j < i
        BY <3>3
      <4>. QED  BY <1>4, <1>6, <1>9, <1>16, <3>1, <3>3, <4>1
    <3>4. CASE j = i
      <4>1. j + 1 > i
        BY <3>4
      <4>. QED  BY <1>5, <1>11, <1>16, <3>1, <3>4, <4>1
    <3>5. CASE j > i
      <4>1. j + 1 > i
        BY <3>5
      <4>. QED  BY <1>16, <3>1, <3>5, <4>1
    <3>. QED  BY <3>2, <3>3, <3>4, <3>5
  <2>3. t[1].addr = lo
    <3>1. 1 \in 1..(k - 1)
      BY <1>3
    <3>2. CASE i = 1
      BY <1>4, <1>6, <1>9, <1>16, <2>1, <3>1, <3>2
    <3>3. CASE i # 1
      <4>1. 1 < i
        BY <3>3
      <4>. QED  BY <1>16, <2>1, <3>1, <4>1
    <3>. QED  BY <3>2, <3>3
  <2>4. EndOf(t[k - 1]) = hi
    <3>1. k - 1 \in 1..(k - 1) /\ (k - 1) + 1 = k
      BY <1>3
    <3>2. CASE k - 1 = i
      <4>1. i + 1 = k
        BY <3>2
      <4>. QED  BY <1>5, <1>11, <1>16, <2>1, <3>1, <3>2, <4>1
    <3>3. CASE k - 1 # i
      <4>1. k - 1 > i
        BY <1>3, <3>3
      <4>. QED  BY <1>16, <2>1, <3>1, <4>1
    <3>. QED  BY <3>2, <3>3
  <2>. QED  BY <1>3, <1>15, <2>2, <2>3, <2>4 DEF Tiles
<1>18. Apart(t)
  <2>. SUFFICES ASSUME NEW j \in 1..((k - 1) - 1) PROVE ~(t[j].free /\ t[j + 1].free)
    BY <1>15 DEF Apart
  <2>1. /\ j \in 1..(k - 1) /\ j + 1 \in 1..(k - 1)
        /\ ~(s[j].free /\ s[j + 1].free) /\ ~(s[j + 1].free /\ s[(j + 1) + 1].free)
    BY <1>2, <1>3 DEF Apart
  <2>2. CASE j + 1 < i
    <3>1. j < i
      BY <2>2
    <3>. QED  BY <1>16, <2>1, <2>2, <3>1
  <2>3. CASE j + 1 = i \/ j = i
    BY <1>9, <1>16, <2>1, <2>3
  <2>4. CASE j > i
    <3>1. j + 1 > i
      BY <2>4
    <3>. QED  BY <1>16, <2>1, <2>4, <3>1
  <2>. QED  BY <2>2, <2>3, <2>4
<1>19. ASSUME NEW x, NEW y PROVE Used(t, x, y) <=> (Used(s, x, y) /\ x # a) \/ (x = a /\ y = n)
  <2>1. (InUse(e, x, y) <=> x = a /\ y = n) /\ ~InUse(s[i + 1], x, y)
    BY <1>9 DEF InUse
  <2>2. InUse(s[i], x, y) => x = a
    BY <1>4, <1>6 DEF InUse
  <2>3. \A j \in 1..k : j # i /\ InUse(s[j], x, y) => x # a
    BY <1>2, <1>4, <1>6
  <2>4. ASSUME Used(t, x, y) PROVE (Used(s, x, y) /\ x # a) \/ (x = a /\ y = n)
    <3>1. PICK j \in 1..(k - 1) : InUse(t[j], x, y)
      BY <1>15, <2>4 DEF Used
    <3>2. CASE j = i
      BY <1>16, <2>1, <3>1, <3>2
    <3>3. CASE j < i
      <4>1. j \in 1..k /\ j # i /\ InUse(s[j], x, y)
        BY <1>3, <1>16, <3>1, <3>3
      <4>. QED  BY <1>2, <2>3, <4>1 DEF Used
    <3>4. CASE j > i
      <4>1. j + 1 \in 1..k /\ j + 1 # i /\ InUse(s[j + 1], x, y)
        BY <1>3, <1>16, <3>1, <3>4
      <4>. QED  BY <1>2, <2>3, <4>1 DEF Used
    <3>. QED  BY <3>2, <3>3, <3>4
  <2>5. ASSUME Used(s, x, y), x # a PROVE Used(t, x, y)
    <3>1. PICK j \in 1..k : InUse(s[j], x, y)
      BY <1>2, <2>5 DEF Used
    <3>2. j # i /\ j # i + 1
      BY <2>1, <2>2, <2>5, <3>1
    <3>3. CASE j < i
      <4>1. j \in 1..(k - 1) /\ t[j] = s[j]
        BY <1>3, <1>16, <3>3
      <4>. QED  BY <1>15, <3>1, <4>1 DEF Used
    <3>4. CASE j > i
      <4>1. j - 1 \in 1..(k - 1) /\ j - 1 > i /\ (j - 1) + 1 = j
        BY <3>2, <3>4
      <4>2. t[j - 1] = s[j]
        BY <1>16, <4>1
      <4>. QED  BY <1>15, <3>1, <4>1, <4>2 DEF Used
    <3>. QED  BY <3>2, <3>3, <3>4
  <2>6. ASSUME x = a, y = n PROVE Used(t, x, y)
    BY <1>3, <1>15, <1>16, <2>1, <2>6 DEF Used
  <2>. QED  BY <2>4, <2>5, <2>6
<1>20. u = [s EXCEPT ![i].size = n]
  BY <1>4, <1>7, <1>12
<1>. QED  BY <1>4, <1>6, <1>14, <1>17, <1>18, <1>19, <1>20 DEF Resized

-----------------------------------------------------------------------------
(* The holders of the blocks *)

Holdings == [addr : Nat, size : Nat]

\* The words of a holding.
Span(h) == {w \in Nat : h.addr <= w /\ w < h.addr + h.size}

HeapTypes ==
    /\ held \in [Clients -> Holdings]
    /\ limit \in Nat /\ heapBase \in Nat /\ heapBase <= limit /\ limit <= HeapHardLimit
    /\ words = [w \in 0..HeapHardLimit |-> words[w]]

\* What is in use is what is held.
HeldUsed ==
    \A a, z : Used(blocks, a, z)
              <=> \E c \in Clients : held[c].size > 0 /\ held[c].addr = a /\ held[c].size = z

\* A client finds its own words in its block.
WordsOwn == \A c \in Clients : \A w \in Span(held[c]) : words[w] = c

HeapInv ==
    HeapTypes /\ Tiles(blocks, heapBase, limit) /\ Apart(blocks) /\ HeldUsed /\ WordsOwn

\* What a client holds is a block in use, within the heap and apart from the others.
LEMMA Holding ==
    ASSUME HeapInv, NEW c \in Clients
    PROVE  /\ held[c] \in Holdings /\ held[c].addr \in Nat /\ held[c].size \in Nat
           /\ held[c].size > 0 => /\ Used(blocks, held[c].addr, held[c].size)
                                  /\ heapBase <= held[c].addr
                                  /\ held[c].addr + held[c].size <= limit
           /\ Span(held[c]) \subseteq 0..HeapHardLimit
           /\ \A d \in Clients : d # c => Span(held[c]) \cap Span(held[d]) = {}
<1>1. held[c] \in Holdings
  BY DEF HeapInv, HeapTypes
<1>2. PICK a \in Nat : a = held[c].addr
  BY <1>1 DEF Holdings
<1>3. PICK z \in Nat : z = held[c].size
  BY <1>1 DEF Holdings
<1>4. heapBase \in Nat /\ HeapHardLimit \in Nat /\ limit \in Nat /\ limit <= HeapHardLimit
  BY GuestHeapAssumption DEF HeapInv, HeapTypes
<1>5. z > 0 => Used(blocks, a, z)
  BY <1>2, <1>3 DEF HeapInv, HeldUsed
<1>6. z > 0 => heapBase <= a /\ a + z <= limit
  <2>. SUFFICES ASSUME z > 0 PROVE heapBase <= a /\ a + z <= limit
    OBVIOUS
  <2>1. PICK s : s = blocks
    OBVIOUS
  <2>2. PICK hi \in Nat : hi = limit
    BY <1>4
  <2>3. Tiles(s, heapBase, hi) /\ Used(s, a, z)
    BY <1>5, <2>1, <2>2 DEF HeapInv
  <2>. QED  BY <1>4, <2>2, <2>3, UsedWithin
<1>7. ASSUME NEW w \in Span(held[c]) PROVE w \in 0..HeapHardLimit
  <2>1. w \in Nat /\ a <= w /\ w < a + z
    BY <1>2, <1>3 DEF Span
  <2>. QED  BY <1>4, <1>6, <2>1
<1>8. ASSUME NEW d \in Clients, d # c PROVE Span(held[c]) \cap Span(held[d]) = {}
  BY <1>8 DEF HeapInv, WordsOwn
<1>. QED  BY <1>1, <1>2, <1>3, <1>5, <1>6, <1>7, <1>8

\* A client gives up what it has for the holding h.
LEMMA HolderStep ==
    ASSUME HeapInv, NEW c \in Clients, NEW h \in Holdings,
           held' = [held EXCEPT ![c] = h], UNCHANGED <<limit, heapBase>>,
           Tiles(blocks', heapBase, limit), Apart(blocks'),
           \A a, z : Used(blocks', a, z)
                     <=> \/ Used(blocks, a, z) /\ ~(held[c].size > 0 /\ a = held[c].addr)
                         \/ h.size > 0 /\ h.addr = a /\ h.size = z,
           words' = [w \in 0..HeapHardLimit |-> words'[w]],
           \A w \in Span(h) : words'[w] = c,
           \A d \in Clients : d # c => \A w \in Span(held[d]) : words'[w] = words[w]
    PROVE  HeapInv'
<1>1. held \in [Clients -> Holdings]
  BY DEF HeapInv, HeapTypes
<1>2. held'[c] = h /\ \A d \in Clients : d # c => held'[d] = held[d]
  BY <1>1
<1>3. HeapTypes'
  BY <1>1 DEF HeapInv, HeapTypes
<1>4. WordsOwn'
  <2>. SUFFICES ASSUME NEW d \in Clients, NEW w \in Span(held'[d]) PROVE words'[w] = d
    BY DEF WordsOwn
  <2>1. CASE d = c
    BY <1>2, <2>1
  <2>2. CASE d # c
    <3>1. w \in Span(held[d])
      BY <1>2, <2>2
    <3>. QED  BY <2>2, <3>1 DEF HeapInv, WordsOwn
  <2>. QED  BY <2>1, <2>2
<1>5. ASSUME NEW d \in Clients, d # c, held[d].size > 0, held[c].size > 0
      PROVE  held[d].addr # held[c].addr
  <2>1. PICK a, z \in Nat : a = held[c].addr /\ z = held[c].size /\ z > 0
    BY <1>5, Holding
  <2>2. PICK x, y \in Nat : x = held[d].addr /\ y = held[d].size /\ y > 0
    BY <1>5, Holding
  <2>3. a \in Span(held[c]) /\ x \in Span(held[d])
    <3>1. a < a + z /\ x < x + y /\ a <= a /\ x <= x
      BY <2>1, <2>2
    <3>. QED  BY <2>1, <2>2, <3>1 DEF Span
  <2>4. Span(held[c]) \cap Span(held[d]) = {}
    BY <1>5, Holding
  <2>. QED  BY <2>1, <2>2, <2>3, <2>4
<1>6. ASSUME NEW a, NEW z
      PROVE  Used(blocks', a, z)
             <=> \E d \in Clients : held'[d].size > 0 /\ held'[d].addr = a /\ held'[d].size = z
  <2>1. Used(blocks, a, z)
        <=> \E d \in Clients : held[d].size > 0 /\ held[d].addr = a /\ held[d].size = z
    BY DEF HeapInv, HeldUsed
  <2>2. Used(blocks', a, z)
        <=> \/ Used(blocks, a, z) /\ ~(held[c].size > 0 /\ a = held[c].addr)
            \/ h.size > 0 /\ h.addr = a /\ h.size = z
    OBVIOUS
  <2>3. ASSUME Used(blocks', a, z)
        PROVE  \E d \in Clients : held'[d].size > 0 /\ held'[d].addr = a /\ held'[d].size = z
    <3>1. CASE h.size > 0 /\ h.addr = a /\ h.size = z
      BY <1>2, <3>1
    <3>2. CASE Used(blocks, a, z) /\ ~(held[c].size > 0 /\ a = held[c].addr)
      <4>1. PICK d \in Clients : held[d].size > 0 /\ held[d].addr = a /\ held[d].size = z
        BY <2>1, <3>2
      <4>2. d # c
        BY <3>2, <4>1
      <4>. QED  BY <1>2, <4>1, <4>2
    <3>. QED  BY <2>2, <2>3, <3>1, <3>2
  <2>4. ASSUME NEW d \in Clients, held'[d].size > 0, held'[d].addr = a, held'[d].size = z
        PROVE  Used(blocks', a, z)
    <3>1. CASE d = c
      BY <1>2, <2>2, <2>4, <3>1
    <3>2. CASE d # c
      <4>1. held[d].size > 0 /\ held[d].addr = a /\ held[d].size = z
        BY <1>2, <2>4, <3>2
      <4>2. Used(blocks, a, z) /\ ~(held[c].size > 0 /\ a = held[c].addr)
        BY <1>5, <2>1, <3>2, <4>1
      <4>. QED  BY <2>2, <4>2
    <3>. QED  BY <3>1, <3>2
  <2>. QED  BY <2>3, <2>4
<1>7. HeldUsed'
  BY <1>6 DEF HeldUsed
<1>. QED  BY <1>3, <1>4, <1>7 DEF HeapInv

\* The words from a to a + z, and no others, have become x.
Wrote(x, a, z) ==
    /\ words' = [w \in 0..HeapHardLimit |-> words'[w]]
    /\ \A w \in 0..HeapHardLimit : a <= w /\ w < a + z => words'[w] = x
    /\ \A w \in 0..HeapHardLimit : ~(a <= w /\ w < a + z) => words'[w] = words[w]

\* Words that are written.
LEMMA WrittenWords ==
    ASSUME HeapInv, NEW x, NEW a \in Nat, NEW z \in Nat, words' = Written(x, a, z)
    PROVE  Wrote(x, a, z)
<1>1. words = [w \in 0..HeapHardLimit |-> words[w]]
  BY DEF HeapInv, HeapTypes
<1>2. DOMAIN words = 0..HeapHardLimit
  BY <1>1
<1>3. words' = [w \in 0..HeapHardLimit |-> IF a <= w /\ w < a + z THEN x ELSE words[w]]
  BY <1>2, Zenon DEF Written
<1>4. PICK f : f = words'
  OBVIOUS
<1>. QED  BY <1>3, <1>4 DEF Wrote

\* Ground that no block in use touches is in nobody's holding.
LEMMA SpareGround ==
    ASSUME HeapInv, NEW a \in Nat, NEW z \in Nat, NEW c \in Clients,
           \A x, y : Used(blocks, x, y) /\ ~(x = held[c].addr /\ y = held[c].size)
                     => x + y <= a \/ a + z <= x,
           NEW d \in Clients, d # c, NEW w \in Span(held[d])
    PROVE  ~(a <= w /\ w < a + z)
<1>1. PICK x, y \in Nat : x = held[d].addr /\ y = held[d].size
  BY Holding
<1>2. w \in Nat /\ x <= w /\ w < x + y
  BY <1>1 DEF Span
<1>3. y > 0
  BY <1>2
<1>4. Used(blocks, x, y)
  BY <1>1, <1>3, Holding
<1>5. ~(x = held[c].addr /\ y = held[c].size)
  <2>. SUFFICES ASSUME x = held[c].addr, y = held[c].size PROVE FALSE
    OBVIOUS
  <2>1. w \in Span(held[c])
    BY <1>2 DEF Span
  <2>2. Span(held[c]) \cap Span(held[d]) = {}
    BY Holding
  <2>. QED  BY <2>1, <2>2
<1>6. x + y <= a \/ a + z <= x
  BY <1>4, <1>5
<1>. QED  BY <1>2, <1>6

\* guestMalloc keeps the heap.
LEMMA MallocKeeps ==
    ASSUME HeapInv, NEW c \in Clients, NEW size \in HeapSizes, NEW align \in HeapAligns,
           guestMalloc(c, size, align)
    PROVE  HeapInv'
<1>1. PICK al \in Nat \ {0} : al = normalizeGuestHeapAlignment(align)
  BY GuestHeapAssumption DEF normalizeGuestHeapAlignment
<1>2. PICK r : r = allocateGuestBlockLocked(blocks, size, al)
  OBVIOUS
<1>3. /\ r.addr # 0 /\ blocks' = r.blocks
      /\ held' = [held EXCEPT ![c] = [addr |-> r.addr, size |-> r.size]]
      /\ words' = Written(c, r.addr, r.size) /\ UNCHANGED <<limit, heapBase>> /\ held[c].size = 0
  BY <1>1, <1>2 DEF guestMalloc
<1>4. size \in Nat /\ heapBase \in Nat /\ HeapHardLimit \in Nat
  BY GuestHeapAssumption DEF HeapInv, HeapTypes
<1>5. PICK s : s = blocks
  OBVIOUS
<1>6. PICK hi \in Nat : hi = limit /\ hi <= HeapHardLimit
  BY DEF HeapInv, HeapTypes
<1>7. Tiles(s, heapBase, hi) /\ Apart(s) /\ r = allocateGuestBlockLocked(s, size, al)
  BY <1>2, <1>5, <1>6 DEF HeapInv
<1>8. /\ r.addr \in Nat /\ r.size \in Nat /\ r.size > 0 /\ r.addr + r.size <= hi
      /\ Tiles(r.blocks, heapBase, hi) /\ Apart(r.blocks)
      /\ \A a, z : Used(r.blocks, a, z) <=> Used(s, a, z) \/ (r.addr = a /\ r.size = z)
      /\ \A a, z : Used(s, a, z) => a + z <= r.addr \/ r.addr + r.size <= a
  BY <1>3, <1>4, <1>7, AllocKeeps
<1>9. PICK a0 \in Nat : a0 = r.addr
  BY <1>8
<1>10. PICK z0 \in Nat : z0 = r.size /\ z0 > 0 /\ a0 + z0 <= hi
  BY <1>8, <1>9
<1>11. PICK h : h = [addr |-> a0, size |-> z0]
  OBVIOUS
<1>12. h \in Holdings /\ h.addr = a0 /\ h.size = z0
  BY <1>11 DEF Holdings
<1>13. /\ words' = [w \in 0..HeapHardLimit |-> words'[w]]
       /\ \A w \in 0..HeapHardLimit : a0 <= w /\ w < a0 + z0 => words'[w] = c
      /\ \A w \in 0..HeapHardLimit : ~(a0 <= w /\ w < a0 + z0) => words'[w] = words[w]
  <2>1. words' = Written(c, a0, z0)
    BY <1>3, <1>9, <1>10
  <2>2. Wrote(c, a0, z0)
    BY <2>1, WrittenWords
  <2>. QED  BY <2>2 DEF Wrote
<1>14. ASSUME NEW w \in Span(h) PROVE words'[w] = c
  <2>1. w \in Nat /\ a0 <= w /\ w < a0 + z0
    BY <1>12 DEF Span
  <2>2. w \in 0..HeapHardLimit
    BY <1>4, <1>6, <1>10, <2>1
  <2>. QED  BY <1>13, <2>1, <2>2
<1>15. ASSUME NEW d \in Clients, d # c, NEW w \in Span(held[d]) PROVE words'[w] = words[w]
  <2>1. \A x, y : Used(blocks, x, y) /\ ~(x = held[c].addr /\ y = held[c].size)
                  => x + y <= a0 \/ a0 + z0 <= x
    BY <1>5, <1>8, <1>9, <1>10
  <2>2. ~(a0 <= w /\ w < a0 + z0)
    BY <1>15, <2>1, SpareGround
  <2>3. w \in 0..HeapHardLimit
    BY Holding
  <2>. QED  BY <1>13, <2>2, <2>3
<1>16. \A a, z : Used(blocks', a, z)
                 <=> \/ Used(blocks, a, z) /\ ~(held[c].size > 0 /\ a = held[c].addr)
                     \/ h.size > 0 /\ h.addr = a /\ h.size = z
  <2>1. ~(held[c].size > 0)
    BY <1>3
  <2>. QED  BY <1>3, <1>5, <1>8, <1>9, <1>10, <1>12, <2>1
<1>17. Tiles(blocks', heapBase, limit) /\ Apart(blocks') /\ held' = [held EXCEPT ![c] = h]
  BY <1>3, <1>6, <1>8, <1>9, <1>10, <1>11
<1>. QED  BY <1>3, <1>12, <1>13, <1>14, <1>15, <1>16, <1>17, HolderStep

\* guestFree keeps the heap.
LEMMA GuestFreeKeeps ==
    ASSUME HeapInv, NEW c \in Clients, guestFree(c)
    PROVE  HeapInv'
<1>1. PICK a0, z0 \in Nat : a0 = held[c].addr /\ z0 = held[c].size
  BY Holding
<1>2. /\ z0 > 0 /\ blocks' = freeGuestBlockLocked(blocks, a0) /\ UNCHANGED <<limit, heapBase>>
      /\ held' = [held EXCEPT ![c] = Nothing]
      /\ words' = Written(Free, a0, z0)
  BY <1>1 DEF guestFree
<1>3. PICK s : s = blocks
  OBVIOUS
<1>4. PICK hi \in Nat : hi = limit
  BY DEF HeapInv, HeapTypes
<1>5. heapBase \in Nat /\ Tiles(s, heapBase, hi) /\ Used(s, a0, z0)
  BY <1>1, <1>2, <1>3, <1>4, Holding, GuestHeapAssumption DEF HeapInv, HeapTypes
<1>6. PICK t : t = freeGuestBlockLocked(s, a0)
  OBVIOUS
<1>7. /\ Tiles(t, heapBase, hi) /\ Apart(t)
      /\ \A x, y : Used(t, x, y) <=> Used(s, x, y) /\ x # a0
  BY <1>5, <1>6, FreeKeeps
<1>8. PICK h : h = Nothing
  OBVIOUS
<1>9. h \in Holdings /\ h.addr = 0 /\ h.size = 0
  BY <1>8 DEF Holdings, Nothing
<1>10. Span(h) = {}
  BY <1>9 DEF Span
<1>11. /\ words' = [w \in 0..HeapHardLimit |-> words'[w]]
       /\ \A w \in 0..HeapHardLimit : a0 <= w /\ w < a0 + z0 => words'[w] = Free
       /\ \A w \in 0..HeapHardLimit : ~(a0 <= w /\ w < a0 + z0) => words'[w] = words[w]
  <2>1. Wrote(Free, a0, z0)
    BY <1>2, WrittenWords
  <2>. QED  BY <2>1 DEF Wrote
<1>12. ASSUME NEW d \in Clients, d # c, NEW w \in Span(held[d]) PROVE words'[w] = words[w]
  <2>1. w \in 0..HeapHardLimit /\ Span(held[c]) \cap Span(held[d]) = {}
    BY <1>12, Holding
  <2>2. ~(a0 <= w /\ w < a0 + z0)
    BY <1>1, <2>1 DEF Span
  <2>. QED  BY <1>11, <2>1, <2>2
<1>13. \A a, z : Used(blocks', a, z)
                 <=> \/ Used(blocks, a, z) /\ ~(held[c].size > 0 /\ a = held[c].addr)
                     \/ h.size > 0 /\ h.addr = a /\ h.size = z
  <2>1. ~(h.size > 0) /\ held[c].size > 0
    BY <1>1, <1>2, <1>9
  <2>. QED  BY <1>1, <1>2, <1>3, <1>6, <1>7, <2>1
<1>14. Tiles(blocks', heapBase, limit) /\ Apart(blocks') /\ held' = [held EXCEPT ![c] = h]
  BY <1>2, <1>3, <1>4, <1>6, <1>7, <1>8
<1>. QED  BY <1>2, <1>9, <1>10, <1>11, <1>12, <1>13, <1>14, HolderStep

\* A client's block gets another size where it is.
LEMMA ResizeStep ==
    ASSUME HeapInv, NEW c \in Clients, held[c].size > 0, NEW n \in Nat, n > 0,
           held' = [held EXCEPT ![c].size = n], UNCHANGED <<limit, heapBase>>,
           Resized(blocks, blocks', heapBase, limit, held[c].addr, n),
           words' = [w \in 0..HeapHardLimit |-> words'[w]],
           \A w \in Nat : held[c].addr <= w /\ w < held[c].addr + n => words'[w] = c,
           \A d \in Clients : d # c => \A w \in Span(held[d]) : words'[w] = words[w]
    PROVE  HeapInv'
<1>1. PICK a0 \in Nat : a0 = held[c].addr
  BY Holding
<1>2. PICK h : h = [held[c] EXCEPT !.size = n]
  OBVIOUS
<1>3. h \in Holdings /\ h.addr = a0 /\ h.size = n
  BY <1>1, <1>2, Holding DEF Holdings
<1>4. held' = [held EXCEPT ![c] = h]
  BY <1>2
<1>5. \A w \in Span(h) : words'[w] = c
  BY <1>1, <1>3 DEF Span
<1>6. \A a, z : Used(blocks', a, z)
                <=> \/ Used(blocks, a, z) /\ ~(held[c].size > 0 /\ a = held[c].addr)
                    \/ h.size > 0 /\ h.addr = a /\ h.size = z
  BY <1>1, <1>3 DEF Resized
<1>7. Tiles(blocks', heapBase, limit) /\ Apart(blocks')
  BY DEF Resized
<1>. QED  BY <1>3, <1>4, <1>5, <1>6, <1>7, HolderStep

\* The block that guestRealloc finds is the one the client holds.
LEMMA ReallocFinds ==
    ASSUME HeapInv, NEW c \in Clients, held[c].size > 0
    PROVE  LET i == findGuestHeapBlockIndexLocked(blocks, held[c].addr)
           IN  /\ i \in 1..Len(blocks) /\ blocks[i] \in Blocks
               /\ ~blocks[i].free /\ blocks[i].addr = held[c].addr /\ blocks[i].size = held[c].size
               /\ \A j \in 1..Len(blocks) : j # i => \A y : ~InUse(blocks[j], blocks[i].addr, y)
<1>1. PICK s : s = blocks
  OBVIOUS
<1>2. PICK hi \in Nat : hi = limit
  BY DEF HeapInv, HeapTypes
<1>3. PICK a : a = held[c].addr
  OBVIOUS
<1>4. PICK z : z = held[c].size
  OBVIOUS
<1>5. heapBase \in Nat /\ Tiles(s, heapBase, hi) /\ Used(s, a, z)
  BY <1>1, <1>2, <1>3, <1>4, Holding, GuestHeapAssumption DEF HeapInv, HeapTypes
<1>6. PICK i : i = findGuestHeapBlockIndexLocked(s, a)
  OBVIOUS
<1>7. /\ i \in 1..Len(s) /\ InUse(s[i], a, z)
      /\ \A j \in 1..Len(s) : j # i => \A y : ~InUse(s[j], a, y)
  BY <1>5, <1>6, FindsBlock
<1>8. s[i] \in Blocks
  BY <1>5, <1>7 DEF Tiles
<1>9. ~s[i].free /\ s[i].addr = a /\ s[i].size = z
  BY <1>7 DEF InUse
<1>. QED  BY <1>1, <1>3, <1>4, <1>6, <1>7, <1>8, <1>9

\* guestRealloc, a size no larger than before.
LEMMA ShrinkStep ==
    ASSUME HeapInv, NEW c \in Clients, held[c].size > 0, NEW n \in Nat, n > 0,
           NEW i, i = findGuestHeapBlockIndexLocked(blocks, held[c].addr), n <= blocks[i].size,
           blocks' = IF n = blocks[i].size THEN blocks
                     ELSE coalesceGuestHeapLocked(
                             SubSeq(blocks, 1, i - 1)
                             \o <<[blocks[i] EXCEPT !.size = n],
                                  [addr |-> blocks[i].addr + n, size |-> blocks[i].size - n,
                                   free |-> TRUE]>>
                             \o SubSeq(blocks, i + 1, Len(blocks))),
           held' = [held EXCEPT ![c].size = n], UNCHANGED <<limit, heapBase>>,
           words' = Written(Free, blocks[i].addr + n, blocks[i].size - n)
    PROVE  HeapInv'
<1>1. /\ i \in 1..Len(blocks) /\ blocks[i] \in Blocks
      /\ ~blocks[i].free /\ blocks[i].addr = held[c].addr /\ blocks[i].size = held[c].size
  BY ReallocFinds
<1>2. PICK a, z \in Nat : a = held[c].addr /\ z = held[c].size /\ z > 0 /\ n <= z
  BY <1>1, Holding
<1>3. PICK a1, z1 \in Nat : a1 = a + n /\ z1 = z - n
  <2>1. a + n \in Nat /\ z - n \in Nat
    BY <1>2
  <2>. QED  BY <2>1
<1>4. /\ words' = [w \in 0..HeapHardLimit |-> words'[w]]
      /\ \A w \in 0..HeapHardLimit : a1 <= w /\ w < a1 + z1 => words'[w] = Free
      /\ \A w \in 0..HeapHardLimit : ~(a1 <= w /\ w < a1 + z1) => words'[w] = words[w]
  <2>1. words' = Written(Free, a1, z1)
    BY <1>1, <1>2, <1>3
  <2>2. Wrote(Free, a1, z1)
    BY <2>1, WrittenWords
  <2>. QED  BY <2>2 DEF Wrote
<1>5. ASSUME NEW w \in Nat, held[c].addr <= w /\ w < held[c].addr + n PROVE words'[w] = c
  <2>1. w \in Span(held[c])
    BY <1>2, <1>5 DEF Span
  <2>2. w \in 0..HeapHardLimit /\ words[w] = c
    BY <2>1, Holding DEF HeapInv, WordsOwn
  <2>3. ~(a1 <= w)
    BY <1>2, <1>3, <1>5
  <2>. QED  BY <1>4, <2>2, <2>3
<1>6. ASSUME NEW d \in Clients, d # c, NEW w \in Span(held[d]) PROVE words'[w] = words[w]
  <2>1. w \in 0..HeapHardLimit /\ Span(held[c]) \cap Span(held[d]) = {}
    BY <1>6, Holding
  <2>2. ~(a <= w /\ w < a + z)
    BY <1>2, <2>1 DEF Span
  <2>3. w \in Nat
    BY DEF Span
  <2>4. ~(a1 <= w /\ w < a1 + z1)
    BY <1>2, <1>3, <2>2, <2>3
  <2>. QED  BY <1>4, <2>1, <2>4
<1>7. PICK s : s = blocks
  OBVIOUS
<1>8. PICK hi \in Nat : hi = limit
  BY DEF HeapInv, HeapTypes
<1>9. heapBase \in Nat /\ Tiles(s, heapBase, hi) /\ Apart(s)
  BY <1>7, <1>8, GuestHeapAssumption DEF HeapInv, HeapTypes
<1>10. Resized(blocks, blocks', heapBase, limit, held[c].addr, n)
  <2>1. CASE n = blocks[i].size
    <3>1. blocks' = blocks /\ n = z
      BY <1>1, <1>2, <2>1
    <3>2. Used(s, a, z)
      BY <1>2, <1>7, Holding
    <3>3. \A y : Used(s, a, y) => y = z
      <4>. SUFFICES ASSUME NEW y, Used(s, a, y) PROVE y = z
        OBVIOUS
      <4>1. PICK j : j = findGuestHeapBlockIndexLocked(s, a)
        OBVIOUS
      <4>2. InUse(s[j], a, y)
        BY <1>9, <4>1, FindsBlock
      <4>3. InUse(s[j], a, z)
        BY <1>9, <3>2, <4>1, FindsBlock
      <4>. QED  BY <4>2, <4>3 DEF InUse
    <3>4. \A x, y : Used(s, x, y) <=> (Used(s, x, y) /\ x # a) \/ (x = a /\ y = n)
      BY <3>1, <3>2, <3>3
    <3>5. Resized(s, s, heapBase, hi, a, n)
      BY <1>9, <3>4 DEF Resized
    <3>. QED  BY <1>2, <1>7, <1>8, <3>1, <3>5
  <2>2. CASE n # blocks[i].size
    <3>1. /\ i \in 1..Len(s) /\ ~s[i].free /\ n < s[i].size /\ s[i].addr = a
      BY <1>1, <1>2, <1>7, <2>2
    <3>2. PICK t : t = coalesceGuestHeapLocked(
                         SubSeq(s, 1, i - 1)
                         \o <<[s[i] EXCEPT !.size = n],
                              [addr |-> s[i].addr + n, size |-> s[i].size - n, free |-> TRUE]>>
                         \o SubSeq(s, i + 1, Len(s)))
      OBVIOUS
    <3>3. Resized(s, t, heapBase, hi, s[i].addr, n)
      BY <1>9, <3>1, <3>2, ShrinkKeeps
    <3>4. blocks' = t
      BY <1>7, <2>2, <3>2, Zenon
    <3>. QED  BY <1>2, <1>7, <1>8, <3>1, <3>3, <3>4
  <2>. QED  BY <2>1, <2>2
<1>. QED  BY <1>4, <1>5, <1>6, <1>10, ResizeStep

\* guestRealloc, a larger size for which the next block has room.
LEMMA ExtendStep ==
    ASSUME HeapInv, NEW c \in Clients, held[c].size > 0, NEW n \in Nat,
           NEW i, i = findGuestHeapBlockIndexLocked(blocks, held[c].addr), n > blocks[i].size,
           i < Len(blocks), blocks[i + 1].free, blocks[i + 1].size >= n - blocks[i].size,
           Resized(blocks, blocks', heapBase, limit, held[c].addr, n),
           held' = [held EXCEPT ![c].size = n], UNCHANGED <<limit, heapBase>>,
           words' = Written(c, EndOf(blocks[i]), n - blocks[i].size)
    PROVE  HeapInv'
<1>1. /\ i \in 1..Len(blocks) /\ blocks[i] \in Blocks
      /\ ~blocks[i].free /\ blocks[i].addr = held[c].addr /\ blocks[i].size = held[c].size
  BY ReallocFinds
<1>2. PICK a, z \in Nat : a = held[c].addr /\ z = held[c].size /\ z > 0 /\ n > z
  BY <1>1, Holding
<1>3. PICK e, more \in Nat : e = a + z /\ more = n - z
  <2>1. a + z \in Nat /\ n - z \in Nat
    BY <1>2
  <2>. QED  BY <2>1
<1>4. EndOf(blocks[i]) = e
  BY <1>1, <1>2, <1>3 DEF EndOf
<1>5. PICK s : s = blocks
  OBVIOUS
<1>6. PICK hi \in Nat : hi = limit /\ hi <= HeapHardLimit
  BY DEF HeapInv, HeapTypes
<1>7. heapBase \in Nat /\ HeapHardLimit \in Nat /\ Tiles(s, heapBase, hi) /\ s \in Seq(Blocks)
  BY <1>5, <1>6, GuestHeapAssumption DEF HeapInv, HeapTypes, Tiles
<1>8. i + 1 \in 1..Len(s) /\ i \in 1..(Len(s) - 1)
  BY <1>1, <1>5, <1>7
<1>9. PICK b \in Blocks : b = s[i + 1]
  BY <1>7, <1>8
<1>10. b.free /\ b.addr = e /\ b.size >= more
  BY <1>1, <1>2, <1>3, <1>4, <1>5, <1>7, <1>8, <1>9 DEF Tiles
<1>11. EndOf(b) \in Nat /\ EndOf(b) >= e + more /\ EndOf(b) <= hi
  <2>1. EndOf(b) \in Nat /\ EndOf(b) = b.addr + b.size /\ b.size \in Nat
    BY BlockType
  <2>2. EndOf(b) <= hi
    BY <1>7, <1>8, <1>9, TilesOrder
  <2>. QED  BY <1>10, <2>1, <2>2
<1>12. /\ words' = [w \in 0..HeapHardLimit |-> words'[w]]
       /\ \A w \in 0..HeapHardLimit : e <= w /\ w < e + more => words'[w] = c
       /\ \A w \in 0..HeapHardLimit : ~(e <= w /\ w < e + more) => words'[w] = words[w]
  <2>1. words' = Written(c, e, more)
    BY <1>1, <1>2, <1>3, <1>4
  <2>2. Wrote(c, e, more)
    BY <2>1, WrittenWords
  <2>. QED  BY <2>2 DEF Wrote
<1>13. ASSUME NEW w \in Nat, held[c].addr <= w /\ w < held[c].addr + n PROVE words'[w] = c
  <2>1. a <= w /\ w < a + n
    BY <1>2, <1>13
  <2>2. w \in 0..HeapHardLimit
    <3>1. a + n = e + more
      BY <1>2, <1>3
    <3>2. a + n <= HeapHardLimit
      BY <1>6, <1>7, <1>11, <3>1
    <3>. QED  BY <1>7, <2>1, <3>2
  <2>3. CASE e <= w
    <3>1. w < e + more
      BY <1>2, <1>3, <2>1
    <3>. QED  BY <1>12, <2>2, <2>3, <3>1
  <2>4. CASE ~(e <= w)
    <3>1. w \in Span(held[c])
      BY <1>2, <1>3, <2>1, <2>4 DEF Span
    <3>. QED  BY <1>12, <2>2, <2>4, <3>1 DEF HeapInv, WordsOwn
  <2>. QED  BY <2>3, <2>4
<1>14. ASSUME NEW d \in Clients, d # c, NEW w \in Span(held[d]) PROVE words'[w] = words[w]
  <2>1. ASSUME NEW x, NEW y, Used(s, x, y) PROVE x + y <= e \/ e + more <= x
    <3>1. ~InUse(s[i + 1], x, y)
      BY <1>9, <1>10 DEF InUse
    <3>2. x \in Nat /\ y \in Nat /\ (x + y <= s[i + 1].addr \/ EndOf(s[i + 1]) <= x)
      BY <1>7, <1>8, <2>1, <3>1, UsedWithin
    <3>. QED  BY <1>9, <1>10, <1>11, <3>2
  <2>2. \A x, y : Used(blocks, x, y) /\ ~(x = held[c].addr /\ y = held[c].size)
                  => x + y <= e \/ e + more <= x
    BY <1>5, <2>1
  <2>3. ~(e <= w /\ w < e + more)
    BY <1>14, <2>2, SpareGround
  <2>4. w \in 0..HeapHardLimit
    BY Holding
  <2>. QED  BY <1>12, <2>3, <2>4
<1>15. n > 0
  BY <1>2
<1>. QED  BY <1>12, <1>13, <1>14, <1>15, ResizeStep

\* Memory after a move of block i, old holding of c, to what r describes.
MovedWords(c, i, r, copied) ==
    [w \in DOMAIN words |->
        IF w \in r.addr..(r.addr + copied - 1) THEN words[blocks[i].addr + (w - r.addr)]
        ELSE IF w \in (r.addr + copied)..(r.addr + r.size - 1) THEN c
        ELSE IF w \in blocks[i].addr..(EndOf(blocks[i]) - 1) THEN Free
        ELSE words[w]]

\* guestRealloc, a block elsewhere.
LEMMA MoveStep ==
    ASSUME HeapInv, NEW c \in Clients, held[c].size > 0,
           NEW i, i = findGuestHeapBlockIndexLocked(blocks, held[c].addr),
           NEW size \in Nat, NEW al \in Nat \ {0},
           NEW r, r = allocateGuestBlockLocked(blocks, size, al), r.addr # 0,
           NEW copied, copied = (IF blocks[i].size < size THEN blocks[i].size ELSE size),
           blocks' = freeGuestBlockLocked(r.blocks, blocks[i].addr),
           held' = [held EXCEPT ![c] = [addr |-> r.addr, size |-> r.size]],
           UNCHANGED <<limit, heapBase>>,
           words' = MovedWords(c, i, r, copied)
    PROVE  HeapInv'
<1>1. /\ i \in 1..Len(blocks) /\ blocks[i] \in Blocks
      /\ ~blocks[i].free /\ blocks[i].addr = held[c].addr /\ blocks[i].size = held[c].size
  BY ReallocFinds
<1>2. PICK a, z \in Nat : a = held[c].addr /\ z = held[c].size /\ z > 0
  BY Holding
<1>3. blocks[i].addr = a /\ blocks[i].size = z /\ EndOf(blocks[i]) = a + z
  BY <1>1, <1>2 DEF EndOf
<1>4. PICK s : s = blocks
  OBVIOUS
<1>5. PICK hi \in Nat : hi = limit /\ hi <= HeapHardLimit
  BY DEF HeapInv, HeapTypes
<1>6. /\ heapBase \in Nat /\ HeapHardLimit \in Nat /\ Tiles(s, heapBase, hi) /\ Apart(s)
      /\ r = allocateGuestBlockLocked(s, size, al) /\ Used(s, a, z)
  BY <1>2, <1>4, <1>5, Holding, GuestHeapAssumption DEF HeapInv, HeapTypes
<1>7. /\ r.addr \in Nat /\ r.size \in Nat /\ r.size > 0 /\ r.addr + r.size <= hi
      /\ Tiles(r.blocks, heapBase, hi) /\ Apart(r.blocks)
      /\ \A x, y : Used(r.blocks, x, y) <=> Used(s, x, y) \/ (r.addr = x /\ r.size = y)
      /\ \A x, y : Used(s, x, y) => x + y <= r.addr \/ r.addr + r.size <= x
  <2>1. PICK lo \in Nat : lo = heapBase /\ Tiles(s, lo, hi)
    BY <1>6
  <2>2. Apart(s) /\ r = allocateGuestBlockLocked(s, size, al) /\ r.addr # 0
    BY <1>6
  <2>3. /\ r.addr \in Nat /\ r.size \in Nat /\ r.size > 0 /\ r.addr + r.size <= hi
        /\ Tiles(r.blocks, lo, hi) /\ Apart(r.blocks)
        /\ \A x, y : Used(r.blocks, x, y) <=> Used(s, x, y) \/ (r.addr = x /\ r.size = y)
        /\ \A x, y : Used(s, x, y) => x + y <= r.addr \/ r.addr + r.size <= x
    BY <1>5, <2>1, <2>2, AllocKeeps
  <2>. QED  BY <2>1, <2>3
<1>8. PICK a0 \in Nat : a0 = r.addr
  BY <1>7
<1>9. PICK z0 \in Nat : z0 = r.size /\ z0 > 0 /\ a0 + z0 <= hi
  BY <1>7, <1>8
<1>10. PICK t : t = freeGuestBlockLocked(r.blocks, a)
  OBVIOUS
<1>11. /\ Tiles(t, heapBase, hi) /\ Apart(t)
       /\ \A x, y : Used(t, x, y) <=> Used(r.blocks, x, y) /\ x # a
  <2>1. PICK u : u = r.blocks
    OBVIOUS
  <2>2. Tiles(u, heapBase, hi) /\ Used(u, a, z) /\ t = freeGuestBlockLocked(u, a)
    BY <1>6, <1>7, <1>10, <2>1
  <2>3. Tiles(t, heapBase, hi) /\ Apart(t) /\ \A x, y : Used(t, x, y) <=> Used(u, x, y) /\ x # a
    BY <1>6, <2>2, FreeKeeps
  <2>. QED  BY <2>1, <2>3
<1>12. a + z <= a0 \/ a0 + z0 <= a
  BY <1>6, <1>7, <1>8, <1>9
<1>13. a0 # a
  BY <1>2, <1>9, <1>12
<1>14. PICK h : h = [addr |-> a0, size |-> z0]
  OBVIOUS
<1>15. h \in Holdings /\ h.addr = a0 /\ h.size = z0
  BY <1>14 DEF Holdings
<1>16. copied \in Nat /\ copied <= z
  BY <1>3
<1>17. words = [w \in 0..HeapHardLimit |-> words[w]]
  BY DEF HeapInv, HeapTypes
<1>18. DOMAIN words = 0..HeapHardLimit
  BY <1>17
<1>19. words' = [w \in 0..HeapHardLimit |->
                    IF w \in a0..(a0 + copied - 1) THEN words[a + (w - a0)]
                    ELSE IF w \in (a0 + copied)..(a0 + z0 - 1) THEN c
                    ELSE IF w \in a..(a + z - 1) THEN Free
                    ELSE words[w]]
  BY <1>3, <1>8, <1>9, <1>18 DEF MovedWords
<1>20. PICK f : f = words'
  OBVIOUS
<1>21. \A w \in 0..HeapHardLimit :
          f[w] = IF w \in a0..(a0 + copied - 1) THEN words[a + (w - a0)]
                 ELSE IF w \in (a0 + copied)..(a0 + z0 - 1) THEN c
                 ELSE IF w \in a..(a + z - 1) THEN Free
                 ELSE words[w]
  BY <1>19, <1>20
<1>22. f = [w \in 0..HeapHardLimit |-> f[w]]
  BY <1>19, <1>20
<1>23. ASSUME NEW w \in Span(h) PROVE f[w] = c
  <2>1. w \in Nat /\ a0 <= w /\ w < a0 + z0
    BY <1>15 DEF Span
  <2>2. w \in 0..HeapHardLimit
    BY <1>5, <1>6, <1>9, <2>1
  <2>3. CASE w < a0 + copied
    <3>1. w \in a0..(a0 + copied - 1)
      BY <1>16, <2>1, <2>3
    <3>2. PICK v \in Nat : v = a + (w - a0) /\ a <= v /\ v < a + z
      <4>1. a + (w - a0) \in Nat /\ a <= a + (w - a0) /\ a + (w - a0) < a + z
        BY <1>16, <2>1, <2>3
      <4>. QED  BY <4>1
    <3>3. words[v] = c
      <4>1. v \in Span(held[c])
        BY <1>2, <3>2 DEF Span
      <4>. QED  BY <4>1 DEF HeapInv, WordsOwn
    <3>4. f[w] = words[a + (w - a0)]
      BY <1>21, <2>2, <3>1
    <3>. QED  BY <3>2, <3>3, <3>4
  <2>4. CASE ~(w < a0 + copied)
    <3>1. w \notin a0..(a0 + copied - 1) /\ w \in (a0 + copied)..(a0 + z0 - 1)
      BY <1>16, <2>1, <2>4
    <3>. QED  BY <1>21, <2>2, <3>1
  <2>. QED  BY <2>3, <2>4
<1>24. size > 0 /\ size <= z0
  <2>1. size > 0 /\ size <= MaxWord - (HeapAlign - 1) /\ z0 = alignGuestHeapValue(size, HeapAlign)
    BY <1>6, <1>9, AllocKeeps
  <2>. QED  BY <1>9, <2>1, AlignedSize
<1>25. ASSUME NEW d \in Clients, d # c, NEW w \in Span(held[d]) PROVE f[w] = words[w]
  <2>1. \A x, y : Used(blocks, x, y) /\ ~(x = held[c].addr /\ y = held[c].size)
                  => x + y <= a0 \/ a0 + z0 <= x
    BY <1>4, <1>7, <1>8, <1>9
  <2>2. ~(a0 <= w /\ w < a0 + z0)
    BY <1>25, <2>1, SpareGround
  <2>3. w \in 0..HeapHardLimit /\ Span(held[c]) \cap Span(held[d]) = {} /\ w \in Nat
    BY <1>25, Holding DEF Span
  <2>4. ~(a <= w /\ w < a + z)
    BY <1>2, <2>3 DEF Span
  <2>5. copied <= z0
    BY <1>3, <1>9, <1>16, <1>24
  <2>6. /\ w \notin a0..(a0 + copied - 1) /\ w \notin (a0 + copied)..(a0 + z0 - 1)
        /\ w \notin a..(a + z - 1)
    BY <1>16, <2>2, <2>3, <2>4, <2>5
  <2>. QED  BY <1>21, <2>3, <2>6
<1>26. \A x, y : Used(blocks', x, y)
                 <=> \/ Used(blocks, x, y) /\ ~(held[c].size > 0 /\ x = held[c].addr)
                     \/ h.size > 0 /\ h.addr = x /\ h.size = y
  <2>1. blocks' = t
    BY <1>3, <1>10
  <2>2. \A x, y : Used(t, x, y) <=> (Used(s, x, y) \/ (a0 = x /\ z0 = y)) /\ x # a
    BY <1>7, <1>8, <1>9, <1>11
  <2>. QED  BY <1>2, <1>4, <1>9, <1>13, <1>15, <2>1, <2>2
<1>27. Tiles(blocks', heapBase, limit) /\ Apart(blocks') /\ held' = [held EXCEPT ![c] = h]
  BY <1>3, <1>5, <1>8, <1>9, <1>10, <1>11, <1>14
<1>28. words' = [w \in 0..HeapHardLimit |-> words'[w]]
  BY <1>20, <1>22, Zenon
<1>29. \A w \in Span(h) : words'[w] = c
  BY <1>20, <1>23, Zenon
<1>30. \A d \in Clients : d # c => \A w \in Span(held[d]) : words'[w] = words[w]
  BY <1>20, <1>25, Zenon
<1>. QED  BY <1>15, <1>26, <1>27, <1>28, <1>29, <1>30, HolderStep

\* guestRealloc keeps the heap.
LEMMA ReallocKeeps ==
    ASSUME HeapInv, NEW c \in Clients, NEW size \in HeapSizes, NEW align \in HeapAligns,
           guestRealloc(c, size, align)
    PROVE  HeapInv'
<1>1. PICK al \in Nat \ {0} : al = normalizeGuestHeapAlignment(align)
  BY GuestHeapAssumption DEF normalizeGuestHeapAlignment
<1>2. PICK i : i = findGuestHeapBlockIndexLocked(blocks, held[c].addr)
  OBVIOUS
<1>3. PICK n : n = alignGuestHeapValue(size, HeapAlign)
  OBVIOUS
<1>4. PICK old : old = blocks[i]
  OBVIOUS
<1>5. PICK next : next = blocks[i + 1]
  OBVIOUS
<1>6. PICK room \in BOOLEAN : room <=> i < Len(blocks) /\ next.free /\ EndOf(old) = next.addr
                                         /\ old.size + next.size >= n
  OBVIOUS
<1>7. /\ held[c].size > 0 /\ size > 0 /\ size <= MaxWord - (HeapAlign - 1)
      /\ UNCHANGED <<limit, heapBase>>
  BY DEF guestRealloc
<1>8. size \in Nat /\ heapBase \in Nat /\ n \in Nat /\ n > 0
  <2>1. size \in Nat /\ heapBase \in Nat
    BY GuestHeapAssumption DEF HeapInv, HeapTypes
  <2>2. n \in Nat /\ n >= size
    BY <1>3, <1>7, <2>1, AlignedSize
  <2>. QED  BY <1>7, <2>1, <2>2
<1>9. /\ i \in 1..Len(blocks) /\ old \in Blocks
      /\ ~old.free /\ old.addr = held[c].addr /\ old.size = held[c].size
      /\ \A j \in 1..Len(blocks) : j # i => \A y : ~InUse(blocks[j], old.addr, y)
  BY <1>2, <1>4, <1>7, ReallocFinds
<1>10. old.size \in Nat
  BY <1>9, BlockType
<1>11. PICK s : s = blocks
  OBVIOUS
<1>12. PICK hi \in Nat : hi = limit
  BY DEF HeapInv, HeapTypes
<1>13. Tiles(s, heapBase, hi) /\ Apart(s) /\ s \in Seq(Blocks)
  BY <1>11, <1>12 DEF HeapInv, Tiles
<1>14. CASE /\ n <= old.size
            /\ blocks' = IF n = old.size THEN blocks
                         ELSE coalesceGuestHeapLocked(
                                 SubSeq(blocks, 1, i - 1)
                                 \o <<[old EXCEPT !.size = n],
                                      [addr |-> old.addr + n, size |-> old.size - n,
                                       free |-> TRUE]>>
                                 \o SubSeq(blocks, i + 1, Len(blocks)))
            /\ held' = [held EXCEPT ![c].size = n]
            /\ words' = Written(Free, old.addr + n, old.size - n)
  BY <1>2, <1>4, <1>7, <1>8, <1>14, ShrinkStep
<1>15. ASSUME room PROVE /\ i < Len(s) /\ s[i + 1] \in Blocks /\ s[i + 1].free /\ next = s[i + 1]
                         /\ next.size \in Nat /\ next.size >= n - old.size
  <2>1. i < Len(s) /\ next = s[i + 1] /\ next.free /\ old.size + next.size >= n
    BY <1>5, <1>6, <1>11, <1>15
  <2>2. s[i + 1] \in Blocks
    BY <1>9, <1>11, <1>13, <2>1
  <2>3. next.size \in Nat
    BY <2>1, <2>2, BlockType
  <2>. QED  BY <1>8, <1>10, <2>1, <2>2, <2>3
<1>16. CASE /\ n > old.size /\ room /\ next.size > n - old.size
            /\ blocks' = [blocks EXCEPT ![i].size = n, ![i + 1].addr = @ + (n - old.size),
                                        ![i + 1].size = @ - (n - old.size)]
            /\ held' = [held EXCEPT ![c].size = n]
            /\ words' = Written(c, EndOf(old), n - old.size)
  <2>1. PICK more \in Nat : more = n - old.size /\ more > 0
    <3>1. n - old.size \in Nat /\ n - old.size > 0
      BY <1>8, <1>10, <1>16
    <3>. QED  BY <3>1
  <2>2. PICK t : t = [s EXCEPT ![i].size = n, ![i + 1].addr = @ + more, ![i + 1].size = @ - more]
    OBVIOUS
  <2>3. Resized(s, t, heapBase, hi, s[i].addr, n)
    <3>1. i \in 1..Len(s) /\ ~s[i].free /\ i < Len(s) /\ s[i + 1].free
      BY <1>4, <1>9, <1>11, <1>15, <1>16
    <3>2. \A j \in 1..Len(s) : j # i => \A y : ~InUse(s[j], s[i].addr, y)
      BY <1>4, <1>9, <1>11
    <3>3. more = n - s[i].size /\ s[i + 1].size > more
      BY <1>4, <1>11, <1>15, <1>16, <2>1
    <3>. QED  BY <1>8, <1>13, <2>1, <2>2, <3>1, <3>2, <3>3, GrowKeeps
  <2>4. blocks' = t
    BY <1>11, <1>16, <2>1, <2>2
  <2>5. Resized(blocks, blocks', heapBase, limit, held[c].addr, n)
    BY <1>4, <1>9, <1>11, <1>12, <2>3, <2>4
  <2>6. n > blocks[i].size /\ i < Len(blocks) /\ blocks[i + 1].free
        /\ blocks[i + 1].size >= n - blocks[i].size
    BY <1>4, <1>5, <1>11, <1>15, <1>16
  <2>. QED  BY <1>2, <1>4, <1>7, <1>8, <1>16, <2>5, <2>6, ExtendStep
<1>17. CASE /\ n > old.size /\ room /\ next.size = n - old.size
            /\ blocks' = RemoveAt([blocks EXCEPT ![i].size = n], i + 1)
            /\ held' = [held EXCEPT ![c].size = n]
            /\ words' = Written(c, EndOf(old), n - old.size)
  <2>1. PICK t : t = RemoveAt([s EXCEPT ![i].size = n], i + 1)
    OBVIOUS
  <2>2. Resized(s, t, heapBase, hi, s[i].addr, n)
    <3>1. i \in 1..Len(s) /\ ~s[i].free /\ i < Len(s) /\ s[i + 1].free
      BY <1>4, <1>9, <1>11, <1>15, <1>17
    <3>2. \A j \in 1..Len(s) : j # i => \A y : ~InUse(s[j], s[i].addr, y)
      BY <1>4, <1>9, <1>11
    <3>3. n = s[i].size + s[i + 1].size
      BY <1>4, <1>8, <1>10, <1>11, <1>15, <1>17
    <3>. QED  BY <1>8, <1>13, <2>1, <3>1, <3>2, <3>3, SwallowKeeps
  <2>3. blocks' = t
    BY <1>11, <1>17, <2>1
  <2>4. Resized(blocks, blocks', heapBase, limit, held[c].addr, n)
    BY <1>4, <1>9, <1>11, <1>12, <2>2, <2>3
  <2>5. n > blocks[i].size /\ i < Len(blocks) /\ blocks[i + 1].free
        /\ blocks[i + 1].size >= n - blocks[i].size
    BY <1>4, <1>5, <1>11, <1>15, <1>17
  <2>. QED  BY <1>2, <1>4, <1>7, <1>8, <1>17, <2>4, <2>5, ExtendStep
<1>18. CASE LET r == allocateGuestBlockLocked(blocks, size, al)
                copied == IF old.size < size THEN old.size ELSE size
            IN  /\ r.addr # 0
                /\ blocks' = freeGuestBlockLocked(r.blocks, old.addr)
                /\ held' = [held EXCEPT ![c] = [addr |-> r.addr, size |-> r.size]]
                /\ words' = [w \in DOMAIN words |->
                      IF w \in r.addr..(r.addr + copied - 1) THEN words[old.addr + (w - r.addr)]
                      ELSE IF w \in (r.addr + copied)..(r.addr + r.size - 1) THEN c
                      ELSE IF w \in old.addr..(EndOf(old) - 1) THEN Free
                      ELSE words[w]]
  <2>1. PICK r : r = allocateGuestBlockLocked(blocks, size, al)
    OBVIOUS
  <2>2. PICK copied : copied = IF old.size < size THEN old.size ELSE size
    OBVIOUS
  <2>3. /\ r.addr # 0
        /\ blocks' = freeGuestBlockLocked(r.blocks, blocks[i].addr)
        /\ held' = [held EXCEPT ![c] = [addr |-> r.addr, size |-> r.size]]
    BY <1>4, <1>18, <2>1, Zenon
  <2>4. words' = MovedWords(c, i, r, copied)
    BY <1>4, <1>18, <2>1, <2>2, Zenon DEF MovedWords
  <2>5. copied = (IF blocks[i].size < size THEN blocks[i].size ELSE size)
    BY <1>4, <2>2, Zenon
  <2>6. held[c].size > 0 /\ size \in Nat /\ al \in Nat \ {0} /\ UNCHANGED <<limit, heapBase>>
    BY <1>1, <1>7, <1>8
  <2>. QED  BY <1>2, <2>1, <2>3, <2>4, <2>5, <2>6, MoveStep
<1>. QED  BY <1>1, <1>2, <1>3, <1>4, <1>5, <1>6, <1>14, <1>16, <1>17, <1>18 DEF guestRealloc

\* A heap of which nobody holds a block.
LEMMA LaidOut ==
    ASSUME HeapTypes', NEW t, blocks' = t, Tiles(t, heapBase', limit'), Apart(t),
           \A a, z : ~Used(t, a, z), \A c \in Clients : held'[c] = Nothing
    PROVE  HeapInv'
<1>1. Nothing.addr = 0 /\ Nothing.size = 0
  BY DEF Nothing
<1>2. \A c \in Clients : held'[c].addr = 0 /\ held'[c].size = 0
  BY <1>1
<1>3. HeldUsed'
  <2>1. \A c \in Clients : ~(held'[c].size > 0)
    BY <1>2
  <2>. QED  BY <2>1 DEF HeldUsed
<1>4. WordsOwn'
  <2>1. ASSUME NEW c \in Clients, NEW w \in Span(held'[c]) PROVE FALSE
    BY <1>2, <2>1 DEF Span
  <2>. QED  BY <2>1 DEF WordsOwn
<1>. QED  BY <1>3, <1>4 DEF HeapInv

\* configureGuestHeap lays out a new heap, or none.
LEMMA ConfigureKeeps ==
    ASSUME HeapInv, suggestedBase \in Nat \ {0}, NEW base0 \in HeapBases, NEW l \in HeapLimits,
           configureGuestHeap(base0, l)
    PROVE  HeapInv' /\ suggestedBase' \in Nat \ {0}
<1>1. PICK aligned : aligned = alignGuestHeapValue(clampGuestHeapBase(base0), HeapAlign)
  OBVIOUS
<1>2. PICK from : from = IF aligned = 0 THEN suggestedBase ELSE aligned
  OBVIOUS
<1>3. PICK to : to = IF clampGuestHeapLimit(l) <= from THEN HeapHardLimit
                     ELSE clampGuestHeapLimit(l)
  OBVIOUS
<1>4. /\ suggestedBase' = from /\ held' = [c \in Clients |-> Nothing]
      /\ words' = [w \in DOMAIN words |-> Free]
      /\ \/ /\ from < to /\ heapBase' = from /\ limit' = to
            /\ blocks' = <<[addr |-> from, size |-> to - from, free |-> TRUE]>>
         \/ from >= to /\ blocks' = <<>> /\ heapBase' = 0 /\ limit' = 0
  BY <1>1, <1>2, <1>3 DEF configureGuestHeap
<1>5. aligned \in Nat
  <2>1. PICK c \in Nat : c = clampGuestHeapBase(base0)
    BY GuestHeapAssumption DEF clampGuestHeapBase
  <2>2. MaxWord \in Nat /\ HeapAlign \in Nat \ {0} /\ aligned = alignGuestHeapValue(c, HeapAlign)
    BY <1>1, <2>1, GuestHeapAssumption
  <2>3. CASE c > MaxWord - (HeapAlign - 1)
    BY <2>2, <2>3 DEF alignGuestHeapValue
  <2>4. CASE ~(c > MaxWord - (HeapAlign - 1))
    <3>1. PICK k \in Nat : k = (c + HeapAlign - 1) \div HeapAlign
      BY <2>2
    <3>2. aligned = k * HeapAlign
      BY <2>2, <2>4, <3>1 DEF alignGuestHeapValue
    <3>. QED  BY <2>2, <3>2
  <2>. QED  BY <2>3, <2>4
<1>6. from \in Nat \ {0}
  BY <1>2, <1>5
<1>7. to \in Nat /\ to <= HeapHardLimit /\ HeapHardLimit \in Nat
  BY <1>3, GuestHeapAssumption DEF clampGuestHeapLimit
<1>8. /\ held' \in [Clients -> Holdings] /\ \A c \in Clients : held'[c] = Nothing
      /\ words' = [w \in 0..HeapHardLimit |-> words'[w]]
  <2>1. Nothing \in Holdings
    BY DEF Nothing, Holdings
  <2>2. DOMAIN words = 0..HeapHardLimit
    BY DEF HeapInv, HeapTypes
  <2>. QED  BY <1>4, <2>1, <2>2
<1>9. CASE from < to
  <2>1. PICK b : b = [addr |-> from, size |-> to - from, free |-> TRUE]
    OBVIOUS
  <2>2. b \in Blocks /\ b.free /\ b.addr = from /\ EndOf(b) = to
    <3>1. to - from \in Nat \ {0}
      BY <1>6, <1>7, <1>9
    <3>2. b \in Blocks /\ b.free /\ b.addr = from /\ b.size = to - from
      BY <1>6, <2>1, <3>1 DEF Blocks
    <3>. QED  BY <1>6, <1>7, <3>2 DEF EndOf
  <2>3. PICK t : t = <<b>>
    OBVIOUS
  <2>4. Tiles(t, from, to) /\ Apart(t) /\ \A a, z : ~Used(t, a, z)
    <3>1. \A a, z : ~InUse(b, a, z)
      BY <2>2 DEF InUse
    <3>. QED  BY <2>2, <2>3, <3>1, TilesOne
  <2>5. heapBase' = from /\ limit' = to /\ blocks' = t
    BY <1>4, <1>6, <1>7, <1>9, <2>1, <2>3
  <2>6. HeapTypes'
    BY <1>6, <1>7, <1>8, <1>9, <2>5 DEF HeapTypes
  <2>7. HeapInv'
    BY <1>8, <2>4, <2>5, <2>6, LaidOut
  <2>. QED  BY <1>4, <1>6, <2>7
<1>10. CASE ~(from < to)
  <2>1. PICK t : t = <<>> /\ t \in Seq(Blocks) /\ Len(t) = 0
    BY EmptySeq
  <2>2. heapBase' = 0 /\ limit' = 0 /\ blocks' = t
    BY <1>4, <1>10, <2>1
  <2>3. Tiles(t, 0, 0) /\ Apart(t) /\ \A a, z : ~Used(t, a, z)
    BY <2>1 DEF Tiles, Apart, Used
  <2>4. HeapTypes'
    BY <1>7, <1>8, <2>2 DEF HeapTypes
  <2>5. HeapInv'
    BY <1>8, <2>2, <2>3, <2>4, LaidOut
  <2>. QED  BY <1>4, <1>6, <2>5
<1>. QED  BY <1>9, <1>10

\* The heap starts as one free block.
LEMMA HeapStarts ==
    ASSUME HeapInit PROVE HeapInv /\ suggestedBase \in Nat \ {0}
<1>1. /\ blocks = <<[addr |-> HeapBase, size |-> HeapHardLimit - HeapBase, free |-> TRUE]>>
      /\ limit = HeapHardLimit /\ held = [c \in Clients |-> Nothing]
      /\ words = [w \in 0..HeapHardLimit |-> Free] /\ heapBase = HeapBase
      /\ suggestedBase = HeapBase
  BY DEF HeapInit
<1>2. HeapBase \in Nat \ {0} /\ HeapHardLimit \in Nat /\ HeapBase < HeapHardLimit
  BY GuestHeapAssumption
<1>3. PICK b : b = [addr |-> HeapBase, size |-> HeapHardLimit - HeapBase, free |-> TRUE]
  OBVIOUS
<1>4. b \in Blocks /\ b.free /\ b.addr = HeapBase /\ EndOf(b) = HeapHardLimit
  <2>1. HeapHardLimit - HeapBase \in Nat \ {0}
    BY <1>2
  <2>2. b \in Blocks /\ b.free /\ b.addr = HeapBase /\ b.size = HeapHardLimit - HeapBase
    BY <1>2, <1>3, <2>1 DEF Blocks
  <2>. QED  BY <1>2, <2>2 DEF EndOf
<1>5. PICK t : t = <<b>>
  OBVIOUS
<1>6. Tiles(t, HeapBase, HeapHardLimit) /\ Apart(t) /\ \A a, z : ~Used(t, a, z)
  <2>1. \A a, z : ~InUse(b, a, z)
    BY <1>4 DEF InUse
  <2>. QED  BY <1>2, <1>4, <1>5, <2>1, TilesOne
<1>7. blocks = t
  BY <1>1, <1>3, <1>5
<1>8. \A c \in Clients : held[c] \in Holdings /\ held[c].addr = 0 /\ held[c].size = 0
  BY <1>1 DEF Holdings, Nothing
<1>9. HeapTypes
  <2>1. held \in [Clients -> Holdings]
    BY <1>1 DEF Holdings, Nothing
  <2>2. words = [w \in 0..HeapHardLimit |-> words[w]]
    BY <1>1
  <2>. QED  BY <1>1, <1>2, <2>1, <2>2 DEF HeapTypes
<1>10. HeldUsed
  <2>1. \A c \in Clients : ~(held[c].size > 0)
    BY <1>8
  <2>. QED  BY <1>6, <1>7, <2>1 DEF HeldUsed
<1>11. WordsOwn
  <2>1. ASSUME NEW c \in Clients, NEW w \in Span(held[c]) PROVE FALSE
    BY <1>8, <2>1 DEF Span
  <2>. QED  BY <2>1 DEF WordsOwn
<1>. QED  BY <1>1, <1>2, <1>6, <1>7, <1>9, <1>10, <1>11 DEF HeapInv

\* A step that leaves the heap alone.
LEMMA HeapUnchanged ==
    ASSUME HeapInv, UNCHANGED <<blocks, heapBase, limit, held, words>>
    PROVE  HeapInv'
<1>1. HeapTypes'
  BY DEF HeapInv, HeapTypes
<1>2. HeldUsed'
  BY DEF HeapInv, HeldUsed
<1>3. WordsOwn'
  BY DEF HeapInv, WordsOwn
<1>4. Tiles(blocks', heapBase', limit') /\ Apart(blocks')
  BY DEF HeapInv
<1>. QED  BY <1>1, <1>2, <1>3, <1>4 DEF HeapInv

\* Every step of the allocator keeps the heap.
LEMMA HeapNextKeeps ==
    ASSUME HeapInv, suggestedBase \in Nat \ {0}, HeapNext
    PROVE  HeapInv' /\ suggestedBase' \in Nat \ {0}
<1>1. ASSUME NEW c \in Clients, guestFree(c) PROVE HeapInv' /\ suggestedBase' = suggestedBase
  BY <1>1, GuestFreeKeeps DEF guestFree
<1>2. ASSUME NEW c \in Clients, NEW size \in HeapSizes, NEW align \in HeapAligns,
             guestMalloc(c, size, align)
      PROVE  HeapInv' /\ suggestedBase' = suggestedBase
  <2>1. suggestedBase' = suggestedBase
    BY <1>2 DEF guestMalloc
  <2>. QED  BY <1>2, <2>1, MallocKeeps
<1>3. ASSUME NEW c \in Clients, NEW size \in HeapSizes, NEW align \in HeapAligns,
             guestRealloc(c, size, align)
      PROVE  HeapInv' /\ suggestedBase' = suggestedBase
  <2>1. suggestedBase' = suggestedBase
    BY <1>3 DEF guestRealloc
  <2>. QED  BY <1>3, <2>1, ReallocKeeps
<1>4. ASSUME NEW base0 \in HeapBases, NEW l \in HeapLimits, configureGuestHeap(base0, l)
      PROVE  HeapInv' /\ suggestedBase' \in Nat \ {0}
  BY <1>4, ConfigureKeeps
<1>5. ASSUME NEW size \in HeapSizes, NEW align \in HeapAligns,
             carve(size, normalizeGuestHeapAlignment(align))
      PROVE  HeapInv' /\ suggestedBase' = suggestedBase
  <2>1. UNCHANGED <<blocks, heapBase, suggestedBase, limit, held, words>>
    BY <1>5 DEF carve
  <2>. QED  BY <2>1, HeapUnchanged
<1>. QED  BY <1>1, <1>2, <1>3, <1>4, <1>5 DEF HeapNext

\* The words, as the property has them.
LEMMA HeapInvContents ==
    ASSUME HeapInv PROVE ContentsKept
<1>. SUFFICES ASSUME NEW c \in Clients, NEW w \in held[c].addr..(held[c].addr + held[c].size - 1)
              PROVE  words[w] = c
  BY DEF ContentsKept
<1>1. PICK a \in Nat : a = held[c].addr
  BY Holding
<1>2. PICK z \in Nat : z = held[c].size
  BY Holding
<1>3. w \in a..(a + z - 1)
  BY <1>1, <1>2
<1>4. w \in Nat /\ a <= w /\ w < a + z
  BY <1>3
<1>5. w \in Span(held[c])
  BY <1>1, <1>2, <1>4 DEF Span
<1>. QED  BY <1>5 DEF HeapInv, WordsOwn

\* The list, as the property has it.
LEMMA HeapInvTiled ==
    ASSUME HeapInv PROVE HeapTiled
<1>1. PICK s : s = blocks
  OBVIOUS
<1>2. PICK hi \in Nat : hi = limit
  BY DEF HeapInv, HeapTypes
<1>3. heapBase \in Nat /\ Tiles(s, heapBase, hi) /\ Apart(s) /\ s \in Seq(Blocks)
  BY <1>1, <1>2 DEF HeapInv, HeapTypes, Tiles
<1>4. PICK n \in Nat : n = Len(s)
  BY <1>3
<1>5. /\ n = 0 => heapBase = hi
      /\ n # 0 => s[1].addr = heapBase /\ EndOf(s[n]) = hi
  BY <1>2, <1>3, <1>4 DEF Tiles
<1>6. \A i \in 1..(n - 1) : EndOf(s[i]) = s[i + 1].addr /\ ~(s[i].free /\ s[i + 1].free)
  BY <1>3, <1>4 DEF Tiles, Apart
<1>7. IF blocks = <<>> THEN heapBase = limit
      ELSE blocks[1].addr = heapBase /\ EndOf(Last(blocks)) = limit
  <2>1. blocks = <<>> <=> n = 0
    BY <1>1, <1>3, <1>4, EmptySeq
  <2>. QED  BY <1>1, <1>2, <1>4, <1>5, <2>1 DEF Last
<1>8. \A b : b \in ToSet(blocks) <=> \E i \in 1..Len(s) : b = s[i]
  BY <1>1 DEF ToSet
<1>9. {[addr |-> b.addr, size |-> b.size] : b \in {x \in ToSet(blocks) : ~x.free}}
      = {held[c] : c \in {d \in Clients : held[d].size > 0}}
  <2>1. ASSUME NEW b \in ToSet(blocks), ~b.free
        PROVE  \E c \in Clients : held[c].size > 0 /\ held[c] = [addr |-> b.addr, size |-> b.size]
    <3>1. PICK a, z : a = b.addr /\ z = b.size
      OBVIOUS
    <3>2. PICK i \in 1..Len(s) : b = s[i]
      BY <1>8, <2>1
    <3>3. InUse(s[i], a, z)
      BY <2>1, <3>1, <3>2 DEF InUse
    <3>4. Used(blocks, a, z)
      BY <1>1, <3>3 DEF Used
    <3>5. PICK c \in Clients : held[c].size > 0 /\ held[c].addr = a /\ held[c].size = z
      BY <3>4 DEF HeapInv, HeldUsed
    <3>6. held[c] \in Holdings
      BY Holding
    <3>7. held[c] = [addr |-> a, size |-> z]
      BY <3>5, <3>6 DEF Holdings
    <3>. QED  BY <3>1, <3>5, <3>7
  <2>2. ASSUME NEW c \in Clients, held[c].size > 0
        PROVE  \E b \in ToSet(blocks) : ~b.free /\ held[c] = [addr |-> b.addr, size |-> b.size]
    <3>1. PICK a, z : a = held[c].addr /\ z = held[c].size
      OBVIOUS
    <3>2. Used(s, a, z)
      BY <1>1, <2>2, <3>1, Holding
    <3>3. PICK i \in 1..Len(s) : InUse(s[i], a, z)
      BY <3>2 DEF Used
    <3>4. PICK b : b = s[i]
      OBVIOUS
    <3>5. b \in ToSet(blocks) /\ ~b.free /\ b.addr = a /\ b.size = z
      BY <1>8, <3>3, <3>4 DEF InUse
    <3>6. held[c] \in Holdings
      BY Holding
    <3>7. held[c] = [addr |-> a, size |-> z]
      BY <3>1, <3>6 DEF Holdings
    <3>. QED  BY <3>5, <3>7
  <2>3. PICK A : A = {[addr |-> b.addr, size |-> b.size] : b \in {x \in ToSet(blocks) : ~x.free}}
    OBVIOUS
  <2>4. PICK B : B = {held[c] : c \in {d \in Clients : held[d].size > 0}}
    OBVIOUS
  <2>5. ASSUME NEW y \in A PROVE y \in B
    <3>1. PICK b \in ToSet(blocks) : ~b.free /\ y = [addr |-> b.addr, size |-> b.size]
      BY <2>3, <2>5
    <3>2. PICK c \in Clients : held[c].size > 0 /\ held[c] = y
      BY <2>1, <3>1
    <3>. QED  BY <2>4, <3>2
  <2>6. ASSUME NEW y \in B PROVE y \in A
    <3>1. PICK c \in Clients : held[c].size > 0 /\ y = held[c]
      BY <2>4, <2>6
    <3>2. PICK b \in ToSet(blocks) : ~b.free /\ y = [addr |-> b.addr, size |-> b.size]
      BY <2>2, <3>1
    <3>. QED  BY <2>3, <3>2
  <2>7. A = B
    BY <2>5, <2>6
  <2>. QED  BY <2>3, <2>4, <2>7, Zenon
<1>10. \A i \in 1..(Len(blocks) - 1) :
          EndOf(blocks[i]) = blocks[i + 1].addr /\ ~(blocks[i].free /\ blocks[i + 1].free)
  BY <1>1, <1>4, <1>6
<1>. QED  BY <1>7, <1>9, <1>10 DEF HeapTiled

\* The heap is in order in every state.
LEMMA HeapInvariant == Spec => []HeapInv
<1> DEFINE Kept == HeapInv /\ suggestedBase \in Nat \ {0}
<1>1. Init => Kept
  BY HeapStarts DEF Init
<1>2. Kept /\ [Next]_vars => Kept'
  <2>. SUFFICES ASSUME HeapInv, suggestedBase \in Nat \ {0}, [Next]_vars
                PROVE  HeapInv' /\ suggestedBase' \in Nat \ {0}
    OBVIOUS
  <2>1. CASE HeapNext
    BY <2>1, HeapNextKeeps
  <2>2. CASE UNCHANGED heapVars
    <3>1. UNCHANGED <<blocks, heapBase, suggestedBase, limit, held, words>>
      BY <2>2 DEF heapVars
    <3>. QED  BY <3>1, HeapUnchanged
  <2>. QED  BY <2>1, <2>2 DEF Next, vars
<1>3. Kept => HeapInv
  OBVIOUS
<1>. QED  BY <1>1, <1>2, <1>3, PTL DEF Spec

\* HeapSound holds of every behaviour: the blocks of the allocator tile the heap, no two
\* free ones touch, what is in use is exactly what the clients hold, and each client
\* finds its own words in its block, through every malloc, free, realloc and SetupHeap
\* (ps2_runtime.cpp 2319-2568); the callback stacks stay apart.
THEOREM HeapKept == Spec => []HeapSound
<1>1. HeapInv /\ StacksDisjoint => HeapSound
  BY HeapInvContents, HeapInvTiled DEF HeapSound
<1>. QED  BY <1>1, HeapInvariant, StacksApart, PTL
=============================================================================
