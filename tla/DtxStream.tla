------------------------------ MODULE DtxStream ------------------------------
(***************************************************************************)
(* The emulated far end of the DTX audio streams (RPC.cpp): the remote     *)
(* rings (SJRMT) a game creates by RPC, the links (SJX) whose chunks       *)
(* arrive by DMA, and the players (PS2RNA) that drain the rings.           *)
(*                                                                         *)
(* Bytes are counted and not kept.  A user of a ring holds at most one     *)
(* chunk of each stream, gives back what it took, and holds none across a  *)
(* reset or a destroy; one ring is filled by its user or by its link, not  *)
(* by both at once.                                                        *)
(***************************************************************************)
EXTENDS Integers, FiniteSets, FiniteSetsExt

CONSTANTS
    Capacity,     \* wkSize of every ring, as dtxNormalizeSjrmtCapacity left it
    ChunkSizes,   \* sizes asked for and sent
    UrpcObjects,  \* handles between urpcObjBase and urpcObjLimit: 1..n
    MaxObjects,   \* objects alive at a time
    MaxRings      \* rings among them

ASSUME DtxAssumption ==
    /\ Capacity \in Nat \ {0} /\ ChunkSizes \subseteq Nat
    /\ IsFiniteSet(UrpcObjects) /\ UrpcObjects = 1..Cardinality(UrpcObjects)
    /\ MaxObjects \in Nat /\ MaxObjects < Cardinality(UrpcObjects)

VARIABLES
    sjrmt,    \* g_dtx_sjrmt_by_handle
    sjx,      \* g_dtx_sjx_by_handle: the ring a link fills
    ps2rna,   \* g_dtx_ps2rna_by_handle
    nextObj,  \* g_dtx_next_urpc_obj
    chunks    \* the bytes a ring's user holds of its streams

dtxVars == <<sjrmt, sjx, ps2rna, nextObj, chunks>>

Room == 0
Data == 1

DtxTypeOK ==
    /\ DOMAIN sjrmt \cup DOMAIN sjx \cup DOMAIN ps2rna \subseteq UrpcObjects
    /\ \A h \in DOMAIN sjrmt :
         sjrmt[h] \in [readPos : 0..Capacity - 1, writePos : 0..Capacity - 1,
                       bytes : [{Room, Data} -> 0..Capacity]]
    /\ \A h \in DOMAIN sjx : sjx[h] \in UrpcObjects
    /\ \A h \in DOMAIN ps2rna : ps2rna[h] \in [sj : UrpcObjects, playEnabled : BOOLEAN]
    /\ nextObj \in UrpcObjects
    /\ chunks \in [UrpcObjects -> [{Room, Data} -> 0..Capacity]]

-----------------------------------------------------------------------------
Live == DOMAIN sjrmt \cup DOMAIN sjx \cup DOMAIN ps2rna

Following(h) == (h % Cardinality(UrpcObjects)) + 1

\* How far round the range h is from where the search begins.
Distance(h) == (h - nextObj) % Cardinality(UrpcObjects)

FirstFrom(free) == CHOOSE h \in free : \A g \in free : Distance(h) <= Distance(g)

\* The next handle no object of any kind has.  The 4096 tries of the search go round
\* the whole range (1016 handles in the layout the game sets), the remotes it also
\* asks for have addresses of the server pool, outside the range, and with fewer
\* objects than handles it never comes to its last resort, urpcObjBase.
dtxAllocUrpcHandleLocked == FirstFrom(UrpcObjects \ Live)

With(f, h, v) == [g \in DOMAIN f \cup {h} |-> IF g = h THEN v ELSE f[g]]
Without(f, h) == [g \in DOMAIN f \ {h} |-> f[g]]

None == [s \in {Room, Data} |-> 0]

EmptyRing == [readPos |-> 0, writePos |-> 0, bytes |-> [None EXCEPT ![Room] = Capacity]]

\* resetDtxRpcStateUnlocked
DtxInit ==
    /\ sjrmt = <<>> /\ sjx = <<>> /\ ps2rna = <<>>
    /\ nextObj = 1
    /\ chunks = [h \in UrpcObjects |-> None]

CanCreate == Cardinality(DOMAIN sjrmt) + Cardinality(DOMAIN sjx) + Cardinality(DOMAIN ps2rna) < MaxObjects

CreateRing ==
    /\ CanCreate /\ Cardinality(DOMAIN sjrmt) < MaxRings
    /\ LET h == dtxAllocUrpcHandleLocked
       IN sjrmt' = With(sjrmt, h, EmptyRing) /\ nextObj' = Following(h)
    /\ UNCHANGED <<sjx, ps2rna, chunks>>

CreateLink(sj) ==
    /\ CanCreate /\ chunks[sj][Room] = 0
    /\ LET h == dtxAllocUrpcHandleLocked
       IN sjx' = With(sjx, h, sj) /\ nextObj' = Following(h)
    /\ UNCHANGED <<sjrmt, ps2rna, chunks>>

CreatePlayer(sj) ==
    /\ CanCreate
    /\ LET h == dtxAllocUrpcHandleLocked
       IN /\ ps2rna' = With(ps2rna, h, [sj |-> sj, playEnabled |-> FALSE])
          /\ nextObj' = Following(h)
    /\ UNCHANGED <<sjrmt, sjx, chunks>>

\* A destroy erases the object of its own kind and nothing that refers to it.
Destroy ==
    /\ \/ \E h \in DOMAIN sjrmt :
            /\ sjrmt' = Without(sjrmt, h)
            /\ chunks' = [chunks EXCEPT ![h] = None]
            /\ UNCHANGED <<sjx, ps2rna>>
       \/ \E h \in DOMAIN sjx : sjx' = Without(sjx, h) /\ UNCHANGED <<sjrmt, ps2rna, chunks>>
       \/ \E h \in DOMAIN ps2rna : ps2rna' = Without(ps2rna, h) /\ UNCHANGED <<sjrmt, sjx, chunks>>
    /\ UNCHANGED nextObj

-----------------------------------------------------------------------------
Clamp(n) == Min({Capacity, n})

\* The position a stream's chunks are taken from.
Position(s) == IF s = Room THEN "writePos" ELSE "readPos"

Filled(h) == \E x \in DOMAIN sjx : sjx[x] = h

\* SJRMT_GET_CHUNK: at most what the stream has, from its position.
GetChunk(h, s, nbyte) ==
    LET len == Min({nbyte, sjrmt[h].bytes[s]})
    IN /\ chunks[h][s] = 0 /\ len > 0
       /\ s = Room => ~Filled(h)
       /\ sjrmt' = [sjrmt EXCEPT ![h][Position(s)] = (@ + len) % Capacity,
                                 ![h].bytes[s] = @ - len]
       /\ chunks' = [chunks EXCEPT ![h][s] = len]
       /\ UNCHANGED <<sjx, ps2rna, nextObj>>

\* Mutant of UngetChunk: the position stays where the chunk ended.
UngetChunkStays(h, s, len) ==
    /\ 0 < len /\ len <= chunks[h][s]
    /\ sjrmt' = [sjrmt EXCEPT ![h].bytes[s] = Clamp(@ + len)]
    /\ chunks' = [chunks EXCEPT ![h][s] = @ - len]
    /\ UNCHANGED <<sjx, ps2rna, nextObj>>

\* SJRMT_UNGET_CHUNK: the tail of a chunk goes back to the stream it came from.
UngetChunk(h, s, len) ==
    /\ 0 < len /\ len <= chunks[h][s]
    /\ sjrmt' = [sjrmt EXCEPT
            ![h][Position(s)] = (@ + Capacity - (len % Capacity)) % Capacity,
            ![h].bytes[s] = Clamp(@ + len)]
    /\ chunks' = [chunks EXCEPT ![h][s] = @ - len]
    /\ UNCHANGED <<sjx, ps2rna, nextObj>>

\* SJRMT_PUT_CHUNK: what was room is now data, and what was data is room.
PutChunk(h, s, len) ==
    /\ 0 < len /\ len = chunks[h][1 - s]
    /\ sjrmt' = [sjrmt EXCEPT ![h].bytes[s] = Clamp(@ + len)]
    /\ chunks' = [chunks EXCEPT ![h][1 - s] = @ - len]
    /\ UNCHANGED <<sjx, ps2rna, nextObj>>

\* SJRMT_RESET
ResetRing(h) ==
    /\ sjrmt' = [sjrmt EXCEPT ![h] = EmptyRing]
    /\ chunks' = [chunks EXCEPT ![h] = None]
    /\ UNCHANGED <<sjx, ps2rna, nextObj>>

dtxAppendToSjrmtData(ring, len) ==
    LET n == Min({len, ring.bytes[Room]})
    IN [ring EXCEPT !.writePos = (@ + n) % Capacity,
                    !.bytes[Room] = @ - n, !.bytes[Data] = Clamp(@ + n)]

dtxConsumeSjrmtDataLocked(ring) ==
    LET n == Clamp(ring.bytes[Data])
    IN [ring EXCEPT !.readPos = (@ + n) % Capacity,
                    !.bytes[Data] = @ - n, !.bytes[Room] = Clamp(@ + n)]

\* The rings of the players that play are drained.
dtxConsumeActivePs2RnaStreamsLocked(rings, players) ==
    LET playing == {players[p].sj : p \in {q \in DOMAIN players : players[q].playEnabled}}
    IN [h \in DOMAIN rings |->
            IF h \in playing THEN dtxConsumeSjrmtDataLocked(rings[h]) ELSE rings[h]]

\* A DMA of commands, whose chunks are appended to the rings their links fill, as
\* far as there is room: sent is the bytes of all the commands for a ring, since one
\* append of their sum does what theirs do one after another.  A command whose link
\* or ring is gone sends nothing.  The players drain once, behind the last command.
dtxApplySjxPayload(sent) ==
    LET rings == [h \in DOMAIN sjrmt |-> dtxAppendToSjrmtData(sjrmt[h], sent[h])]
    IN /\ \A h \in DOMAIN sjrmt : sent[h] # 0 => Filled(h)
       /\ sjrmt' = dtxConsumeActivePs2RnaStreamsLocked(rings, ps2rna)
       /\ UNCHANGED <<sjx, ps2rna, nextObj, chunks>>

\* A DMA of a player's command: start, stop, or a parameter.
dtxApplyPs2RnaPayload(p, play) ==
    LET players == [ps2rna EXCEPT ![p].playEnabled = play]
    IN /\ ps2rna' = players
       /\ sjrmt' = dtxConsumeActivePs2RnaStreamsLocked(sjrmt, players)
       /\ UNCHANGED <<sjx, nextObj, chunks>>

noteDtxSifDmaTransfer ==
    \/ \E sent \in [DOMAIN sjrmt -> ChunkSizes \cup {0}] : dtxApplySjxPayload(sent)
    \/ \E p \in DOMAIN ps2rna, play \in BOOLEAN : dtxApplyPs2RnaPayload(p, play)

\* The far end is initialised again (SifInitRpc, setDtxCompatLayout).
resetDtxRpcState ==
    /\ sjrmt' = <<>> /\ sjx' = <<>> /\ ps2rna' = <<>> /\ nextObj' = 1
    /\ chunks' = [h \in UrpcObjects |-> None]

DtxNext ==
    \/ CreateRing
    \/ \E sj \in DOMAIN sjrmt : CreateLink(sj) \/ CreatePlayer(sj) \/ ResetRing(sj)
    \/ Destroy
    \/ \E h \in DOMAIN sjrmt, s \in {Room, Data} :
         \/ \E n \in ChunkSizes : GetChunk(h, s, n)
         \/ \E n \in 1..chunks[h][s] : UngetChunk(h, s, n)
         \/ PutChunk(h, s, chunks[h][1 - s])
    \/ noteDtxSifDmaTransfer
    \/ resetDtxRpcState

-----------------------------------------------------------------------------
(***************************************************************************)
(* The properties.                                                         *)
(***************************************************************************)

\* However chunks are taken, given back whole or in part, appended by DMA and
\* drained by players, a ring neither loses nor invents a byte, and the place
\* the next data goes to is the end of the data and of the chunk being filled:
\* a slip of one byte in dtxAppendToSjrmtData, dtxConsumeSjrmtDataLocked or the
\* chunk commands shifts the stream for good.
RingConserved ==
    \A h \in DOMAIN sjrmt :
        LET r == sjrmt[h]
        IN /\ r.bytes[Room] + r.bytes[Data] + chunks[h][Room] + chunks[h][Data] = Capacity
           /\ r.writePos = (r.readPos + r.bytes[Data] + chunks[h][Room]) % Capacity

\* dtxAllocUrpcHandleLocked hands out no handle that a live ring, link or player
\* has, so the three tables never answer to the same handle.
HandlesApart ==
    /\ DOMAIN sjrmt \cap DOMAIN sjx = {}
    /\ DOMAIN sjrmt \cap DOMAIN ps2rna = {}
    /\ DOMAIN sjx \cap DOMAIN ps2rna = {}

\* What the streams keep, whatever the guest's library sends.
DtxSound == RingConserved /\ HandlesApart
=============================================================================
