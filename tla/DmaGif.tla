------------------------------- MODULE DmaGif -------------------------------
(***************************************************************************)
(* The DMA channels that feed the GS (PS2Memory::writeIORegister,          *)
(* processPendingTransfers and submitGifPacket of ps2_memory.cpp): a write *)
(* of CHCR.STR walks the tag chain, or takes one block, and hands what it  *)
(* gathered to the GIF's PATH3 or to VIF1, whose codes draw through PATH2  *)
(* and mask PATH3.  The GIF arbiter is installed, as init() installs it,   *)
(* so a kick is processed before the write returns.                        *)
(*                                                                         *)
(* Memory is counted in quadwords and a word of data is its address.  A    *)
(* tag's upper half is one VIF code that acts on the payload of its tag.   *)
(***************************************************************************)
EXTENDS Integers, Sequences, SequencesExt

CONSTANTS
    DmaChains,   \* the tags of guest memory, by address; a behaviour uses one
    ChainStart,  \* the address the chain is kicked with
    MaxChainTags,\* kMaxChainTags
    MaxKicks     \* bound: kicks in a behaviour

\* A DMAtag: its identifier, where its data is, whether it interrupts, and the VIF
\* code that its upper half holds.
Tags == [id : {"refe", "cnt", "next", "ref", "call", "ret", "end"}, qwc : Nat, addr : Nat,
         irq : BOOLEAN, code : {"nop", "mask", "unmask", "direct"}]

ASSUME DmaGifAssumption ==
    /\ MaxChainTags \in Nat /\ MaxKicks \in Nat
    /\ \A m \in DmaChains : /\ ChainStart \in DOMAIN m /\ DOMAIN m \subseteq Nat
                            /\ \A a \in DOMAIN m : m[a] \in Tags

VARIABLES
    tags,     \* the tags in memory; never changes
    chan,     \* the registers of a channel
    dmae,     \* D_CTRL.DMAE
    dstat,    \* the channels whose D_STAT bit is set
    causes,   \* m_completedDmacCauses
    masked,   \* m_path3Masked
    fifo,     \* m_path3MaskedFifo
    gs,       \* packets the GS has processed, in order
    sent3,    \* PATH3 packets handed over, in order
    gathered, \* what the kicks of a channel's chain have gathered so far
    kicks     \* kicks made

dmaVars == <<tags, chan, dmae, dstat, causes, masked, fifo, gs, sent3, gathered, kicks>>

Channels == {"gif", "vif1"}
Registers == [str : BOOLEAN, tie : BOOLEAN, tadr : Nat, asr0 : Nat, asr1 : Nat, asp : 0..2,
              open : BOOLEAN]   \* open: a chain was stopped by TIE, as CHCR.TAG tells

DmaTypeOK ==
    /\ chan \in [Channels -> Registers]
    /\ dmae \in BOOLEAN /\ masked \in BOOLEAN
    /\ dstat \subseteq Channels /\ causes \in Seq(Channels)
    /\ fifo \in Seq(Seq(Nat)) /\ sent3 \in Seq(Seq(Nat))
    /\ gs \in Seq([path : {2, 3}, words : Seq(Nat)])
    /\ kicks \in 0..MaxKicks

-----------------------------------------------------------------------------
(* The chain *)

\* Where a tag's payload is, where the next tag is, and whether the chain ends,
\* by the tag's identifier; w is the walk so far, at this tag.
TagStep(w, t) ==
    LET here == w.tadr + 1
        next == here + t.qwc
    IN  CASE t.id = "refe" -> [w EXCEPT !.data = t.addr, !.tadr = here, !.done = TRUE]
          [] t.id = "cnt"  -> [w EXCEPT !.data = here, !.tadr = next]
          [] t.id = "next" -> [w EXCEPT !.data = here, !.tadr = t.addr]
          [] t.id = "ref"  -> [w EXCEPT !.data = t.addr, !.tadr = here]
          [] t.id = "call" /\ w.asp = 0 ->
                [w EXCEPT !.data = here, !.tadr = t.addr, !.asr0 = next, !.asp = 1]
          [] t.id = "call" /\ w.asp = 1 ->
                [w EXCEPT !.data = here, !.tadr = t.addr, !.asr1 = next, !.asp = 2]
          [] t.id = "call" /\ w.asp = 2 -> [w EXCEPT !.data = here, !.tadr = t.addr]
          [] t.id = "ret" /\ w.asp = 2 -> [w EXCEPT !.data = here, !.tadr = w.asr1, !.asp = 1]
          [] t.id = "ret" /\ w.asp = 1 -> [w EXCEPT !.data = here, !.tadr = w.asr0, !.asp = 0]
          [] t.id = "ret" /\ w.asp = 0 -> [w EXCEPT !.data = here, !.done = TRUE]
          [] t.id = "end"  -> [w EXCEPT !.data = here, !.done = TRUE]

Words(from, qwc) == [i \in 1..qwc |-> from + i - 1]

\* Reads one tag: its payload is gathered, and with TIE a tag that carries IRQ
\* stops the chain; so does an address with no tag.
Link(w) ==
    IF w.tadr \notin DOMAIN tags THEN [w EXCEPT !.done = TRUE]
    ELSE LET t == tags[w.tadr]
             a == TagStep(w, t)
         IN  [a EXCEPT !.links = Append(@, [code |-> t.code, words |-> Words(a.data, t.qwc)]),
                       !.stopped = t.irq /\ w.tie /\ ~a.done,
                       !.done = a.done \/ (t.irq /\ w.tie)]

\* The walk from the registers r, before the first tag and after each of at most
\* kMaxChainTags.
WalkStart(r) ==
    [tadr |-> r.tadr, asr0 |-> r.asr0, asr1 |-> r.asr1, asp |-> r.asp, tie |-> r.tie,
     data |-> 0, links |-> <<>>, stopped |-> FALSE, done |-> FALSE]

WalkFrom(r) ==
    LET w[n \in 0..MaxChainTags] ==
            IF n = 0 THEN WalkStart(r) ELSE LET v == w[n - 1] IN IF v.done THEN v ELSE Link(v)
    IN  w

ChainWalk(r) == WalkFrom(r)[MaxChainTags]

Joined(links) == FlattenSeq([i \in DOMAIN links |-> links[i].words])

-----------------------------------------------------------------------------
(* Where the data goes: g is the state of the GIF side *)

\* flushMaskedPath3Packets
Flush(g) == [g EXCEPT !.out = @ \o [i \in DOMAIN g.held |-> [path |-> 3, words |-> g.held[i]]],
                      !.held = <<>>]

\* submitGifPacket and the drain of the arbiter behind it.
submitGifPacket(g, path, words) ==
    IF words = <<>> THEN g
    ELSE IF path = 3 /\ g.mask THEN [g EXCEPT !.held = Append(@, words)]
    ELSE LET f == IF path = 3 THEN Flush(g) ELSE g
         IN  [f EXCEPT !.out = Append(@, [path |-> path, words |-> words])]

MskPath3(g, on) == IF g.mask /\ ~on THEN Flush([g EXCEPT !.mask = on]) ELSE [g EXCEPT !.mask = on]

\* processVIF1Data, of the codes that concern the GIF.  The image of a DIRECT ends
\* within it: m_vif1PendingPath2ImageQwc stays 0.
Vif1Code(g, link) ==
    CASE link.code = "mask" -> MskPath3(g, TRUE)
      [] link.code = "unmask" -> MskPath3(g, FALSE)
      [] link.code = "direct" -> submitGifPacket(g, 2, link.words)
      [] OTHER -> g

\* The GIF side before a VIF1 transfer's codes, and after each of them.
Vif1Codes(g, links) ==
    LET f[n \in 0..Len(links)] == IF n = 0 THEN g ELSE Vif1Code(f[n - 1], links[n])
    IN  f

\* processPendingTransfers: the one transfer of this kick.  A chain of the GIF is
\* one packet.
Processed(c, links) ==
    LET g == [mask |-> masked, held |-> fifo, out |-> gs]
    IN  IF c = "gif" THEN submitGifPacket(g, 3, Joined(links)) ELSE Vif1Codes(g, links)[Len(links)]

\* On the GIF's channel tags with no payload leave nothing to send; on VIF1's the
\* codes of the tags are data themselves.
HasData(c, links) == IF c = "gif" THEN Joined(links) # <<>> ELSE links # <<>>

\* The rest of a kick of c that gathered links and left the registers r: with
\* nothing gathered no transfer is pending and STR stays set.  st is D_STAT as the
\* kick found it; drains says that the caller dispatches the completed causes behind
\* the kick (drainCompletedDmacHandlers).
Deliver(c, links, r, st, drains) ==
    LET g == Processed(c, links)
        sends == HasData(c, links)
    IN  /\ chan' = [chan EXCEPT ![c] = [r EXCEPT !.str = ~sends]]
        /\ dstat' = IF sends THEN st \cup {c} ELSE st
        /\ causes' = IF drains THEN <<>> ELSE IF sends THEN Append(causes, c) ELSE causes
        /\ masked' = g.mask /\ fifo' = g.held /\ gs' = g.out
        /\ sent3' = IF c = "gif" /\ sends THEN Append(sent3, Joined(links)) ELSE sent3
        /\ kicks' = kicks + 1
        /\ UNCHANGED <<tags, dmae>>

\* With the DMAC disabled the write leaves STR set and starts nothing.
Ignored(c, r, st, drains) ==
    /\ ~dmae
    /\ chan' = [chan EXCEPT ![c] = [r EXCEPT !.str = TRUE]]
    /\ dstat' = st
    /\ causes' = IF drains THEN <<>> ELSE causes
    /\ kicks' = kicks + 1
    /\ UNCHANGED <<tags, dmae, masked, fifo, gs, sent3>>

\* Mutant of Registered: the depth of the call stack is not written back.
RegisteredNoAsp(r, w) ==
    [r EXCEPT !.tadr = w.tadr, !.asr0 = w.asr0, !.asr1 = w.asr1, !.asp = 0, !.open = w.stopped]

\* TADR, ASR0, ASR1, CHCR.ASP and CHCR.TAG are written back behind a chain.
Registered(r, w) ==
    [r EXCEPT !.tadr = w.tadr, !.asr0 = w.asr0, !.asr1 = w.asr1, !.asp = w.asp, !.open = w.stopped]

\* The guest's Store32 to CHCR.
ChainKick(c, r, before) ==
    \/ Ignored(c, r, dstat, TRUE) /\ UNCHANGED gathered
    \/ /\ dmae
       /\ LET w == ChainWalk(r)
          IN  /\ Deliver(c, w.links, Registered(r, w), dstat, TRUE)
              /\ gathered' = [gathered EXCEPT ![c] = before \o Joined(w.links)]

-----------------------------------------------------------------------------
(* What guest code and the stubs do *)

\* A chain is kicked from its start, with an empty call stack.
SendChain(c, tie) ==
    /\ kicks < MaxKicks /\ ~chan[c].open
    /\ ChainKick(c, [chan[c] EXCEPT !.tadr = ChainStart, !.asp = 0, !.tie = tie], <<>>)

\* A chain that stopped at an interrupt tag goes on: libdma sets STR in the CHCR
\* as it reads it.
RestartChain(c) ==
    /\ kicks < MaxKicks /\ chan[c].open
    /\ ChainKick(c, chan[c], gathered[c])

\* A kick of the GIF's channel that is no chain of the guest: a stopped one is
\* given up.
NewTransfer(tadr) == [chan["gif"] EXCEPT !.tadr = tadr, !.asp = 0, !.tie = FALSE, !.open = FALSE]

Transfer(words, r, st, drains) ==
    /\ gathered' = [gathered EXCEPT !["gif"] = <<>>]
    /\ \/ Ignored("gif", r, st, drains)
       \/ dmae /\ Deliver("gif", <<[code |-> "nop", words |-> words]>>, r, st, drains)

\* A block of qwc quadwords: of sceGsExecLoadImage, which has something to send and
\* leaves the completed cause in the queue, or of the guest's own store.
SendBlock(qwc, drains) ==
    /\ kicks < MaxKicks /\ (qwc = 0 => drains)
    /\ Transfer(Words(100 + 10 * kicks, qwc), NewTransfer(chan["gif"].tadr), dstat, drains)

\* Mutant of NativeTakes: the mask is not asked.
NativeTakesMasked == dmae

\* tryProcessNativeGif...Chain stays out while the mask is on.
NativeTakes == dmae /\ ~masked

\* tryProcessNativeGifPackedChain: a packet of one END tag goes to the GS directly,
\* with the registers left as a finished chain of its own leaves them.
NativeDraws(words, r, st) ==
    /\ NativeTakes
    /\ gs' = Append(gs, [path |-> 3, words |-> words])
    /\ chan' = [chan EXCEPT !["gif"] = [r EXCEPT !.str = FALSE, !.asr0 = 0, !.asr1 = 0]]
    /\ dstat' = st \cup {"gif"} /\ causes' = <<>>
    /\ sent3' = Append(sent3, words) /\ kicks' = kicks + 1
    /\ gathered' = [gathered EXCEPT !["gif"] = <<>>]
    /\ UNCHANGED <<tags, dmae, masked, fifo>>

\* kickGifDmaChainFromMMIO: D_STAT bits are acknowledged, and the packet is drawn
\* without a transfer when it may be and is of a shape the GS takes that way, else
\* kicked like any other.  The completed causes are dispatched either way.
SendNative(acked) ==
    LET words == <<201 + 10 * kicks>>
        r == NewTransfer(200 + 10 * kicks)
        st == dstat \ acked
    IN  /\ kicks < MaxKicks
        /\ NativeDraws(words, r, st) \/ Transfer(words, r, st, TRUE)

\* Any other Store32 of the guest dispatches what an earlier kick left.
drainCompletedDmacHandlers ==
    /\ causes # <<>>
    /\ causes' = <<>>
    /\ UNCHANGED <<tags, chan, dmae, dstat, masked, fifo, gs, sent3, gathered, kicks>>

\* D_STAT is cleared by writing ones; D_CTRL is the guest's.
AckDStat(c) ==
    /\ c \in dstat
    /\ dstat' = dstat \ {c}
    /\ UNCHANGED <<tags, chan, dmae, causes, masked, fifo, gs, sent3, gathered, kicks>>

SetDmae(on) ==
    /\ dmae # on /\ dmae' = on
    /\ UNCHANGED <<tags, chan, dstat, causes, masked, fifo, gs, sent3, gathered, kicks>>

DmaInit ==
    /\ tags \in DmaChains
    /\ chan = [c \in Channels |-> [str |-> FALSE, tie |-> FALSE, tadr |-> 0, asr0 |-> 0,
                                   asr1 |-> 0, asp |-> 0, open |-> FALSE]]
    /\ dmae = TRUE /\ dstat = {} /\ causes = <<>>
    /\ masked = FALSE /\ fifo = <<>> /\ gs = <<>> /\ sent3 = <<>>
    /\ gathered = [c \in Channels |-> <<>>] /\ kicks = 0

DmaNext ==
    \/ \E c \in Channels, tie \in BOOLEAN : SendChain(c, tie)
    \/ \E c \in Channels : RestartChain(c) \/ AckDStat(c)
    \/ \E qwc \in 0..1, drains \in BOOLEAN : SendBlock(qwc, drains)
    \/ \E acked \in SUBSET dstat : SendNative(acked)
    \/ drainCompletedDmacHandlers
    \/ \E on \in BOOLEAN : SetDmae(on)

-----------------------------------------------------------------------------
(* What must hold *)

\* One tag of the chain m taken as the program it is: call pushes, ret pops.
Interpret(m, p) ==
    LET t == m[p.at]
        behind == p.at + 1 + t.qwc
        q == [p EXCEPT !.data = @ \o Words(IF t.id \in {"ref", "refe"} THEN t.addr ELSE p.at + 1, t.qwc)]
    IN  CASE t.id \in {"refe", "end"} \/ (t.id = "ret" /\ p.stack = <<>>) -> [q EXCEPT !.over = TRUE]
          [] t.id = "cnt" -> [q EXCEPT !.at = behind]
          [] t.id = "next" -> [q EXCEPT !.at = t.addr]
          [] t.id = "ref" -> [q EXCEPT !.at = @ + 1]
          [] t.id = "call" -> [q EXCEPT !.at = t.addr, !.stack = Append(@, behind)]
          [] OTHER -> [q EXCEPT !.at = Last(p.stack), !.stack = Front(@)]

ProgramStart == [at |-> ChainStart, stack |-> <<>>, data |-> <<>>, over |-> FALSE]

\* The chain m after each of its tags, when nothing stops it.
Program(m) ==
    LET p[n \in 0..MaxChainTags] ==
            IF n = 0 THEN ProgramStart
            ELSE LET v == p[n - 1] IN IF v.over THEN v ELSE Interpret(m, v)
    IN  p

\* The chain m comes to its end within kMaxChainTags tags, finds a tag wherever it
\* goes, and nests its calls no deeper than the two address registers reach.
ChainEnds(m) ==
    /\ Program(m)[MaxChainTags].over
    /\ \A n \in 0..MaxChainTags :
          ~Program(m)[n].over => Program(m)[n].at \in DOMAIN m /\ Len(Program(m)[n].stack) <= 2

\* What the chain in memory transfers in all.
WholeChain == Program(tags)[MaxChainTags].data

\* A chain that is stopped at its interrupt tags, inside calls too, and restarted
\* each time transfers in all what the chain says, in its order and each word
\* once: the registers written back lose nothing.
ChainResumes ==
    \A c \in Channels :
        /\ chan[c].open => IsPrefix(gathered[c], WholeChain)
        /\ ~chan[c].open /\ gathered[c] # <<>> => gathered[c] = WholeChain

\* The PATH3 packets among the first n of s, for each n.
Path3Of(s) ==
    LET d[n \in 0..Len(s)] ==
            IF n = 0 THEN <<>> ELSE IF s[n].path = 3 THEN Append(d[n - 1], s[n].words) ELSE d[n - 1]
    IN  d

\* The packets of PATH3 reach the GS once each and in the order they were sent,
\* whatever the VIF masks in between and whichever way they came; none waits
\* once the mask is off.
Path3InOrder ==
    /\ Path3Of(gs)[Len(gs)] \o fifo = sent3
    /\ ~masked => fifo = <<>>
=============================================================================
