----------------------------- MODULE StreamCtrl -----------------------------
(***************************************************************************)
(* qcore_stream_ctrl: one GEMV or EMBED becomes bursts of weight and meta   *)
(* beats, requested only into reserved FIFO space, and leaves as the weight *)
(* stream and as one meta record a cycle.  A beat is the sequence of its    *)
(* numbers: WB weights, or WB / MetaBytes meta records.                     *)
(***************************************************************************)
EXTENDS UnitIssue

CONSTANTS
    FifoBeats, MetaFifoBeats,   \* FIFO_BEATS, META_FIFO_BEATS
    MaxBurst                    \* MAX_BURST

ASSUME StreamCtrlAssumption ==
    /\ MaxBurst \in Nat \ {0} /\ FifoBeats \in Nat /\ MaxBurst <= FifoBeats
    /\ MetaFifoBeats \in Nat /\ MetaBytes <= MetaFifoBeats

VARIABLES
    gen,          \* request generator: st, r_tile, r_addr, r_base, r_rem, r_maddr, mul_m, mul_b, mul_i
    sReq,         \* the request register
    wOut, mOut,   \* beats requested and still to return
    gather,       \* EMBED: the pseudo-beat under assembly and the index of the next byte
    wmem, wo,     \* weight FIFO and its output register
    mmem, mo,     \* meta FIFO and its output register
    o,            \* k and tile of the beat in wo
    ms            \* meta serializer: tile, beat and lane of the record in mo

streamVars == <<gen, sReq, wOut, mOut, gather, wmem, wo, mmem, mo, o, ms>>

NG == WB \div MetaBytes          \* records a beat
MetaBeats == MetaBytes           \* beats of a tile's WB records

StreamInit ==
    /\ gen = [st |-> "IDLE", tile |-> 0, addr |-> 0, base |-> 0, rem |-> 0, maddr |-> 0,
              m |-> 0, b |-> 0, i |-> 0]
    /\ sReq = Nothing /\ wOut = 0 /\ mOut = 0
    /\ gather = [acc |-> [i \in 1 .. WB |-> 0], i |-> 0]
    /\ wmem = <<>> /\ wo = Nothing /\ mmem = <<>> /\ mo = Nothing
    /\ o = [k |-> 0, tile |-> 0] /\ ms = [tile |-> 0, beat |-> 0, lane |-> 0]

-----------------------------------------------------------------------------
(* The descriptor, and the stream it asks for *)

NEff(c) == IF c.op = "EMBED" THEN c.k ELSE c.n
TilesM1 == (NEff(cmd) - 1) \div WB
Channels(tile) == IF tile # TilesM1 \/ NEff(cmd) % WB = 0 THEN WB ELSE NEff(cmd) % WB
HasMeta == IsEmbed \/ ~cmd.unit_meta
KEnd == IF IsEmbed THEN 0 ELSE cmd.k - 1

\* The beat offered to the rows.
Ws == [data |-> wo[1], k |-> o.k, tile |-> o.tile, nvalid |-> Channels(o.tile),
       start |-> o.k = 0, end |-> o.k = KEnd, last |-> o.k = KEnd /\ o.tile = TilesM1]

-----------------------------------------------------------------------------
(* Requests *)

WFree == FifoBeats - Len(wmem) - Len(wo) - wOut

\* Fault: the output register is not counted.
MFreeOfMemory == MetaFifoBeats - Len(mmem) - mOut

MFree == MetaFifoBeats - Len(mmem) - Len(mo) - mOut

WLen == Min2(gen.rem, MaxBurst)
MLen == IF IsEmbed THEN 1 ELSE MetaBeats
ReqSlot(sReady) == sReq = Nothing \/ sReady
LoadW(sReady) == ReqSlot(sReady) /\ gen.st = "W" /\ WFree >= WLen

\* Fault: a burst that just fits is not asked for.
LoadMWithRoom(sReady) == ReqSlot(sReady) /\ gen.st = "M" /\ MFree > MLen

LoadM(sReady) == ReqSlot(sReady) /\ gen.st = "M" /\ MFree >= MLen

TileLast == IsEmbed \/ gen.tile = TilesM1

NextTile ==
    IF TileLast THEN [gen EXCEPT !.st = "IDLE"]
    ELSE LET base == gen.base + cmd.k_stride * WB
         IN [gen EXCEPT !.st = "W", !.tile = @ + 1, !.base = base, !.addr = base, !.rem = cmd.k,
                        !.maddr = @ + WB * MetaBytes]

\* c, the bundle at the issue: an EMBED forms its table base first, a bit of K a cycle.
Begin(c) ==
    [st |-> IF NEff(c) = 0 \/ c.k = 0 THEN "IDLE" ELSE IF c.op = "EMBED" THEN "MUL" ELSE "W",
     tile |-> 0, addr |-> c.addr_a, base |-> c.addr_a, rem |-> c.k, i |-> 0,
     maddr |-> IF c.op = "EMBED" THEN c.addr_m + c.tok * MetaBytes ELSE c.addr_m,
     m |-> IF c.op = "EMBED" THEN (c.tok \div WB) * WB ELSE 0,
     b |-> IF c.op = "EMBED" THEN c.k ELSE 0]

MulStep ==
    LET base == gen.base + (gen.b % 2) * gen.m
    IN [gen EXCEPT !.base = base, !.m = 2 * @, !.b = @ \div 2, !.i = @ + 1,
                   !.addr = IF gen.i = KBits - 1 THEN base ELSE @,
                   !.st = IF gen.i = KBits - 1 THEN "M" ELSE @]

\* The meta burst of a tile follows its weights; of an EMBED it leads.
WStep ==
    IF gen.rem = WLen /\ ~(HasMeta /\ ~IsEmbed) THEN NextTile
    ELSE [gen EXCEPT !.addr = @ + WLen * WB, !.rem = @ - WLen,
                     !.st = IF gen.rem = WLen THEN "M" ELSE @]

MStep == IF IsEmbed THEN [gen EXCEPT !.st = "W"] ELSE NextTile

RequestTick(issue, sReady) ==
    /\ gen' = IF issue THEN Begin(cmd')
              ELSE IF gen.st = "MUL" THEN MulStep
              ELSE IF LoadW(sReady) THEN WStep
              ELSE IF LoadM(sReady) THEN MStep ELSE gen
    /\ sReq' = IF issue THEN sReq
               ELSE IF LoadW(sReady) THEN Holding([tag |-> "w", addr |-> gen.addr, len |-> WLen])
               ELSE IF LoadM(sReady) THEN Holding([tag |-> "m", addr |-> gen.maddr, len |-> MLen])
               ELSE IF ReqSlot(sReady) THEN Nothing ELSE sReq

OutTick(sReady, rdw, rdm) ==
    /\ wOut' = wOut + (IF LoadW(sReady) THEN WLen ELSE 0) - Len(rdw)
    /\ mOut' = mOut + (IF LoadM(sReady) THEN MLen ELSE 0) - Len(rdm)

-----------------------------------------------------------------------------
(* Beats.  rdw and rdm hold the beat that returns, or nothing. *)

\* Lane TOK % WB of every beat of an EMBED, gathered into beats of WB.
Gathered(rdw) == [gather.acc EXCEPT ![(gather.i % WB) + 1] = rdw[1][(cmd.tok % WB) + 1]]
GatherDone == gather.i % WB = WB - 1 \/ gather.i = cmd.k - 1

GatherTick(issue, rdw) ==
    gather' = IF issue THEN [acc |-> [i \in 1 .. WB |-> 0], i |-> 0]
              ELSE IF rdw = Nothing \/ ~IsEmbed THEN gather
              ELSE [acc |-> IF GatherDone THEN [i \in 1 .. WB |-> 0] ELSE Gathered(rdw),
                    i |-> gather.i + 1]

Arriving(rdw) ==
    IF rdw = Nothing \/ ~IsEmbed THEN rdw
    ELSE IF GatherDone THEN Holding(Gathered(rdw)) ELSE Nothing

\* A FIFO behind an output register: what the register and the memory hold next.
Refills(fifo, reg, pop) == fifo # <<>> /\ (reg = Nothing \/ pop)
NextFifo(fifo, reg, pop, in) == (IF Refills(fifo, reg, pop) THEN Tail(fifo) ELSE fifo) \o in
NextReg(fifo, reg, pop) ==
    IF Refills(fifo, reg, pop) THEN Holding(Head(fifo)) ELSE IF pop THEN Nothing ELSE reg

WPop(wsReady) == wo # Nothing /\ wsReady

WeightTick(issue, rdw, wsReady) ==
    /\ wmem' = NextFifo(wmem, wo, WPop(wsReady), Arriving(rdw))
    /\ wo' = NextReg(wmem, wo, WPop(wsReady))
    /\ o' = IF issue THEN [k |-> 0, tile |-> 0]
            ELSE IF ~WPop(wsReady) THEN o
            ELSE IF Ws.end THEN [k |-> 0, tile |-> o.tile + 1] ELSE [o EXCEPT !.k = @ + 1]

\* Records at or past the tile's channels are padding: their beats are dropped.
MsRecs == IF IsEmbed THEN 1 ELSE Channels(ms.tile)
MetaValid == mo # Nothing /\ ms.beat * NG + ms.lane < MsRecs
MetaData == mo[1][ms.lane + 1]
MsSkip == mo # Nothing /\ ~MetaValid
MsTake(metaReady) == MetaValid /\ metaReady

MsNextBeat(metaReady) == (MsTake(metaReady) /\ ms.lane = NG - 1) \/ MsSkip

MetaTick(issue, rdm, metaReady) ==
    /\ mmem' = NextFifo(mmem, mo, MsNextBeat(metaReady), rdm)
    /\ mo' = NextReg(mmem, mo, MsNextBeat(metaReady))
    /\ ms' = IF issue THEN [tile |-> 0, beat |-> 0, lane |-> 0]
             ELSE IF MsNextBeat(metaReady)
             THEN IF ms.beat = MLen - 1 THEN [tile |-> ms.tile + 1, beat |-> 0, lane |-> 0]
                  ELSE [ms EXCEPT !.beat = @ + 1, !.lane = 0]
             ELSE IF MsTake(metaReady) THEN [ms EXCEPT !.lane = @ + 1] ELSE ms

StreamTick(issue, sReady, rdw, rdm, wsReady, metaReady) ==
    /\ RequestTick(issue, sReady) /\ OutTick(sReady, rdw, rdm) /\ GatherTick(issue, rdw)
    /\ WeightTick(issue, rdw, wsReady) /\ MetaTick(issue, rdm, metaReady)

StreamBusy ==
    \/ gen.st # "IDLE" \/ sReq # Nothing \/ wOut # 0 \/ mOut # 0
    \/ wo # Nothing \/ wmem # <<>> \/ mo # Nothing \/ mmem # <<>>
=============================================================================
