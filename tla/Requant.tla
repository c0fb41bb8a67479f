------------------------------ MODULE Requant ------------------------------
(***************************************************************************)
(* qcore_requant: drains the tiles of the rows one channel a cycle through  *)
(* seven pipeline stages into VSRAM words, dump beats, the absmax and the   *)
(* argmax.  The stages carry an element's operands; what they compute of    *)
(* them is the requant of Isa.  VSRAM port B, the dump port, the SREG and   *)
(* the ARGMAX writes are registers.                                         *)
(***************************************************************************)
EXTENDS UnitIssue

CONSTANT DumpQueue     \* DQD: dump beats queued behind the output word

ASSUME RequantAssumption == DumpQueue \in Nat \ {0}

VARIABLES
    rq,        \* sequencer: state, cur_row, j, the tile (t_tile, t_nvalid, t_last), rep_row, rep_step
    emb, mbuf, \* the record of an EMBED; the tile's records, for the rows after the first
    pipe,      \* P1 .. P7
    oldWord,   \* old_word_q
    rdReq,     \* vsb_en_q, rd_addr_q, rd_row_q
    wr,        \* the word on port B: wr_we_q, wr_addr_q, wr_row_q, wr_wdata_q
    holdRow,   \* hold_row_q
    word,      \* wbuf where wstrb is set: slot -> element
    beat,      \* dbuf
    dq, dqOut, \* dump beats queued, the one presented
    top,       \* absmax and argmax of each row
    rep,       \* the SREG and the ARGMAX write
    doneGemv   \* done

requantVars == <<rq, emb, mbuf, pipe, oldWord, rdReq, wr, holdRow, word, beat, dq, dqOut, top, rep,
                 doneGemv>>

Stages == 7
EPB == WB \div 4                       \* int32 elements of a dump beat
NoWord == [i \in 0 .. WordElems - 1 |-> 0]
Lowest == -2147483647 - 1
NoTop == [r \in Rows |-> [amax |-> 0, val |-> Lowest, idx |-> 0]]
NoReport == [sreg |-> Nothing, argmax |-> Nothing]

RequantInit ==
    /\ rq = [state |-> "IDLE", row |-> 0, j |-> 0, tile |-> 0, nvalid |-> 0, last |-> FALSE,
             rep_row |-> 0, rep_step |-> FALSE]
    /\ emb = Nothing /\ mbuf = [j \in 0 .. WB - 1 |-> 0]
    /\ pipe = [s \in 1 .. Stages |-> Nothing]
    /\ oldWord = NoWord /\ rdReq = [en |-> FALSE, addr |-> 0, row |-> 0]
    /\ wr = Nothing /\ holdRow = 0 /\ word = <<>> /\ beat = [i \in 0 .. EPB - 1 |-> 0]
    /\ dq = <<>> /\ dqOut = Nothing /\ top = NoTop /\ rep = NoReport /\ doneGemv = FALSE

-----------------------------------------------------------------------------
(* The descriptor *)

ToVsram  == cmd.out_mode \in {"VSRAM", "VSRAM_DUMP"}
ToArgmax == cmd.out_mode \in {"ARGMAX", "ARGMAX_DUMP"}
ToDump   == Dumps(cmd)
Unit     == cmd.unit_meta /\ ~IsEmbed
OutOfRange(c) == c.vs_dst + c.n > VsramElems
Lower(rows) == CHOOSE r \in rows : \A s \in rows : r <= s

\* A channel, its VSRAM word and its dump beat.
WordOf(c)  == cmd.vs_dst \div WordElems + c \div WordElems
Oob(c)     == WordOf(c) >= VsramWords
WFirst(c)  == c % WordElems = 0
WLastOf(e) == e.c % WordElems = WordElems - 1 \/ e.final
BLastOf(e) == e.c % EPB = EPB - 1 \/ e.final
Writes(e)  == WLastOf(e) /\ ToVsram /\ ~Oob(e.c)

-----------------------------------------------------------------------------
(* Stage 0: the element read from the accumulators *)

Adv == Len(dq) # DumpQueue
Channel == rq.tile * WB + rq.j
JLast == rq.j = rq.nvalid - 1
RowsAfter == {r \in cmd.rows : r > rq.row}
TileFinal == JLast /\ RowsAfter = {}
RowFirst == rq.row = Lower(cmd.rows)
NeedStream == ~Unit /\ ~IsEmbed /\ RowFirst
NeedEmb == ~Unit /\ IsEmbed
NeedRd == cmd.accumulate /\ WFirst(Channel) /\ ~Oob(Channel)

\* Fault: a read is held back only by the write of its own cycle.
RdBlockByWrite == pipe[7] # Nothing /\ Writes(pipe[7][1])

\* A read waits while the next cycle writes, or turns port B to another row.
RdBlock ==
    \/ pipe[7] # Nothing /\ Writes(pipe[7][1])
    \/ pipe[6] # Nothing /\ Writes(pipe[6][1]) /\ pipe[6][1].row # rq.row
    \/ rdReq.en /\ rdReq.row # rq.row

S0Ok == rq.state = "DRAIN" /\ Adv /\ ~(NeedRd /\ RdBlock) /\ (NeedEmb => emb # Nothing)
Fire(metaValid) == S0Ok /\ (NeedStream => metaValid)
EmbWait == NeedEmb /\ emb = Nothing /\ rq.state \in {"WAIT", "DRAIN"}
MetaReady == (S0Ok /\ NeedStream) \/ EmbWait
AccReady(metaValid) == rq.state = "WAIT" \/ (Fire(metaValid) /\ TileFinal)

\* An EMBED has a scale and no bias.
MRec(metaData) ==
    IF Unit THEN 8 * One ELSE IF IsEmbed THEN 8 * MetaScale(emb[1])
    ELSE IF RowFirst THEN metaData ELSE mbuf[rq.j]

Element(acc, metaData) ==
    [c |-> Channel, row |-> rq.row, acc |-> acc[rq.j + 1], meta |-> MRec(metaData),
     final |-> rq.last /\ JLast, old |-> 0]

-----------------------------------------------------------------------------
(* The sequencer.  tile: what the rows hand over, and whether they do. *)

PipeEmpty == (\A s \in 1 .. Stages : pipe[s] = Nothing) /\ dq = <<>> /\ dqOut = Nothing /\ wr = Nothing

Take(tile) == [rq EXCEPT !.state = "DRAIN", !.tile = tile.tile, !.nvalid = tile.nvalid,
                         !.last = tile.last, !.row = Lower(cmd.rows), !.j = 0]

AfterFire(tile) ==
    CASE ~JLast -> [rq EXCEPT !.j = @ + 1]
      [] JLast /\ RowsAfter # {} -> [rq EXCEPT !.j = 0, !.row = Lower(RowsAfter)]
      [] TileFinal /\ rq.last -> [rq EXCEPT !.j = 0, !.state = "EMPTY"]
      [] TileFinal /\ ~rq.last /\ tile.valid -> Take(tile)
      [] OTHER -> [rq EXCEPT !.j = 0, !.state = "WAIT"]

SequencerTick(issue, tile, fire) ==
    rq' = CASE rq.state = "IDLE" /\ issue ->
                 [rq EXCEPT !.state = IF cmd'.n = 0 \/ cmd'.rows = {} THEN "DONE" ELSE "WAIT"]
            [] rq.state = "WAIT" /\ tile.valid -> Take(tile)
            [] rq.state = "DRAIN" /\ fire -> AfterFire(tile)
            [] rq.state = "EMPTY" /\ PipeEmpty ->
                 [rq EXCEPT !.state = "REPORT", !.rep_row = 0, !.rep_step = FALSE]
            [] rq.state = "REPORT" ->
                 [rq EXCEPT !.rep_step = ~@,
                            !.state = IF rq.rep_step /\ rq.rep_row = BMax - 1 THEN "DONE" ELSE @,
                            !.rep_row = IF rq.rep_step /\ @ # BMax - 1 THEN @ + 1 ELSE @]
            [] rq.state = "DONE" -> [rq EXCEPT !.state = "IDLE"]
            [] OTHER -> rq

-----------------------------------------------------------------------------
(* The pipeline *)

\* Port B belongs to the write, then to the read, and stays where it was.
VsbRow == IF wr # Nothing THEN wr[1].row ELSE IF rdReq.en THEN rdReq.row ELSE holdRow

\* P3 takes the old value: of the word just read, or of the word kept.
WithOld(e, rdata) ==
    LET w == IF ~WFirst(e.c) THEN oldWord ELSE IF Oob(e.c) THEN NoWord ELSE rdata
    IN [e EXCEPT !.old = IF cmd.accumulate THEN w[e.c % WordElems] ELSE 0]

PipeTick(fire, e, rdata) ==
    /\ pipe' = IF ~Adv THEN pipe
               ELSE [s \in 1 .. Stages |->
                       CASE s = 1 -> IF fire THEN Holding(e) ELSE Nothing
                         [] s = 3 /\ pipe[2] # Nothing -> Holding(WithOld(pipe[2][1], rdata))
                         [] OTHER -> pipe[s - 1]]
    /\ oldWord' = IF Adv /\ pipe[2] # Nothing /\ WFirst(pipe[2][1].c)
                  THEN IF Oob(pipe[2][1].c) THEN NoWord ELSE rdata
                  ELSE oldWord

-----------------------------------------------------------------------------
(* The output stage: e leaves P7 with the value y *)

OFire == Adv /\ pipe[7] # Nothing
Y(e) == requant(cmd.sh, e.acc, e.meta, cmd.sx[e.row], e.old)

WordTick(fire) ==
    LET e == pipe[7][1]
        next == (e.c % WordElems :> Y(e)) @@ word
    IN /\ word' = IF ~(OFire /\ ToVsram) THEN word ELSE IF WLastOf(e) THEN <<>> ELSE next
       /\ wr' = IF OFire /\ Writes(e) THEN Holding([row |-> e.row, addr |-> WordOf(e.c), data |-> next])
                ELSE Nothing
       /\ rdReq' = IF fire /\ NeedRd THEN [en |-> TRUE, addr |-> WordOf(Channel), row |-> rq.row]
                   ELSE [rdReq EXCEPT !.en = FALSE]
       /\ holdRow' = IF rdReq.en \/ wr # Nothing THEN VsbRow ELSE holdRow

\* A beat at addr_c + r * 4 * N + b * WB, of the elements up to the one that closes it.
DumpBeat(e, data) ==
    [addr |-> cmd.imm + e.row * 4 * cmd.n + (e.c \div EPB) * WB,
     v |-> Concat([i \in 1 .. (e.c % EPB) + 1 |-> <<data[i - 1], 0, 0, 0>>])]

DqPop(dReady) == dqOut # Nothing /\ dReady
DqRd(dReady) == dq # <<>> /\ (dqOut = Nothing \/ DqPop(dReady))

DumpTick(dReady) ==
    LET e == pipe[7][1]
        next == [beat EXCEPT ![e.c % EPB] = Y(e)]
    IN /\ beat' = IF OFire /\ ToDump THEN next ELSE beat
       /\ dq' = (IF DqRd(dReady) THEN Tail(dq) ELSE dq)
                \o (IF OFire /\ ToDump /\ BLastOf(e) THEN <<DumpBeat(e, next)>> ELSE <<>>)
       /\ dqOut' = IF DqRd(dReady) THEN Holding(Head(dq))
                   ELSE IF DqPop(dReady) THEN Nothing ELSE dqOut

TopTick(issue) ==
    LET e == pipe[7][1]
        y == Y(e)
    IN top' = IF rq.state = "IDLE" /\ issue THEN NoTop
              ELSE IF ~OFire THEN top
              ELSE [top EXCEPT ![e.row] =
                      [amax |-> IF Abs(y) > @.amax THEN Abs(y) ELSE @.amax,
                       val |-> IF y > @.val THEN y ELSE @.val,
                       idx |-> IF y > @.val THEN e.c ELSE @.idx]]

\* A cycle for the SREG write and one for the ARGMAX write of each row.
ReportTick ==
    LET reports == rq.state = "REPORT" /\ rq.rep_row \in cmd.rows
        t == top[rq.rep_row]
    IN rep' = [sreg |-> IF reports /\ ~rq.rep_step /\ cmd.track_absmax
                        THEN Holding([row |-> rq.rep_row, v |-> t.amax]) ELSE Nothing,
               argmax |-> IF reports /\ rq.rep_step /\ ToArgmax
                          THEN Holding([ARGMAX_TOK |-> t.idx, ARGMAX_VAL |-> t.val]) ELSE Nothing]

RequantTick(issue, tile, acc, metaValid, metaData, rdata, dReady) ==
    LET fire == Fire(metaValid)
    IN /\ SequencerTick(issue, tile, fire)
       /\ emb' = IF rq.state = "IDLE" /\ issue THEN Nothing
                 ELSE IF metaValid /\ EmbWait THEN Holding(metaData) ELSE emb
       /\ mbuf' = IF fire /\ NeedStream THEN [mbuf EXCEPT ![rq.j] = metaData] ELSE mbuf
       /\ PipeTick(fire, Element(acc, metaData), rdata)
       /\ WordTick(fire) /\ DumpTick(dReady) /\ TopTick(issue) /\ ReportTick
       /\ doneGemv' = (rq.state = "DONE")

\* err_bounds_inc: the ranges of vs_dst, once a row.
RequantBounds(metaValid) ==
    IF Fire(metaValid) /\ rq.tile = 0 /\ rq.j = 0 /\ OutOfRange(cmd)
    THEN One01(ToVsram) + One01(cmd.accumulate) ELSE 0
=============================================================================
