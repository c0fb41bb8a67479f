------------------------------ MODULE KvWriter ------------------------------
(***************************************************************************)
(* qcore_kv_writer: for each row of a KVWRITE, the words of VSRAM that hold *)
(* a head, read one a cycle with the data a cycle behind the address, then  *)
(* the write beats of the K or the V cache, the meta record last.           *)
(***************************************************************************)
EXTENDS UnitIssue

VARIABLES
    kv,        \* sequencer: state, row_i, rd_i, bi, waddr, vsb_row
    cap,       \* cap_v, cap_i, cap_z: the word that arrives in this cycle
    win, kbuf, \* the words read; the bytes of the head
    kWr,       \* the write beat presented
    doneKv     \* done_q

kvVars == <<kv, cap, win, kbuf, kWr, doneKv>>

NW == HeadDim \div WordElems + 1
VTiles == CeilDiv(HeadDim, WB)
Zeros(n) == [i \in 1 .. n |-> 0]

KvInit ==
    /\ kv = [state |-> "IDLE", row_i |-> 0, rd |-> 0, bi |-> 0, waddr |-> 0, vsb_row |-> 0]
    /\ cap = Nothing /\ win = [w \in 0 .. NW - 1 |-> Zeros(WordElems)] /\ kbuf = Zeros(HeadDim)
    /\ kWr = Nothing /\ doneKv = FALSE

-----------------------------------------------------------------------------
Transposed == "TRANSPOSED" \in cmd.flags
PosBad == cmd.pos >= cmd.k_stride
RangeErr == cmd.vs_src + HeadDim > VsramElems
WordsToRead == IF cmd.vs_src % WordElems = 0 THEN NW - 1 ELSE NW
KvBusy == kv.state # "IDLE" \/ doneKv

KvWord == cmd.vs_src \div WordElems + kv.rd
IssueRd == kv.state = "READ" /\ kv.rd < WordsToRead
KvEn == IssueRd /\ KvWord < VsramWords

\* The low bytes of a word.
LowBytes(w) == [i \in 1 .. WordElems |-> ((w[i - 1] + 128) % 256) - 128]

\* The word asked for last is captured in the cycle after.
ReadOver == kv.rd = WordsToRead

ReadTick(rdata) ==
    /\ cap' = IF IssueRd THEN Holding([i |-> kv.rd, zero |-> ~KvEn]) ELSE Nothing
    /\ win' = IF cap = Nothing THEN win
              ELSE [win EXCEPT ![cap[1].i] =
                      IF cap[1].zero THEN Zeros(WordElems) ELSE LowBytes(rdata)]
    /\ kbuf' = IF kv.state # "ALIGN" THEN kbuf
               ELSE SubSeq(Concat([w \in 1 .. NW |-> win[w - 1]]), (cmd.vs_src % WordElems) + 1,
                           (cmd.vs_src % WordElems) + HeadDim)

LastBi == IF Transposed THEN HeadDim ELSE VTiles
IsMeta == kv.bi = LastBi
FirstAddr ==
    cmd.addr_a + (IF Transposed THEN (cmd.pos \div WB) * HeadDim * WB + (cmd.pos % WB)
                  ELSE cmd.pos * WB)
Step == IF Transposed THEN WB ELSE cmd.k_stride * WB

Tile(b) == [i \in 1 .. WB |-> IF b * WB + i <= HeadDim THEN kbuf[b * WB + i] ELSE 0]

KvBeat ==
    IF IsMeta
    THEN [addr |-> cmd.addr_m + cmd.pos * MetaBytes,
          v |-> [i \in 1 .. MetaBytes |-> IF i = 1 THEN 8 * cmd.sx[kv.vsb_row] ELSE 0]]
    ELSE [addr |-> kv.waddr, v |-> IF Transposed THEN <<kbuf[kv.bi + 1]>> ELSE Tile(kv.bi)]

WrFree(kReady) == kWr = Nothing \/ kReady

RowStep ==
    IF kv.row_i = BMax THEN [kv EXCEPT !.state = "IDLE"]
    ELSE IF kv.row_i \notin cmd.rows \/ PosBad THEN [kv EXCEPT !.row_i = @ + 1]
    ELSE [kv EXCEPT !.row_i = @ + 1, !.vsb_row = kv.row_i, !.rd = 0, !.bi = 0,
                    !.waddr = FirstAddr, !.state = "READ"]

KvTick(issue, rdata, kReady) ==
    /\ ReadTick(rdata)
    /\ kv' = CASE kv.state = "IDLE" /\ issue -> [kv EXCEPT !.row_i = 0, !.state = "ROW"]
               [] kv.state = "ROW" -> RowStep
               [] kv.state = "READ" ->
                    IF ReadOver THEN [kv EXCEPT !.state = "ALIGN"] ELSE [kv EXCEPT !.rd = @ + 1]
               [] kv.state = "ALIGN" -> [kv EXCEPT !.state = "WRITE"]
               [] kv.state = "WRITE" /\ WrFree(kReady) ->
                    IF kv.bi > LastBi THEN [kv EXCEPT !.state = "ROW"]
                    ELSE [kv EXCEPT !.bi = @ + 1, !.waddr = IF IsMeta THEN @ ELSE @ + Step]
               [] OTHER -> kv
    /\ kWr' = IF kv.state = "WRITE" /\ WrFree(kReady)
              THEN IF kv.bi > LastBi THEN Nothing ELSE Holding(KvBeat)
              ELSE kWr
    /\ doneKv' = (kv.state = "ROW" /\ kv.row_i = BMax)

\* err_bounds_inc: once a row, for a position or a source range that is refused.
KvBounds == One01(kv.state = "ROW" /\ kv.row_i \in cmd.rows /\ (PosBad \/ RangeErr))
=============================================================================
