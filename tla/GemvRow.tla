------------------------------ MODULE GemvRow ------------------------------
(***************************************************************************)
(* qcore_row with its qcore_mac_lane_group: the activation ring read ahead  *)
(* of the stream from VSRAM port A, the accumulators of WB lanes in a live  *)
(* and a hold set, and the handoff of a finished tile.  row[r] is the state *)
(* of row r; ws, the beat every row is offered.                             *)
(***************************************************************************)
EXTENDS UnitIssue

CONSTANT RingWords     \* NW: words read ahead

ASSUME GemvRowAssumption == RingWords \in Nat \ {0}

VARIABLE row

IdleRow ==
    [active |-> FALSE, fword |-> 0, ring |-> <<>>, pend |-> Nothing,
     live |-> [i \in 1 .. WB |-> 0], hold |-> [i \in 1 .. WB |-> 0], buf_sel |-> FALSE,
     acc_valid |-> FALSE, acc_tile |-> 0, acc_nvalid |-> 0, acc_last |-> FALSE]

RowInit == row = [r \in Rows |-> IdleRow]

-----------------------------------------------------------------------------
W0    == cmd.vs_src \div WordElems
WLast == (cmd.vs_src + cmd.k - 1) \div WordElems
Slot(ws) == (cmd.vs_src + ws.k) % WordElems

\* Port A: the row reads one word a cycle while the ring has a slot for it.
DoIssue(r) == row[r].active /\ Len(row[r].ring) + Len(row[r].pend) < RingWords
VsaEn(r) == DoIssue(r) /\ row[r].fword < VsramWords

WsReady(r, ws, accReady) ==
    row[r].active =>
        /\ IsEmbed \/ row[r].ring # <<>>
        /\ ~(ws.end /\ (row[r].acc_valid \/ ~accReady))

\* wsValid is not qualified by the other rows: a row knows only its own ready.
En(r, wsValid, ws, accReady) ==
    wsValid /\ WsReady(r, ws, accReady) /\ row[r].active

Activation(r, ws) == act16(row[r].ring[1][Slot(ws)])

\* The ring moves on at the end of a word and at the end of a tile.
RingNext(r, ws, en, word) ==
    LET pop == en /\ ~IsEmbed /\ (Slot(ws) = WordElems - 1 \/ ws.end)
    IN [row[r] EXCEPT
          !.active = ~(en /\ ws.last) /\ @,
          !.ring = IF en /\ ws.last THEN <<>> ELSE (IF pop THEN Tail(@) ELSE @) \o row[r].pend,
          !.pend = IF DoIssue(r) /\ ~(en /\ ws.last) THEN Holding(word) ELSE Nothing,
          !.fword = IF ~DoIssue(r) THEN @ ELSE IF @ = WLast THEN W0 ELSE @ + 1]

\* The first beat of a tile moves the finished one into the hold set.
LanesNext(r, ws, en, old) ==
    IF ~en THEN old
    ELSE [old EXCEPT
            !.live = Seqn([i \in 1 .. WB |->
                       IF IsEmbed THEN ws.data[i]
                       ELSE ws.data[i] * Activation(r, ws) + (IF ws.start THEN 0 ELSE @[i])]),
            !.hold = IF ws.start THEN row[r].live ELSE @,
            !.buf_sel = ws.end]

AccFlat(r) == IF row[r].buf_sel THEN row[r].live ELSE row[r].hold

HandoffNext(r, ws, en, accReady, old) ==
    IF en /\ ws.end
    THEN [old EXCEPT !.acc_valid = TRUE, !.acc_tile = ws.tile, !.acc_nvalid = ws.nvalid,
                     !.acc_last = ws.last]
    ELSE [old EXCEPT !.acc_valid = @ /\ ~accReady]

\* words[r] is what port A returns to row r for this edge's address.
RowTick(issue, wsValid, ws, accReady, words) ==
    row' = [r \in Rows |->
        IF issue
        THEN [row[r] EXCEPT !.active = r \in cmd'.rows /\ cmd'.k # 0, !.ring = <<>>, !.pend = Nothing,
                            !.fword = cmd'.vs_src \div WordElems]
        ELSE LET en == En(r, wsValid, ws, accReady)
             IN HandoffNext(r, ws, en, accReady, LanesNext(r, ws, en, RingNext(r, ws, en, words[r])))]

\* err_bounds of a row: the range of vs_src, whether or not the opcode reads it.
RowBounds(c) == IF c.vs_src + c.k > VsramElems THEN Cardinality(c.rows) ELSE 0
=============================================================================
