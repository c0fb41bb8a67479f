------------------------------- MODULE Units -------------------------------
(***************************************************************************)
(* The units a GEMV, EMBED or KVWRITE runs on, at their place in            *)
(* qcore_top: the stream controller, the rows, the requant and the KV       *)
(* writer share the VSRAM and SREG banks through the crossbar, a memory     *)
(* that answers in order and a write port.  One step is one clock edge.     *)
(* The dispatcher issues the descriptors of a program one at a time; what   *)
(* each must leave is what the ISA simulator's effect of it is.             *)
(***************************************************************************)
EXTENDS StreamCtrl, GemvRow, Requant, KvWriter

CONSTANTS
    Programs,    \* sequences of [d, pos, tok]: a descriptor, POS and TOK
    Mem,         \* QMEM: address -> number, read by the stream
    Loaded       \* VSRAM: bank -> element -> number, as a program finds it

\* The descriptors the programs issue.
Jobs == UNION {{p[i] : i \in DOMAIN p} : p \in Programs}

ASSUME UnitsAssumption ==
    /\ \A p \in Programs : p \in Seq(Jobs)
    /\ \A j \in Jobs : j.d.k \in Nat /\ j.pos \in Nat

VARIABLES
    todo,        \* what is still to issue
    unit,        \* the unit at work: "none", "gemv", "kv"
    finished,    \* gemv_done_q
    due,         \* beats memory owes
    vsram, rd_b, \* the VSRAM banks, and their port B output registers
    sreg,        \* the SREG banks
    qout,        \* QMEM written: address -> number
    argmax_csr,  \* ARGMAX_TOK, ARGMAX_VAL
    errs,        \* ERR_BOUNDS
    want         \* history: the machine the ISA simulator would be left with

vars == <<cmd, streamVars, row, requantVars, kvVars, todo, unit, finished, due, vsram, rd_b, sreg, qout,
          argmax_csr, errs, want>>

machine == [vsram |-> vsram, sreg |-> sreg, qout |-> qout, argmax |-> argmax_csr, errs |-> errs]

Elems == 0 .. VsramElems - 1

Init ==
    /\ todo \in Programs
    /\ vsram = Loaded /\ rd_b = [v \in Rows |-> NoWord]
    /\ sreg = [v \in Rows |-> [i \in 0 .. SregCount - 1 |-> [kind |-> "scale", v |-> 3 + 2 * v + i]]]
    /\ cmd = Bundle(Default, 0, 0, sreg)
    /\ StreamInit /\ RowInit /\ RequantInit /\ KvInit
    /\ unit = "none" /\ finished = FALSE /\ due = <<>>
    /\ qout = <<>> /\ argmax_csr = <<>> /\ errs = 0
    /\ want = machine

-----------------------------------------------------------------------------
(* What the ISA simulator makes of a descriptor: isa_sim.py, a row at a time *)

\* A row of the machine m: it reads bank src_row + r, and the old values of bank dst_row + r.
View(m, d, r) ==
    LET src == d.vs_src .. d.vs_src + (IF d.op = "KVWRITE" THEN HeadDim ELSE d.k) - 1
    IN [a \in Elems |-> m.vsram[(IF a \in src THEN d.src_row ELSE d.dst_row) + r][a]]

Sim(view, sregs, pos, tok) ==
    INSTANCE IsaSim WITH
        shape <- [wb |-> WB, words |-> VsramWords], mem <- Mem, vsram <- view, sreg <- sregs,
        csr <- [POS |-> pos, TOK |-> tok], err_bounds <- 0, perf <- 0, argmax_out <- <<>>,
        status <- "run", log <- {},
        Align <- 1, RopeBase <- 0, ConstBase <- 0, WeightBase <- 0, WbUnit <- 1, MaxCtxCap <- 1

EffectOf(d, view, sregs, pos, tok) ==
    CASE d.op = "GEMV"    -> Sim(view, sregs, pos, tok)!GemvEffect(d)
      [] d.op = "EMBED"   -> Sim(view, sregs, pos, tok)!EmbedEffect(d)
      [] d.op = "KVWRITE" -> Sim(view, sregs, pos, tok)!KvwriteEffect(d)

Cells(write) == [a \in write.addr .. write.addr + Len(write.v) - 1 |-> write.v[a - write.addr + 1]]

\* dump_address: row r at addr_c + r * 4 * N.
AsRow(d, r, pos) ==
    IF Dumps(d) THEN [d EXCEPT !.imm = @ + r * 4 * Sim(Loaded[0], <<>>, pos, 0)!gemv_dims(d, pos, WB).n] ELSE d

AfterRow(m, job, r) ==
    LET d == AsRow(job.d, r, job.pos)
        view == View(m, d, r)
        dst == d.dst_row + r
        apply(e) ==
            [vsram |-> [m.vsram EXCEPT ![dst] =
                          [a \in Elems |-> IF e.vs # <<>> /\ a - e.vs[1].start + 1 \in DOMAIN e.vs[1].v
                                           THEN e.vs[1].v[a - e.vs[1].start + 1] ELSE @[a]]],
             sreg  |-> [m.sreg EXCEPT ![dst] = Sim(view, @, job.pos, job.tok)!WriteSreg(e)],
             qout  |-> Fold(LAMBDA q, w : Cells(w) @@ q, m.qout, e.mem),
             argmax |-> IF e.csr = <<>> THEN m.argmax ELSE e.csr,
             errs  |-> m.errs + e.err + Sim(view, m.sreg[dst], job.pos, job.tok)!Dropped(e)]
    IN With(EffectOf(d, view, m.sreg[d.src_row + r], job.pos, job.tok), apply)

\* execute: the participating rows, ascending.
Executed(m, job) ==
    Fold(LAMBDA a, r : IF r \in RowsOf(job.d) THEN AfterRow(a, job, r) ELSE a, m,
         [i \in 1 .. BMax |-> i - 1])

-----------------------------------------------------------------------------
(* Signals between the units *)

Ready == \A r \in Rows : WsReady(r, Ws, AccReady(MetaValid))

\* The tile comes from the lowest participating row.
Handed ==
    LET r == Lower(cmd.rows)
    IN [valid |-> \E i \in Rows : row[i].acc_valid,
        tile |-> row[r].acc_tile, nvalid |-> row[r].acc_nvalid, last |-> row[r].acc_last]

WordAt(bank, w) == [i \in 0 .. WordElems - 1 |-> vsram[bank][w * WordElems + i]]

\* Port A of bank src_row + r; a word past the end reads 0.
PortA == [r \in Rows |-> IF VsaEn(r) THEN WordAt(cmd.src_row + r, row[r].fword) ELSE NoWord]

\* Port B: the KV writer's while it is busy, otherwise the requant's.
PortBBank == IF KvBusy THEN cmd.src_row + kv.vsb_row ELSE cmd.dst_row + VsbRow
PortBEn   == IF KvBusy THEN KvEn ELSE rdReq.en
PortBAddr == IF KvBusy THEN KvWord ELSE IF wr # Nothing THEN wr[1].addr ELSE rdReq.addr
PortBData == IF PortBBank \in Rows THEN rd_b[PortBBank] ELSE NoWord

VsramTick ==
    /\ rd_b' = [v \in Rows |-> IF PortBEn /\ v = PortBBank THEN WordAt(v, PortBAddr) ELSE rd_b[v]]
    /\ vsram' = IF wr = Nothing \/ KvBusy THEN vsram
                ELSE [vsram EXCEPT ![PortBBank] =
                        [a \in Elems |-> IF a \div WordElems = wr[1].addr /\ a % WordElems \in DOMAIN wr[1].data
                                         THEN wr[1].data[a % WordElems] ELSE @[a]]]

RegistersTick ==
    /\ sreg' = IF rep.sreg = Nothing THEN sreg
               ELSE [sreg EXCEPT ![cmd.dst_row + rep.sreg[1].row][cmd.sreg_dst] =
                        [kind |-> "absmax", v |-> rep.sreg[1].v]]
    /\ argmax_csr' = IF rep.argmax = Nothing THEN argmax_csr ELSE rep.argmax[1]

-----------------------------------------------------------------------------
(* Memory, the write port and the dispatcher *)

BeatAt(req) ==
    IF req.tag = "w" THEN [i \in 1 .. WB |-> Mem[req.addr + i - 1]]
    ELSE [i \in 1 .. NG |-> Mem[req.addr + (i - 1) * MetaBytes]]

Returned(answers, tag) ==
    IF answers /\ Head(due).tag = tag THEN Holding(BeatAt(Head(due))) ELSE Nothing

MemoryTick(sReady, answers) ==
    due' = (IF answers THEN Tail(due) ELSE due)
           \o (IF sReq # Nothing /\ sReady
               THEN [i \in 1 .. sReq[1].len |-> [tag |-> sReq[1].tag, addr |-> sReq[1].addr + (i - 1) * WB]]
               ELSE <<>>)

\* The port takes a beat of the KV writer before one of the dump.
WriteTick(wrReady) ==
    qout' = IF ~wrReady THEN qout
            ELSE IF kWr # Nothing THEN Cells(kWr[1]) @@ qout
            ELSE IF dqOut # Nothing THEN Cells(dqOut[1]) @@ qout ELSE qout

Retires == IF unit = "kv" THEN doneKv ELSE (finished \/ doneGemv) /\ ~StreamBusy

\* pops: the dispatcher takes the next descriptor; without work it retires there and then.
DispatcherTick(pops, issue) ==
    /\ todo' = IF pops THEN Tail(todo) ELSE todo
    /\ cmd' = IF issue THEN Bundle(Head(todo).d, Head(todo).pos, Head(todo).tok, sreg) ELSE cmd
    /\ unit' = IF issue THEN IF Head(todo).d.op = "KVWRITE" THEN "kv" ELSE "gemv"
               ELSE IF unit # "none" /\ Retires THEN "none" ELSE unit
    /\ finished' = (~issue /\ (finished \/ doneGemv))
    /\ want' = IF pops THEN Executed(machine, Head(todo)) ELSE want
    /\ errs' = errs + (IF pops THEN DecodeErrors(Head(todo).d, Head(todo).pos) ELSE 0)
                    + (IF issue /\ Head(todo).d.op # "KVWRITE" THEN RowBounds(cmd') ELSE 0)
                    + RequantBounds(MetaValid) + KvBounds

-----------------------------------------------------------------------------
Maybe(b) == IF b THEN BOOLEAN ELSE {FALSE}

Edge(pops, sReady, answers, wrReady) ==
    LET issue == pops /\ ~ZeroWork(Head(todo).d, Head(todo).pos)
    IN /\ MemoryTick(sReady, answers) /\ WriteTick(wrReady)
       /\ DispatcherTick(pops, issue)
       /\ LET kvIssue == issue /\ unit' = "kv"
              gemvIssue == issue /\ unit' = "gemv"
          IN /\ StreamTick(gemvIssue, sReady, Returned(answers, "w"), Returned(answers, "m"), Ready, MetaReady)
             /\ RowTick(gemvIssue, wo # Nothing, Ws, AccReady(MetaValid), PortA)
             /\ RequantTick(gemvIssue, Handed, AccFlat(rq.row), MetaValid, MetaData, PortBData,
                            wrReady /\ kWr = Nothing)
             /\ KvTick(kvIssue, PortBData, wrReady)
       /\ VsramTick /\ RegistersTick

MayIssue == Maybe(unit = "none" /\ todo # <<>>)
MayTake == Maybe(sReq # Nothing)
MayAnswer == Maybe(due # <<>>)
MayWrite == Maybe(kWr # Nothing \/ dqOut # Nothing)

Next ==
    \E pops \in MayIssue, sReady \in MayTake, answers \in MayAnswer, wrReady \in MayWrite :
        Edge(pops, sReady, answers, wrReady)

Spec == Init /\ [][Next]_vars

-----------------------------------------------------------------------------
(* Safety *)

Quiet ==
    /\ ~StreamBusy /\ due = <<>> /\ \A r \in Rows : ~row[r].active /\ ~row[r].acc_valid
    /\ rq.state = "IDLE" /\ PipeEmpty /\ rep = NoReport /\ word = <<>>
    /\ ~KvBusy /\ kWr = Nothing

\* A descriptor that has retired has left what the ISA simulator says it leaves,
\* in VSRAM, SREG, QMEM and the CSRs, and has left nothing under way, whatever
\* the timing of memory and of the write port (docs/RTL.md 2.2: done comes after
\* the last write; the RTL is held to isa_sim.py bit for bit).
OutputsExact == unit = "none" => machine = want /\ Quiet

Owed(tag) == Cardinality({i \in DOMAIN due : due[i].tag = tag})
             + (IF sReq # Nothing /\ sReq[1].tag = tag THEN sReq[1].len ELSE 0)

\* What a queue is sent it has a place for: a beat comes back only into the
\* space reserved for it, a word only into a free slot of the ring (the
\* simulation-only assertions of qcore_stream_ctrl).
SpaceReserved ==
    /\ wOut = Owed("w") /\ Len(wmem) + Len(wo) + wOut <= FifoBeats
    /\ mOut = Owed("m") /\ Len(mmem) + Len(mo) + mOut <= MetaFifoBeats
    /\ \A r \in Rows : Len(row[r].ring) + Len(row[r].pend) <= RingWords

\* docs/RTL.md 3.10: the old word is captured from port B of the element's bank;
\* the read of another row's is "deferred [...] while the row select would have to
\* change during the return of an earlier read".
OldWordIsOwn ==
    Adv /\ pipe[2] # Nothing /\ cmd.accumulate =>
        LET e == pipe[2][1] IN WFirst(e.c) /\ ~Oob(e.c) => VsbRow = e.row

-----------------------------------------------------------------------------
(* Liveness: memory takes and answers every request, and takes every write. *)

MemTakes ==
    /\ sReq # Nothing
    /\ \E answers \in MayAnswer, wrReady \in MayWrite : Edge(FALSE, TRUE, answers, wrReady)
MemAnswers ==
    /\ due # <<>>
    /\ \E sReady \in MayTake, wrReady \in MayWrite : Edge(FALSE, sReady, TRUE, wrReady)
PortTakes ==
    /\ kWr # Nothing \/ dqOut # Nothing
    /\ \E sReady \in MayTake, answers \in MayAnswer : Edge(FALSE, sReady, answers, TRUE)
Clocked ==
    \E sReady \in MayTake, answers \in MayAnswer, wrReady \in MayWrite :
        Edge(FALSE, sReady, answers, wrReady)

FairSpec == Spec /\ WF_vars(Clocked) /\ WF_vars(MemTakes) /\ WF_vars(MemAnswers) /\ WF_vars(PortTakes)

\* A descriptor that was issued retires: the FIFOs, the ring, the handoff and
\* the dump queue do not wait on each other for ever.
UnitsEnd == (unit # "none") ~> (unit = "none")
=============================================================================
