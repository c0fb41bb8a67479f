------------------------------ MODULE Control ------------------------------
(***************************************************************************)
(* The control path of qcore_top: the CSR block, the dispatcher and the    *)
(* write path, clocked together.  The descriptor fetch is the stream it    *)
(* promises (DescStream); a unit is busy from its issue pulse until it     *)
(* pulses done, at a time of its own; memory takes and acknowledges writes *)
(* at times of its own; the host writes one register a cycle, or none.     *)
(***************************************************************************)
EXTENDS SeqDispatch, WritePath

CONSTANTS
    Programs,    \* the programs that may be in memory: functions Addrs -> Desc
    HostOps,     \* the host writes of this instance, a subset of HostWrites
    MaxUnacked   \* writes memory holds unacknowledged before it is not ready

ASSUME ControlAssumption ==
    /\ Programs \subseteq [Addrs -> Desc] /\ Programs # {}
    /\ HostOps \subseteq HostWrites /\ NoWrite \in HostOps
    /\ MaxUnacked \in Nat \ {0} /\ MaxUnacked < WrMod

VARIABLES
    code,                      \* the program in memory
    unit, streamBusy,          \* the unit in flight; the weight stream's busy
    sOn, sNext, sValid,        \* the descriptor stream
    (* history, read by the properties only *)
    dAt,         \* the address the descriptor in hand was popped from
    ran,         \* descriptors retired since the last START or STEP, up to 2
    opened,      \* writes presented by a unit and not yet acknowledged
    retiredErrb  \* bounds events of the descriptors retired since START

Stream == INSTANCE DescStream
    WITH StreamAddrs <- Addrs, StreamMod <- AddrMod, StreamStep <- DescBytes

unitVars == <<unit, streamBusy, kValid, dValid>>
histVars == <<dAt, ran, opened, retiredErrb>>
vars == <<csrVars, dispVars, writeVars, unitVars, sOn, sNext, sValid, code, histVars>>

Units == {"none", "gemv", "vpu", "kv"}

TypeOK ==
    /\ CsrTypeOK /\ DispTypeOK /\ WriteTypeOK /\ Stream!StreamTypeOK
    /\ code \in Programs
    /\ unit \in Units /\ streamBusy \in BOOLEAN
    /\ dAt \in Addrs /\ ran \in 0 .. 2
    /\ opened \in Int
    /\ retiredErrb \in 0 .. (CounterMod - 1)

Init ==
    /\ CsrInit /\ DispInit /\ WriteInit /\ Stream!StreamInit
    /\ code \in Programs
    /\ unit = "none" /\ streamBusy = FALSE
    /\ dAt = 0 /\ ran = 0 /\ opened = 0 /\ retiredErrb = 0

-----------------------------------------------------------------------------
(* The units, as the control path sees them *)

\* A unit that writes presents nothing new in the cycle of its done pulse: the
\* KV writer's last beat was taken, the requant's dump queue is empty.
MayFinish == \/ unit = "vpu"
             \/ unit = "kv" /\ ~kValid
             \/ unit = "gemv" /\ ~dValid

UnitTick(fin, drained) ==
    /\ fin => MayFinish
    /\ drained => streamBusy
    /\ unit' = IF out.gemv THEN "gemv" ELSE IF out.vpu THEN "vpu"
               ELSE IF out.kv THEN "kv" ELSE IF fin THEN "none" ELSE unit
    /\ streamBusy' = (out.gemv \/ (streamBusy /\ ~drained))

\* A presented write stays until it is taken; the unit in flight may then
\* present another ("more").
CanPresent(wrReady) ==
    \/ unit = "kv" /\ (~kValid \/ TakeK(wrReady))
    \/ unit = "gemv" /\ d.dump /\ (~dValid \/ TakeD(wrReady))

PresentTick(fin, more, wrReady) ==
    /\ more => ~fin /\ CanPresent(wrReady)
    /\ kValid' = ((kValid /\ ~TakeK(wrReady)) \/ (more /\ unit = "kv"))
    /\ dValid' = ((dValid /\ ~TakeD(wrReady)) \/ (more /\ unit = "gemv"))

\* Memory may take the write in the stage while it holds fewer than
\* MaxUnacked, and acknowledges only what it has taken.
MemoryTick(wrReady, wrAck) ==
    /\ wrReady => wqValid /\ Unacked < MaxUnacked
    /\ wrAck => issued # acked
    /\ WriteTick(wrReady, wrAck)

\* What the dispatcher samples; fin is the done pulse of the unit in flight.
Sampled(fin) ==
    [wrIdle |-> WrIdle, dqValid |-> sValid, dqDesc |-> code[sNext],
     doneGemv |-> fin /\ unit = "gemv", doneVpu |-> fin /\ unit = "vpu",
     doneKv |-> fin /\ unit = "kv", streamBusy |-> streamBusy]

One(b) == IF b THEN 1 ELSE 0

HistTick(in, more, wrAck) ==
    /\ dAt' = IF PopOk /\ in.dqValid THEN sNext ELSE dAt
    /\ ran' = IF state = "IDLE" /\ (start \/ step) THEN 0
              ELSE IF ARetire(in) /\ ran < 2 THEN ran + 1 ELSE ran
    /\ opened' = opened + One(more) - One(wrAck)
    /\ retiredErrb' = IF start THEN 0
                      ELSE IF ARetire(in)
                      THEN (retiredErrb + BoundsErrors(d, rowEn, pos)) % CounterMod
                      ELSE retiredErrb

-----------------------------------------------------------------------------
\* One clock edge but for the register block.  The environment's choices: the
\* done pulse, the stream falling idle, a write presented, memory's ready and
\* ack, a descriptor appearing at the head.
CoreTick(fin, drained, more, wrReady, wrAck, appears) ==
    LET in == Sampled(fin) IN
    /\ appears => sOn /\ ~out.flush /\ (PopOk \/ ~sValid)
    /\ UnitTick(fin, drained)
    /\ PresentTick(fin, more, wrReady)
    /\ MemoryTick(wrReady, wrAck)
    /\ DispTick(in)
    /\ Stream!StreamTick(out.fstart, out.flush, pc, PopOk, appears)
    /\ HistTick(in, more, wrAck)
    /\ UNCHANGED code

\* A whole clock edge, with the host write w.
Tick(w, fin, drained, more, wrReady, wrAck, appears) ==
    /\ CoreTick(fin, drained, more, wrReady, wrAck, appears)
    /\ CsrTick(w, busy, out, faultCode, faultOp)

\* What may happen at an edge only if b.
Maybe(b) == IF b THEN BOOLEAN ELSE {FALSE}

NextUnder(ops) ==
    \E fin \in Maybe(MayFinish), drained \in Maybe(streamBusy), wrReady \in Maybe(wqValid),
       wrAck \in Maybe(issued # acked), appears \in Maybe(sOn) :
        \E more \in Maybe(CanPresent(wrReady)) :
            /\ CoreTick(fin, drained, more, wrReady, wrAck, appears)
            /\ \E w \in ops : CsrTick(w, busy, out, faultCode, faultOp)

Next == NextUnder(HostOps)

Spec == Init /\ [][Next]_vars

-----------------------------------------------------------------------------
(* Safety *)

Ends == out.done \/ out.halted
Issues == out.gemv \/ out.vpu \/ out.kv

\* wr_idle is exact: it is high only when every write a unit ever presented
\* has been acknowledged, whichever of the requester, the stage and memory
\* holds it (qcore_mem_arb, the comment on wr_idle).
WrIdleExact == WrIdle <=> opened = 0

\* DONE and STEP_HALTED are declared only once every write the program made is
\* acknowledged, on the HALT, the fault, the ABORT and the step path alike.
EndFenced == Ends => opened = 0

\* The descriptors whose units read QMEM: the weight stream, and the vector
\* operations that stream an operand row or a table.
ReadsQmem == {"GEMV", "EMBED", "VRMSNORM", "VROPE", "VSOFTMAX", "VSUBC"}

\* A unit that reads QMEM is issued only when no write of an earlier
\* descriptor is outstanding, SREG reads between the fence and the issue
\* notwithstanding.
ReadFenced == Issues /\ d.op \in ReadsQmem => opened = 0

\* One descriptor is in flight: an issue pulse finds every unit idle and the
\* weight stream drained of the beats of the one before.
OneInFlight == Issues => unit = "none" /\ ~streamBusy

\* The descriptor in hand is the one PC names, although PC is advanced by a
\* pulse the fetch does not see, and it works on the POS and TOK that were
\* latched at its pop.
InHandIsPc ==
    state \in InHand => pc = dAt /\ d = code[dAt] /\ cmdPos = pos /\ cmdTok = tok

\* Every scale the unit is handed was read for this descriptor: none is left
\* over from an earlier one, for a row the row mask skipped then.
ScalesCurrent ==
    Issues /\ (NeedsSreg(d) \/ d.op = "EMBED") => RowsC(d, rowEn) \subseteq sxRows

\* ERR_BOUNDS counts a descriptor's events at its commit, before it retires;
\* once the run is over the sum is over exactly the retired descriptors.
BoundsCounted ==
    ~busy => (errBounds + out.errb) % CounterMod = retiredErrb

\* The pulses that report the end of a run never meet the clear that START and
\* STEP apply to the whole status block, which would win over them.
EndNotLost == Ends \/ out.err => ~start /\ ~step

(* What a step may never do *)

Bundle == <<d, RowsC(d, rowEn), NDec(d, pos), KDec(d, pos), LenDec(d, pos),
            sxRows, cmdPos, cmdTok>>

\* Every cmd_* field holds from the issue pulse to the retire: the host cannot
\* reach ROW_EN or POS, nor the decode the descriptor, while a unit works.
BundleHolds == [][state = "RUN" => Bundle' = Bundle \/ state' # "RUN"]_vars

-----------------------------------------------------------------------------
(* Liveness.  The clock runs; a unit pauses between writes and, done with     *)
(* them, pulses done; the stream drains; memory takes and acknowledges each   *)
(* write; the fetch brings the next descriptor.  Nothing is asked of the host.*)

\* The clock, with no write of the host counted on.
Clocked   == NextUnder({NoWrite})
Finishes  == unit # "none" /\ unit' = "none" /\ Next
Pauses    == (kValid \/ dValid) /\ kValid' = FALSE /\ dValid' = FALSE /\ Next
Drains    == streamBusy /\ streamBusy' = FALSE /\ Next
WriteGoes == wqValid /\ issued' = (issued + 1) % WrMod /\ Next
AckComes  == acked' = (acked + 1) % WrMod /\ Next
HeadComes == ~sValid /\ sValid' = TRUE /\ Next

Fairness ==
    /\ WF_vars(Clocked) /\ SF_vars(Finishes) /\ SF_vars(Pauses) /\ WF_vars(Drains)
    /\ WF_vars(WriteGoes) /\ WF_vars(AckComes) /\ WF_vars(HeadComes)

FairSpec == Spec /\ Fairness

\* A run ends if its program holds a HALT, through every fence on its way, or
\* if an ABORT is pending, of a program without an end as well.
RunEnds == (busy /\ (abortQ \/ \E a \in Addrs : code[a].op = "HALT")) ~> ~busy

-----------------------------------------------------------------------------
(* The promise to the host *)

\* The address PC settles on, the pulse on its way included.
PcNow == IF out.pcSet THEN out.pcVal ELSE pc

\* A program runs as the sequential machine of ProgramRun: whatever the
\* prefetch, the units and the write path do, one descriptor executes after
\* the other, and the end of a run is reported as promised.
Run == INSTANCE ProgramRun WITH
    prog <- code, at <- PcNow, rows <- rowEn, p <- pos,
    running <- busy, stepping <- stepMode, count <- ran,
    asked <- busy /\ (abortQ \/ abortRun),
    dirty <- opened # 0,
    report <- IF out.err THEN "error" ELSE IF out.done THEN "done"
              ELSE IF out.halted THEN "halted" ELSE "none"

RunsAsPromised == Run!RunSpec
=============================================================================
