---------------------------- MODULE SeqDispatch ----------------------------
(***************************************************************************)
(* qcore_seq_dispatch: the control loop that executes one descriptor at a  *)
(* time.  One action per branch of its state machine, each a whole clock   *)
(* edge of every register the module owns.                                 *)
(*                                                                         *)
(* "in" is the record of the signals sampled at the edge:                  *)
(*   wrIdle      every QMEM write issued so far is acknowledged            *)
(*   dqValid     the descriptor queue has a head, dqDesc its value         *)
(*   doneGemv, doneVpu, doneKv   the units' done pulses                    *)
(*   streamBusy  the weight stream still owns beats of its descriptor      *)
(***************************************************************************)
EXTENDS Csr

CONSTANT RowMod   \* 2 ^ RIW: the row counter is as wide as B_MAX requires, one bit at least

ASSUME RowModAssumption == RowMod \in Nat /\ RowMod >= BMax /\ RowMod > 1

VARIABLES
    state,      \* the state machine; S_IDLE is "IDLE", and so on
    busy,       \* STATUS.BUSY
    d,          \* the descriptor in flight
    stepMode, abortQ,
    stopErr,    \* the stop waiting on the fence is a fault
    stopStep,   \* ... or ends a step
    gemvDone,   \* done_gemv seen, the stream not yet idle
    srR, srPh,  \* SREG read: row and phase
    sxRows,     \* rows whose cmd_sx was loaded for the descriptor in hand
    errbQ,      \* the bounds events of the descriptor being decoded
    faultCode, faultOp,
    cmdPos, cmdTok,
    out         \* the registered one-cycle pulses

fsmVars  == <<state, busy, stepMode, abortQ, stopErr, stopStep>>
cmdVars  == <<d, gemvDone, srR, srPh, sxRows, errbQ, cmdPos, cmdTok>>
dispVars == <<fsmVars, cmdVars, faultCode, faultOp, out>>

States == {"IDLE", "CHK", "FETCH", "DEC", "PREP", "FENCE", "SREG", "RUN", "STOP"}

\* The states in which a descriptor is in hand.
InHand == {"DEC", "PREP", "FENCE", "SREG", "RUN"}

NoDesc == [op |-> "NOP", rows |-> {}, srcRow |-> 0, dstRow |-> 0,
           n |-> 0, k |-> 0, imm |-> 0, sh0 |-> 0,
           nPos |-> FALSE, kPos |-> FALSE, lenPos |-> FALSE,
           tracked |-> FALSE, group |-> FALSE, dump |-> FALSE]

Pulses == [pcSet : BOOLEAN, pcVal : Addrs, done : BOOLEAN, halted : BOOLEAN,
           err : BOOLEAN, snap : BOOLEAN, fstart : BOOLEAN, flush : BOOLEAN,
           gemv : BOOLEAN, vpu : BOOLEAN, kv : BOOLEAN, desc : BOOLEAN,
           errb : Nat]

Quiet == [pcSet |-> FALSE, pcVal |-> 0, done |-> FALSE, halted |-> FALSE,
          err |-> FALSE, snap |-> FALSE, fstart |-> FALSE, flush |-> FALSE,
          gemv |-> FALSE, vpu |-> FALSE, kv |-> FALSE, desc |-> FALSE,
          errb |-> 0]

DispTypeOK ==
    /\ state \in States /\ busy \in BOOLEAN /\ d \in Desc
    /\ stepMode \in BOOLEAN /\ abortQ \in BOOLEAN
    /\ stopErr \in BOOLEAN /\ stopStep \in BOOLEAN /\ gemvDone \in BOOLEAN
    /\ srR \in 0 .. (RowMod - 1) /\ srPh \in BOOLEAN /\ sxRows \in SUBSET Rows
    /\ errbQ \in Nat
    /\ faultCode \in Faults /\ faultOp \in FaultOps
    /\ cmdPos \in Positions /\ cmdTok \in Tokens
    /\ out \in Pulses

DispInit ==
    /\ state = "IDLE" /\ busy = FALSE /\ d = NoDesc
    /\ stepMode = FALSE /\ abortQ = FALSE
    /\ stopErr = FALSE /\ stopStep = FALSE /\ gemvDone = FALSE
    /\ srR = 0 /\ srPh = FALSE /\ sxRows = {} /\ errbQ = 0
    /\ faultCode = "NONE" /\ faultOp = "NONE"
    /\ cmdPos = 0 /\ cmdTok = 0
    /\ out = Quiet

-----------------------------------------------------------------------------
(* Conditions of the next-state logic *)

PcMisaligned == pc % DescBytes # 0

\* pop_ok: no pop in the cycle a restart or a flush is on its way.
PopOk == state = "FETCH" /\ ~abortQ /\ ~out.fstart /\ ~out.flush

SrActive == srR \in RowsC(d, rowEn)
SrStep   == ~SrActive \/ srPh

\* Fault: the read ends with the first row.
SrDoneFirstRow == SrStep

SrDone   == SrStep /\ srR = BMax - 1

\* Faults: a GEMV retires with beats of its stream still in flight, and one
\* whose done pulse came before the stream drained is not remembered.
RetireRunEarly(in) ==
    IF d.op \in GemvOps THEN gemvDone \/ in.doneGemv
    ELSE IF d.op = "KVWRITE" THEN in.doneKv ELSE in.doneVpu

RetireRunForgets(in) ==
    IF d.op \in GemvOps THEN in.doneGemv /\ ~in.streamBusy
    ELSE IF d.op = "KVWRITE" THEN in.doneKv ELSE in.doneVpu

RetireRun(in) ==
    IF d.op \in GemvOps THEN (gemvDone \/ in.doneGemv) /\ ~in.streamBusy
    ELSE IF d.op = "KVWRITE" THEN in.doneKv ELSE in.doneVpu

DecodeFault == Fault(d, rowEn)

AFault == \/ state = "CHK" /\ PcMisaligned
          \/ state = "DEC" /\ ~abortQ /\ DecodeFault # "NONE"

AAbortEnd == abortQ /\ state \in {"FETCH", "DEC", "PREP", "FENCE", "SREG"}

Trivial == d.op = "NOP" \/ ZeroWork(d, rowEn, pos)

ARetire(in) ==
    \/ state = "DEC" /\ ~abortQ /\ DecodeFault = "NONE" /\ Trivial
    \/ state = "FENCE" /\ ~abortQ /\ in.wrIdle /\ d.op \in {"HALT", "FENCE"}
    \/ state = "RUN" /\ RetireRun(in)

AIssue(in) ==
    \/ state = "PREP" /\ ~abortQ /\ ~NeedsFence(d) /\ ~NeedsSreg(d)
    \/ /\ state = "FENCE" /\ ~abortQ /\ in.wrIdle
       /\ d.op \notin {"HALT", "FENCE"} /\ ~NeedsSreg(d)
    \/ state = "SREG" /\ ~abortQ /\ SrDone

\* Fault: a step that retires with writes outstanding runs on.
AStepStopIfIdle(in) ==
    ARetire(in) /\ stepMode /\ ~abortQ /\ d.op # "HALT" /\ in.wrIdle

AStepStop(in) == ARetire(in) /\ stepMode /\ ~abortQ /\ d.op # "HALT"

AStop(in) == \/ AFault
             \/ AAbortEnd
             \/ ARetire(in) /\ abortQ /\ d.op # "HALT"
             \/ AStepStop(in)

-----------------------------------------------------------------------------
(* Register updates several branches share *)

LatchAbort    == abortQ' = (abortQ \/ abortRun)
LatchGemv(in) == gemvDone' = (gemvDone \/ in.doneGemv)
KeepDesc      == UNCHANGED <<d, cmdPos, cmdTok>>
KeepSreg      == UNCHANGED <<srR, srPh, sxRows>>
KeepStop      == UNCHANGED <<stopErr, stopStep>>
KeepFault     == UNCHANGED <<faultCode, faultOp>>
KeepRun       == UNCHANGED <<busy, stepMode>>

LatchErrb == errbQ' = IF state = "DEC" THEN BoundsErrors(d, rowEn, pos) ELSE errbQ

\* Fault: the bounds events of a descriptor without work are dropped.
RetireOutNoErrb ==
    [Quiet EXCEPT !.pcSet = TRUE, !.pcVal = (pc + DescBytes) % AddrMod, !.desc = TRUE]

RetireOut ==
    [Quiet EXCEPT !.pcSet = TRUE, !.pcVal = (pc + DescBytes) % AddrMod, !.desc = TRUE,
                  !.errb = IF state = "DEC" THEN BoundsErrors(d, rowEn, pos) ELSE 0]

\* The pulses of a program end on top of those of the same cycle.
EndOut(o, isStep, isErr) ==
    [o EXCEPT !.snap = TRUE, !.flush = TRUE,
              !.halted = isStep, !.done = ~isStep, !.err = isErr]

\* Fault: the row counter is wider than the rows require.
SregTickNoWrap ==
    IF state # "SREG" THEN KeepSreg
    ELSE /\ srPh' = (SrActive /\ ~srPh)
         /\ srR' = IF SrActive /\ ~srPh THEN srR ELSE srR + 1
         /\ sxRows' = IF SrActive /\ srPh THEN sxRows \cup {srR} ELSE sxRows

\* An SREG read is under way: two cycles for an active row, one otherwise.
SregTick ==
    IF state # "SREG" THEN KeepSreg
    ELSE /\ srPh' = (SrActive /\ ~srPh)
         /\ srR' = IF SrActive /\ ~srPh THEN srR ELSE (srR + 1) % RowMod
         /\ sxRows' = IF SrActive /\ srPh THEN sxRows \cup {srR} ELSE sxRows

\* S_PREP restarts the SREG read; an EMBED takes its unit scale there.
PrepTick ==
    IF state # "PREP" THEN SregTick
    ELSE /\ srR' = 0 /\ srPh' = FALSE
         /\ sxRows' = IF d.op = "EMBED" THEN Rows ELSE sxRows

\* The registers that tick the same way in every branch but the named ones.
Steady(in) == LatchAbort /\ LatchGemv(in) /\ KeepDesc /\ PrepTick /\ LatchErrb
Waits(in)  == Steady(in) /\ KeepStop /\ KeepFault /\ KeepRun /\ out' = Quiet

-----------------------------------------------------------------------------
(* The branches *)

Rest(in) ==
    /\ state = "IDLE" /\ ~start /\ ~step
    /\ state' = "IDLE"
    /\ Waits(in)

Begin(in) ==
    /\ state = "IDLE" /\ (start \/ step)
    /\ state' = "CHK" /\ busy' = TRUE
    /\ stepMode' = (step /\ ~start)
    /\ abortQ' = FALSE
    /\ LatchGemv(in) /\ KeepDesc /\ PrepTick /\ LatchErrb
    /\ KeepStop /\ KeepFault /\ out' = Quiet

StartFetch(in) ==
    /\ state = "CHK" /\ ~PcMisaligned
    /\ state' = "FETCH"
    /\ out' = [Quiet EXCEPT !.fstart = TRUE, !.flush = TRUE]
    /\ Steady(in) /\ KeepStop /\ KeepFault /\ KeepRun

AwaitHead(in) ==
    /\ state = "FETCH" /\ ~abortQ /\ ~(PopOk /\ in.dqValid)
    /\ state' = "FETCH"
    /\ Waits(in)

Pop(in) ==
    /\ PopOk /\ in.dqValid
    /\ state' = "DEC"
    /\ d' = in.dqDesc /\ cmdPos' = pos /\ cmdTok' = tok
    /\ gemvDone' = FALSE
    /\ sxRows' = {} /\ UNCHANGED <<srR, srPh>>
    /\ LatchAbort /\ LatchErrb
    /\ KeepStop /\ KeepFault /\ KeepRun /\ out' = Quiet

Decode(in) ==
    /\ state = "DEC" /\ ~abortQ /\ DecodeFault = "NONE" /\ ~Trivial
    /\ state' = "PREP"
    /\ Waits(in)

Prepare(in) ==
    /\ state = "PREP" /\ ~abortQ
    /\ \/ NeedsFence(d) /\ state' = "FENCE"
       \/ ~NeedsFence(d) /\ NeedsSreg(d) /\ state' = "SREG"
    /\ Waits(in)

AwaitFence(in) ==
    /\ state = "FENCE" /\ ~abortQ /\ ~in.wrIdle
    /\ state' = "FENCE"
    /\ Waits(in)

PassFence(in) ==
    /\ state = "FENCE" /\ ~abortQ /\ in.wrIdle
    /\ d.op \notin {"HALT", "FENCE"} /\ NeedsSreg(d)
    /\ state' = "SREG"
    /\ Waits(in)

ReadSreg(in) ==
    /\ state = "SREG" /\ ~abortQ /\ ~SrDone
    /\ state' = "SREG"
    /\ Waits(in)

Issue(in) ==
    /\ AIssue(in)
    /\ state' = "RUN"
    /\ out' = [Quiet EXCEPT !.gemv = (d.op \in GemvOps), !.vpu = (d.op \in VpuOps),
                            !.kv = (d.op = "KVWRITE"), !.errb = errbQ]
    /\ gemvDone' = FALSE
    /\ LatchAbort /\ KeepDesc /\ PrepTick /\ LatchErrb
    /\ KeepStop /\ KeepFault /\ KeepRun

AwaitUnit(in) ==
    /\ state = "RUN" /\ ~RetireRun(in)
    /\ state' = "RUN"
    /\ Waits(in)

RetireNext(in) ==
    /\ ARetire(in) /\ ~AStop(in) /\ d.op # "HALT"
    /\ state' = "FETCH"
    /\ out' = RetireOut
    /\ Steady(in) /\ KeepStop /\ KeepFault /\ KeepRun

RetireHalt(in) ==
    /\ ARetire(in) /\ d.op = "HALT"
    /\ state' = "IDLE" /\ busy' = FALSE /\ abortQ' = FALSE
    /\ out' = EndOut(RetireOut, FALSE, FALSE)
    /\ LatchGemv(in) /\ KeepDesc /\ PrepTick /\ LatchErrb
    /\ KeepStop /\ KeepFault /\ UNCHANGED stepMode

\* A fault, an ABORT and a step retire: the run is over once the writes are.
Stop(in) ==
    /\ AStop(in)
    /\ stopErr' = AFault /\ stopStep' = AStepStop(in)
    /\ faultCode' = IF ~AFault THEN faultCode
                    ELSE IF state = "CHK" THEN "PC_ALIGN" ELSE DecodeFault
    /\ faultOp' = IF ~AFault THEN faultOp ELSE IF state = "CHK" THEN "NONE" ELSE d.op
    /\ LET o == IF ARetire(in) THEN RetireOut ELSE Quiet
       IN IF in.wrIdle
          THEN /\ state' = "IDLE" /\ busy' = FALSE /\ abortQ' = FALSE
               /\ out' = EndOut(o, AStepStop(in), AFault)
          ELSE /\ state' = "STOP" /\ UNCHANGED busy /\ LatchAbort
               /\ out' = o
    /\ LatchGemv(in) /\ KeepDesc /\ PrepTick /\ LatchErrb /\ UNCHANGED stepMode

AwaitStop(in) ==
    /\ state = "STOP" /\ ~in.wrIdle
    /\ state' = "STOP"
    /\ Waits(in)

\* Fault: the stop does not wait for the writes.
CloseStopUnfenced(in) ==
    /\ state = "STOP"
    /\ state' = "IDLE" /\ busy' = FALSE /\ abortQ' = FALSE
    /\ out' = EndOut(Quiet, stopStep, ~stopStep /\ stopErr)
    /\ LatchGemv(in) /\ KeepDesc /\ PrepTick /\ LatchErrb
    /\ KeepStop /\ KeepFault /\ UNCHANGED stepMode

CloseStop(in) ==
    /\ state = "STOP" /\ in.wrIdle
    /\ state' = "IDLE" /\ busy' = FALSE /\ abortQ' = FALSE
    /\ out' = EndOut(Quiet, stopStep, ~stopStep /\ stopErr)
    /\ LatchGemv(in) /\ KeepDesc /\ PrepTick /\ LatchErrb
    /\ KeepStop /\ KeepFault /\ UNCHANGED stepMode

DispTick(in) ==
    \/ Rest(in) \/ Begin(in) \/ StartFetch(in)
    \/ AwaitHead(in) \/ Pop(in) \/ Decode(in) \/ Prepare(in)
    \/ AwaitFence(in) \/ PassFence(in) \/ ReadSreg(in) \/ Issue(in)
    \/ AwaitUnit(in) \/ RetireNext(in) \/ RetireHalt(in)
    \/ Stop(in) \/ AwaitStop(in) \/ CloseStop(in)
=============================================================================
