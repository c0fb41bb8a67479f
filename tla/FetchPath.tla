----------------------------- MODULE FetchPath -----------------------------
(***************************************************************************)
(* The descriptor fetch at its place in the core: behind the arbiter,      *)
(* which the weight stream and the vector unit share, and under the fence  *)
(* the write path raises.  The dispatcher restarts it while no run is on,  *)
(* pops a descriptor, puts one unit to work on it (a GEMV streams and may  *)
(* dump, a vector operation reads, a KV write writes), comes back for the  *)
(* next descriptor, and flushes the fetch once the run is over and fenced. *)
(***************************************************************************)
EXTENDS SeqFetch, ReadArb, WritePath

CONSTANTS
    Pcs,         \* addresses a run may start at
    SLens,       \* beats of a stream request
    MaxUnacked   \* writes memory holds unacknowledged before it is not ready

ASSUME FetchPathAssumption ==
    /\ Pcs \subseteq Bytes /\ \A a \in Pcs : a % DescB = 0
    /\ SLens \subseteq Nat \ {0} /\ \A l \in SLens : BeatCap + l <= BeatMod
    /\ MaxUnacked \in Nat \ {0} /\ MaxUnacked < WrMod

VARIABLES
    on, stepping,           \* the dispatcher: a run is on, it is a step
    unit,                   \* the unit at work; "none" while in S_FETCH
    sReq, sLen, vReq,       \* requests of the stream and of the vector unit
    mem,                    \* fetch requests memory took: the beats to return
    (* history, read by the properties only *)
    nextPc,      \* the descriptor the dispatcher is owed
    granted,     \* stream beats granted since the last fetch grant, to MaxBurst
    overtook     \* fetch requests granted since a write was presented, to 2

envVars  == <<on, stepping, unit, sReq, sLen, vReq, mem, kValid, dValid>>
histVars == <<nextPc, granted, overtook>>
vars == <<fetchVars, arbVars, writeVars, envVars, histVars>>

Init ==
    /\ FetchInit /\ ArbInit /\ WriteInit
    /\ on = FALSE /\ stepping = FALSE /\ unit = "none"
    /\ sReq = FALSE /\ sLen \in SLens /\ vReq = FALSE /\ mem = <<>>
    /\ nextPc = 0 /\ granted = 0 /\ overtook = 0

Units == {"gemv", "vpu", "kv"}

-----------------------------------------------------------------------------
Cmds ==
    [start : {TRUE}, flush : {TRUE}, pc : Pcs] \cup
    [start : {FALSE}, flush : BOOLEAN, pc : {0}]

\* The unit presents nothing: it may finish.
AtRest == ~sReq /\ ~vReq /\ ~kValid /\ ~dValid

\* A run starts while none is on, and is over once its writes are acknowledged;
\* one whose PC is misaligned is over before the fetch was restarted.
CmdAllowed(cmd) ==
    /\ cmd.start => ~on
    /\ cmd.flush /\ ~cmd.start => AtRest /\ WrIdle

Ready(cmd) == on /\ unit = "none" /\ ~cmd.start /\ ~cmd.flush

DispatcherTick(cmd, newStep, next, retires) ==
    LET pops == DqPop(Ready(cmd)) IN
    /\ on' = (cmd.start \/ (on /\ ~cmd.flush))
    /\ stepping' = IF cmd.start THEN newStep ELSE stepping /\ on'
    /\ unit' = IF pops THEN next ELSE IF retires \/ ~on' THEN "none" ELSE unit
    /\ nextPc' = IF cmd.start THEN cmd.pc
                 ELSE IF pops THEN (nextPc + DescB) % ByteMod ELSE nextPc

Presented == [s |-> sReq, v |-> vReq, f |-> fReqValid, sLen |-> sLen,
              fAddr |-> fReqAddr, dqCount |-> dcount]

\* A request stays until it is taken; the unit at work may then make another.
ReadersTick(rdReady, asks, len) ==
    /\ sReq' = ((sReq /\ ~TakeS(Presented, rdReady)) \/ (asks /\ unit = "gemv"))
    /\ vReq' = ((vReq /\ ~TakeV(Presented, rdReady)) \/ (asks /\ unit = "vpu"))
    /\ sLen' = IF sReq' /\ (~sReq \/ TakeS(Presented, rdReady)) THEN len ELSE sLen

WriterTick(more, wrReady, wrAck) ==
    /\ wrReady => Unacked < MaxUnacked
    /\ kValid' = ((kValid /\ ~TakeK(wrReady)) \/ (more /\ unit = "kv"))
    /\ dValid' = ((dValid /\ ~TakeD(wrReady)) \/ (more /\ unit = "gemv"))
    /\ WriteTick(wrReady, wrAck)

\* Memory answers in order, one beat an edge at most.
Beat(answers) ==
    IF answers THEN [valid |-> TRUE, addr |-> Head(mem),
                     last |-> Head(mem) % GB = GB - WB]
    ELSE [valid |-> FALSE, addr |-> 0, last |-> FALSE]

BeatsOf(a) == [i \in 1 .. BPR |-> a + (i - 1) * WB]

MemoryTick(rdReady, answers) ==
    /\ mem' = (IF answers THEN Tail(mem) ELSE mem)
              \o (IF rdReady /\ rq.tag = "f" THEN BeatsOf(rq.addr) ELSE <<>>)

AtMost(x, bound) == IF x < bound THEN x ELSE bound

HistTick(rdReady) ==
    /\ granted' = IF TakeF(Presented, rdReady) THEN 0
                  ELSE IF TakeS(Presented, rdReady)
                  THEN AtMost(granted + sLen, MaxBurst) ELSE granted
    /\ overtook' = IF WrIdle THEN 0
                   ELSE IF TakeF(Presented, rdReady)
                   THEN AtMost(overtook + 1, 2) ELSE overtook

-----------------------------------------------------------------------------
\* What may happen at an edge only if b.
Maybe(b) == IF b THEN BOOLEAN ELSE {FALSE}

\* The dispatcher, and the units it has at work.  One that retires, or ends the
\* run, asks for nothing more.
ProgramTick(cmd, rdReady, wrReady, wrAck) ==
    \E newStep \in Maybe(cmd.start), next \in IF DqPop(Ready(cmd)) THEN Units ELSE {"none"},
       retires \in Maybe(unit # "none" /\ ~stepping /\ AtRest) :
        /\ DispatcherTick(cmd, newStep, next, retires)
        /\ \E asks \in Maybe(unit \in {"gemv", "vpu"} /\ ~retires /\ ~cmd.flush), len \in SLens :
               ReadersTick(rdReady, asks, len)
        /\ \E more \in Maybe(unit \in {"gemv", "kv"} /\ ~retires /\ ~cmd.flush) :
               WriterTick(more, wrReady, wrAck)

\* An edge, seen from memory, under one of the commands cmds.
Step(cmds, rdReady, answers, wrReady, wrAck) ==
    /\ MemoryTick(rdReady, answers)
    /\ ArbTick(Presented, rdReady)
    /\ HistTick(rdReady)
    /\ \E cmd \in {c \in cmds : CmdAllowed(c)} :
        /\ FetchTick([start |-> cmd.start, flush |-> cmd.flush, pc |-> cmd.pc,
                      step |-> stepping],
                     ~WrIdle, FReady(Presented, rdReady), Beat(answers), Ready(cmd))
        /\ ProgramTick(cmd, rdReady, wrReady, wrAck)

NextUnder(cmds) ==
    \E rdReady \in Maybe(rq # NoRequest), answers \in Maybe(mem # <<>>),
       wrReady \in Maybe(wqValid), wrAck \in Maybe(issued # acked) :
        Step(cmds, rdReady, answers, wrReady, wrAck)

Next == NextUnder(Cmds)

Spec == Init /\ [][Next]_vars

-----------------------------------------------------------------------------
(* Safety *)

\* The queue never overflows: a group comes back only into space reserved
\* when its request was raised (the module's first assertion).
NoOverflow == Len(gmem) + One(oValid) + bursts <= GD

\* The beats and the bursts counted as outstanding are those the request stage
\* and memory still owe, over flushes and restarts (its second assertion).
OutBeatsExact ==
    /\ outBeats = Len(mem) + (IF rq.tag = "f" THEN BPR ELSE 0)
    /\ bursts = (Len(mem) + BPR - 1) \div BPR + One(rq.tag = "f")

HeadAddr == oGrp[1] + oLane * DescB

\* The head is the descriptor the dispatcher is owed, whole: whatever was in
\* flight when the run before was flushed, and wherever in a beat this one
\* starts.
HeadIsNext ==
    oValid => /\ HeadAddr = nextPc
              /\ \A i \in 1 .. BPR : oGrp[i] = oGrp[1] + (i - 1) * WB

\* At most one fetch read passes a write: the one already presented to the
\* arbiter when the write was.
OneOvertakes == overtook <= 1

\* Descriptors from the head to the end of the queue.
Queued == (IF oValid THEN DPR - oLane ELSE 0) + DPR * Len(gmem)
          - (IF skipR /\ gmem # <<>> THEN skip ELSE 0)

\* A fetch whose queue runs low has its slot after MaxBurst stream beats,
\* however long the stream ran before it asked: neither of the two counters
\* the arbiter goes by, the beats granted and dq_count, drifts or wraps.
FetchSlot ==
    fReqValid /\ granted >= MaxBurst /\ Queued < LowMark =>
        \A rdReady \in BOOLEAN : ~TakeS(Presented, rdReady) /\ ~TakeV(Presented, rdReady)

(* Refinement *)

Stream == INSTANCE DescStream
    WITH StreamAddrs <- Bytes, StreamMod <- ByteMod, StreamStep <- DescB,
         sOn <- on, sNext <- IF oValid THEN HeadAddr ELSE nextPc, sValid <- oValid

\* The fetch is the stream of descriptors the dispatcher relies on.
StreamsInOrder == Stream!StreamSpec

-----------------------------------------------------------------------------
(* Liveness.  Memory takes and answers every request and acknowledges every  *)
(* write; nothing is asked of the dispatcher or of the units.                *)

Accepts ==
    /\ rq # NoRequest
    /\ \E answers \in Maybe(mem # <<>>), wrReady \in Maybe(wqValid), wrAck \in Maybe(issued # acked) :
           Step(Cmds, TRUE, answers, wrReady, wrAck)

Answers ==
    /\ mem # <<>>
    /\ \E rdReady \in Maybe(rq # NoRequest), wrReady \in Maybe(wqValid), wrAck \in Maybe(issued # acked) :
           Step(Cmds, rdReady, TRUE, wrReady, wrAck)

WriteGoes ==
    /\ wqValid
    /\ \E rdReady \in Maybe(rq # NoRequest), answers \in Maybe(mem # <<>>), wrAck \in Maybe(issued # acked) :
           Step(Cmds, rdReady, answers, TRUE, wrAck)

AckComes ==
    /\ issued # acked
    /\ \E rdReady \in Maybe(rq # NoRequest), answers \in Maybe(mem # <<>>), wrReady \in Maybe(wqValid) :
           Step(Cmds, rdReady, answers, wrReady, TRUE)

\* The clock, with no command of the dispatcher counted on.
Clocked == NextUnder({c \in Cmds : ~c.start /\ ~c.flush})

Fairness == WF_vars(Clocked) /\ WF_vars(Accepts) /\ WF_vars(Answers)
            /\ WF_vars(WriteGoes) /\ WF_vars(AckComes)

FairSpec == Spec /\ Fairness

\* A dispatcher that waits for a descriptor gets one, unless its run ends
\* first: neither the discard of an older run nor the fence nor the other
\* readers hold the fetch for ever.
HeadArrives == (on /\ unit = "none" /\ ~oValid) ~> (oValid \/ ~on)
=============================================================================
