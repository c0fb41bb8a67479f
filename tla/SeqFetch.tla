------------------------------ MODULE SeqFetch ------------------------------
(***************************************************************************)
(* qcore_seq_fetch: the descriptor prefetch.  Requests of GB bytes run     *)
(* ahead of the dispatcher into reserved queue space; a restart or a flush *)
(* drops the queue and lets the beats of requests still in flight go by.   *)
(* A beat is the address it was read at; a group, what one request         *)
(* returns, is the sequence of its beats.                                  *)
(***************************************************************************)
EXTENDS Naturals, Sequences

CONSTANTS
    WB,        \* bytes of a QMEM beat
    DescB,     \* bytes of a descriptor, 32 in qcore_pkg
    DqDepth,   \* descriptors the queue holds
    ByteMod    \* the byte addresses wrap, at 2^32 in the core

GB  == IF WB > DescB THEN WB ELSE DescB   \* bytes of a request
BPR == GB \div WB                         \* beats of a request
DPR == GB \div DescB                      \* descriptors of a request
GD  == IF DqDepth \div DPR > 2 THEN DqDepth \div DPR ELSE 2   \* groups queued

ASSUME SeqFetchAssumption ==
    /\ WB \in Nat \ {0} /\ DescB \in Nat \ {0} /\ DqDepth \in Nat \ {0}
    /\ GB % WB = 0 /\ GB % DescB = 0
    /\ ByteMod \in Nat \ {0} /\ ByteMod % GB = 0

Bytes  == 0 .. (ByteMod - 1)

VARIABLES
    fReqValid, fReqAddr,    \* the request presented to the arbiter
    reqAddr, reqEn, stale,  \* the next request, wanted, answers to discard
    outBeats, bursts,       \* beats and bursts granted and not returned
    hist,                   \* the beats of the group being assembled
    gmem,                   \* the groups queued; g_cnt is its length
    oValid, oGrp, oLane,    \* the output register and the lane of the head
    dcount,                 \* dq_count: descriptors queued
    skip, skipW, skipR      \* descriptors before fetch_pc in the first group

fetchVars == <<fReqValid, fReqAddr, reqAddr, reqEn, stale, outBeats, bursts, hist,
               gmem, oValid, oGrp, oLane, dcount, skip, skipW, skipR>>

FetchInit ==
    /\ fReqValid = FALSE /\ fReqAddr = 0 /\ reqAddr = 0
    /\ reqEn = FALSE /\ stale = FALSE /\ outBeats = 0 /\ bursts = 0
    /\ hist = <<>> /\ gmem = <<>>
    /\ oValid = FALSE /\ oGrp = [i \in 1 .. BPR |-> 0] /\ oLane = 0
    /\ dcount = 0 /\ skip = 0 /\ skipW = FALSE /\ skipR = FALSE

-----------------------------------------------------------------------------
(* cmd is what the dispatcher asks at this edge: [start, flush, pc, step];   *)
(* fd the beat of this edge: [valid, addr, last].                            *)

One(b) == IF b THEN 1 ELSE 0

GUsed     == Len(gmem) + One(oValid) + bursts + One(fReqValid)
BurstRoom == bursts + One(fReqValid) < 2

\* Fault: the request presented to the arbiter is not counted.
RoomForgetsRequest == Len(gmem) + One(oValid) + bursts < GD

Room == GUsed < GD

ReqSlot(reqReady) == ~fReqValid \/ reqReady
Grant(reqReady)   == fReqValid /\ reqReady

\* Fault: requests leave whether or not the writes are acknowledged.
LoadReqNoHold(cmd, hold, reqReady) ==
    /\ ReqSlot(reqReady) /\ reqEn /\ ~stale /\ Room /\ BurstRoom
    /\ ~cmd.flush /\ ~cmd.start

LoadReq(cmd, hold, reqReady) ==
    /\ ReqSlot(reqReady) /\ reqEn /\ ~stale /\ Room /\ BurstRoom
    /\ ~hold /\ ~cmd.flush /\ ~cmd.start

RequestTick(cmd, hold, reqReady) ==
    LET load == LoadReq(cmd, hold, reqReady) IN
    /\ fReqValid' = (load \/ (fReqValid /\ ~reqReady))
    /\ fReqAddr'  = IF load THEN reqAddr ELSE fReqAddr
    /\ reqAddr'   = IF cmd.start THEN cmd.pc - (cmd.pc % GB)
                    ELSE IF load THEN (reqAddr + GB) % ByteMod ELSE reqAddr
    /\ reqEn'     = (cmd.start \/ (reqEn /\ ~cmd.flush /\ ~(load /\ cmd.step)))

-----------------------------------------------------------------------------
TakeBeat(cmd, fd) == fd.valid /\ ~stale /\ ~cmd.flush /\ ~cmd.start

\* Fault: a burst is counted as one beat.
OutNextOneBeat(reqReady, fd) ==
    outBeats + One(Grant(reqReady)) - One(fd.valid /\ outBeats > 0)

OutNext(reqReady, fd) ==
    outBeats + (IF Grant(reqReady) THEN BPR ELSE 0) - One(fd.valid)

\* Fault: the discard ends with a beat, and there may be none to come.
StaleTickAwaitsBeat(cmd, hold, reqReady, fd) ==
    stale' = /\ cmd.flush \/ cmd.start \/ stale
             /\ OutNext(reqReady, fd) # 0 \/ ~fd.valid

\* Fault: the discard ends with the beats granted so far.
StaleTickForgetsRequest(cmd, hold, reqReady, fd) ==
    stale' = ((cmd.flush \/ cmd.start \/ stale) /\ OutNext(reqReady, fd) # 0)

StaleTick(cmd, hold, reqReady, fd) ==
    stale' = /\ cmd.flush \/ cmd.start \/ stale
             /\ \/ OutNext(reqReady, fd) # 0
                \/ LoadReq(cmd, hold, reqReady)
                \/ fReqValid /\ ~reqReady

ReturnTick(cmd, hold, reqReady, fd) ==
    /\ outBeats' = OutNext(reqReady, fd)
    /\ bursts'   = bursts + One(Grant(reqReady)) - One(fd.valid /\ fd.last)
    /\ StaleTick(cmd, hold, reqReady, fd)

GrpFull(cmd, fd) == TakeBeat(cmd, fd) /\ Len(hist) = BPR - 1

\* Fault: a flush leaves the beats of a half-assembled group behind.
AssembleTickKeepsHalf(cmd, fd) ==
    hist' = IF ~TakeBeat(cmd, fd) THEN hist
            ELSE IF GrpFull(cmd, fd) THEN <<>> ELSE Append(hist, fd.addr)

AssembleTick(cmd, fd) ==
    hist' = IF cmd.flush \/ cmd.start THEN <<>>
            ELSE IF ~TakeBeat(cmd, fd) THEN hist
            ELSE IF GrpFull(cmd, fd) THEN <<>> ELSE Append(hist, fd.addr)

-----------------------------------------------------------------------------
DqPop(ready) == oValid /\ ready
GPop(ready)  == DqPop(ready) /\ oLane = DPR - 1
GRd(ready)   == gmem # <<>> /\ (~oValid \/ GPop(ready))

\* Descriptors a full group adds.
AddN == DPR - (IF skipW THEN skip ELSE 0)

\* Fault: a restart keeps the skip of the reader cleared.
SkipTickWriterOnly(cmd, fd, ready) ==
    /\ skip'  = IF cmd.start THEN (cmd.pc \div DescB) % DPR ELSE skip
    /\ skipW' = (cmd.start \/ (skipW /\ ~GrpFull(cmd, fd)))
    /\ skipR' = (skipR /\ ~GRd(ready))

SkipTick(cmd, fd, ready) ==
    /\ skip'  = IF cmd.start THEN (cmd.pc \div DescB) % DPR ELSE skip
    /\ skipW' = (cmd.start \/ (skipW /\ ~GrpFull(cmd, fd)))
    /\ skipR' = (cmd.start \/ (skipR /\ ~GRd(ready)))

QueueTick(cmd, fd, ready) ==
    IF cmd.flush \/ cmd.start
    THEN /\ gmem' = <<>> /\ oValid' = FALSE /\ oLane' = 0 /\ dcount' = 0
         /\ oGrp' = IF GRd(ready) THEN Head(gmem) ELSE oGrp
    ELSE LET rest == IF GRd(ready) THEN Tail(gmem) ELSE gmem IN
         /\ gmem' = IF GrpFull(cmd, fd) THEN Append(rest, Append(hist, fd.addr)) ELSE rest
         /\ oGrp' = IF GRd(ready) THEN Head(gmem) ELSE oGrp
         /\ oValid' = (GRd(ready) \/ (oValid /\ ~GPop(ready)))
         /\ oLane' = IF GRd(ready) THEN IF skipR THEN skip ELSE 0
                     ELSE IF DqPop(ready) /\ ~GPop(ready) THEN oLane + 1 ELSE oLane
         /\ dcount' = dcount + (IF GrpFull(cmd, fd) THEN AddN ELSE 0) - One(DqPop(ready))

FetchTick(cmd, hold, reqReady, fd, ready) ==
    /\ RequestTick(cmd, hold, reqReady)
    /\ ReturnTick(cmd, hold, reqReady, fd)
    /\ AssembleTick(cmd, fd)
    /\ SkipTick(cmd, fd, ready)
    /\ QueueTick(cmd, fd, ready)
=============================================================================
