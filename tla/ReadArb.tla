------------------------------ MODULE ReadArb ------------------------------
(***************************************************************************)
(* The read half of qcore_mem_arb: the weight stream over the vector unit  *)
(* over the descriptor fetch, through one registered request stage, with a *)
(* slot kept for the fetch when its queue runs low under a long stream.    *)
(***************************************************************************)
EXTENDS Naturals

CONSTANTS
    MaxBurst,   \* parameter MAX_BURST
    LowMark,    \* descriptors below which the fetch is owed a slot, 4
    BeatCap,    \* s_beats counts no further from here on, 255 * 2^8
    BeatMod     \* s_beats wraps, at 2^16

ASSUME ReadArbAssumption ==
    /\ MaxBurst \in Nat /\ LowMark \in Nat
    /\ BeatCap \in Nat /\ BeatMod \in Nat /\ MaxBurst <= BeatCap /\ BeatCap < BeatMod

VARIABLES
    rq,       \* the request stage: a request, or NoRequest
    sBeats    \* stream beats granted since the last fetch grant, saturating

arbVars == <<rq, sBeats>>

NoRequest == [tag |-> "none", addr |-> 0]

-----------------------------------------------------------------------------
(* req is what the requesters present at this edge: [s, v, f, sLen, fAddr,   *)
(* dqCount]; rdReady, memory's ready for the request in the stage.           *)

StageFree(rdReady) == rq = NoRequest \/ rdReady

\* Fault: the slot is kept only for an empty queue.
FReservedWhenEmpty(req) == req.f /\ sBeats >= MaxBurst /\ req.dqCount = 0

FReserved(req) == req.f /\ sBeats >= MaxBurst /\ req.dqCount < LowMark

TakeS(req, rdReady) == req.s /\ StageFree(rdReady) /\ ~FReserved(req)
TakeV(req, rdReady) == req.v /\ StageFree(rdReady) /\ ~FReserved(req) /\ ~req.s

FReady(req, rdReady) == StageFree(rdReady) /\ (FReserved(req) \/ (~req.s /\ ~req.v))
TakeF(req, rdReady)  == req.f /\ FReady(req, rdReady)

ArbInit == rq = NoRequest /\ sBeats = 0

\* Fault: the count wraps.
SBeatsTickWraps(req, rdReady) ==
    sBeats' = IF TakeF(req, rdReady) THEN 0
              ELSE IF TakeS(req, rdReady) THEN (sBeats + req.sLen) % BeatMod
              ELSE sBeats

SBeatsTick(req, rdReady) ==
    sBeats' = IF TakeF(req, rdReady) THEN 0
              ELSE IF TakeS(req, rdReady) /\ sBeats < BeatCap
                   THEN (sBeats + req.sLen) % BeatMod
              ELSE sBeats

ArbTick(req, rdReady) ==
    /\ rq' = IF ~StageFree(rdReady) THEN rq
             ELSE IF TakeS(req, rdReady) THEN [tag |-> "s", addr |-> 0]
             ELSE IF TakeV(req, rdReady) THEN [tag |-> "v", addr |-> 0]
             ELSE IF TakeF(req, rdReady) THEN [tag |-> "f", addr |-> req.fAddr]
             ELSE NoRequest
    /\ SBeatsTick(req, rdReady)
=============================================================================
