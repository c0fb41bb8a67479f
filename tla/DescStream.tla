----------------------------- MODULE DescStream -----------------------------
(***************************************************************************)
(* What the dispatcher relies on in the descriptor fetch: after a restart  *)
(* the queue head is the descriptor at fetch_pc, then at the address after *)
(* it, and so on, until a flush empties it.  When a head appears is not    *)
(* promised.                                                               *)
(***************************************************************************)
EXTENDS Naturals

CONSTANTS StreamAddrs, StreamMod, StreamStep

VARIABLES
    sOn,      \* restarted since the last flush
    sNext,    \* address of the head, or of the next one to appear
    sValid    \* dq_valid

streamVars == <<sOn, sNext, sValid>>

StreamTypeOK == sOn \in BOOLEAN /\ sNext \in StreamAddrs /\ sValid \in BOOLEAN

StreamInit == sOn = FALSE /\ sNext = 0 /\ sValid = FALSE

\* One edge: a restart at a, a flush, or delivery.  "ready" pops the head;
\* "appears" is whether a head is there afterwards.
Restart(a) == sOn' = TRUE /\ sNext' = a /\ sValid' = FALSE
Flush      == sOn' = FALSE /\ sValid' = FALSE /\ UNCHANGED sNext

Deliver(ready, appears) ==
    /\ sNext' = IF sValid /\ ready THEN (sNext + StreamStep) % StreamMod ELSE sNext
    /\ appears => sOn
    /\ sValid' = ((sValid /\ ~ready) \/ appears)
    /\ UNCHANGED sOn

StreamTick(fstart, flush, a, ready, appears) ==
    \/ fstart /\ Restart(a)
    \/ ~fstart /\ flush /\ Flush
    \/ ~fstart /\ ~flush /\ Deliver(ready, appears)

StreamNext ==
    \/ \E a \in StreamAddrs : Restart(a)
    \/ Flush
    \/ \E ready, appears \in BOOLEAN : Deliver(ready, appears)

StreamSpec == StreamInit /\ [][StreamNext]_streamVars
=============================================================================
