----------------------------- MODULE WritePath -----------------------------
(***************************************************************************)
(* The write half of qcore_mem_arb: the KV writer over the dump path       *)
(* through one registered stage, and the counters wr_idle is formed from.  *)
(* The payload of a write is data no property tells apart.                 *)
(***************************************************************************)
EXTENDS Naturals

CONSTANT WrMod     \* the issued and acked counters wrap, at 2^32 in the core

ASSUME WritePathAssumption == WrMod \in Nat \ {0, 1}

VARIABLES
    kValid,        \* k_wr_valid: the KV writer presents a write
    dValid,        \* d_wr_valid: the dump path presents a write
    wqValid,       \* the registered stage holds a write
    issued, acked  \* writes memory took, writes memory acknowledged

writeVars == <<wqValid, issued, acked>>

WriteTypeOK ==
    /\ kValid \in BOOLEAN /\ dValid \in BOOLEAN /\ wqValid \in BOOLEAN
    /\ issued \in 0 .. (WrMod - 1) /\ acked \in 0 .. (WrMod - 1)

WriteInit ==
    /\ kValid = FALSE /\ dValid = FALSE
    /\ wqValid = FALSE /\ issued = 0 /\ acked = 0

-----------------------------------------------------------------------------
WStageFree(wrReady) == ~wqValid \/ wrReady

TakeK(wrReady) == kValid /\ WStageFree(wrReady)
TakeD(wrReady) == dValid /\ WStageFree(wrReady) /\ ~kValid

\* Fault: idle formed from the stage and the counters alone.
WrIdleFromStage == ~wqValid /\ issued = acked

\* No write is presented, held or unacknowledged.
WrIdle == ~wqValid /\ ~kValid /\ ~dValid /\ issued = acked

\* Writes memory has taken and not acknowledged, modulo the counters.
Unacked == (issued + WrMod - acked) % WrMod

\* One edge: memory may be ready for the write in the stage, and may
\* acknowledge an earlier one.
WriteTick(wrReady, wrAck) ==
    /\ wqValid' = IF WStageFree(wrReady) THEN TakeK(wrReady) \/ TakeD(wrReady)
                                         ELSE wqValid
    /\ issued' = IF wqValid /\ wrReady THEN (issued + 1) % WrMod ELSE issued
    /\ acked'  = IF wrAck THEN (acked + 1) % WrMod ELSE acked
=============================================================================
