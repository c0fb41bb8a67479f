------------------------------ MODULE LateAbort ------------------------------
(***************************************************************************)
(* The control path with a memory of the ABORTs that come too late for the *)
(* step they were meant for: the descriptor has retired, and the core is   *)
(* still busy behind the write fence of the step.                          *)
(***************************************************************************)
EXTENDS MCControl

VARIABLES
    late,     \* an ABORT was accepted after the retire of the last step
    carried   \* ... and the step now on, or just over, is the one after it

lateVars == <<vars, late, carried>>

LateInit == Init /\ late = FALSE /\ carried = FALSE

Begins == state = "IDLE" /\ (start \/ step)

LateNext ==
    /\ Next
    /\ late' = IF Begins THEN FALSE
               ELSE late \/ (abortRun /\ state = "STOP" /\ stopStep)
    /\ carried' = IF Begins THEN late ELSE carried

LateSpec == LateInit /\ [][LateNext]_lateVars

\* docs/RTL.md 3.5: an ABORT written after the stepped descriptor retires
\* "finds the step complete, so the core reports STEP_HALTED and the abort
\* takes effect at the next STEP": a step that an ABORT was carried into does
\* not run to its own STEP_HALTED.
AbortCarriesOver == carried => ~out.halted
=============================================================================
