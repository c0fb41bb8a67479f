------------------------------ MODULE MCChecks ------------------------------
(***************************************************************************)
(* Two widths whose tile boundaries differ over the same context, and one   *)
(* place of every kind a comparison reads.                                  *)
(***************************************************************************)
EXTENDS Checks

MCStruck == {Reg("PC"), Reg("ARGMAX_TOK"), Reg("SAT_VPU"), Reg("MACS"),
             Vsram(1), Vsram(Scratch), Sreg(1), Dump(1), Kv(1)}
MCPrompt == <<1, 0>>
=============================================================================
