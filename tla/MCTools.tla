------------------------------ MODULE MCTools ------------------------------
(***************************************************************************)
(* Two port widths, two edits of prompts/, two cuts of the held-out text;   *)
(* one block under the core, two Yosys builds, and a netlist that differs   *)
(* where the source is defined, where it is not, never moves, is undefined  *)
(* too long, or has a cell without a model.                                 *)
(***************************************************************************)
EXTENDS Tools

MCMaxNews == [demo |-> {1, 2}, toolcall |-> {2}, quality |-> {2}, figures |-> {2}]
MCMaxCommands == [demo |-> 4, toolcall |-> 4, quality |-> 6, figures |-> 3]
MCMaxEdits == [demo |-> 1, toolcall |-> 1, quality |-> 2, figures |-> 2]
\* One id tells nothing; of two, one calibration tells the edit of the prompt.
MCGreedy(m, p) == IF m.calib[1][1] = 1 \/ p[1] = 1 THEN <<0, EosId>> ELSE <<0, 0, EosId>>
MCVocab == {0, EosId}
\* The same on either port width.
MCPrefillCycles(image, n) == n * image.m.layers

MCCuts == {source_record("test", 1), source_record("valid", 2)}

\* Ten cycles, the first undefined in the source; the netlist differs in cycle k.
Bench(src, k) ==
    [modelled |-> TRUE, constant |-> FALSE,
     trace |-> [i \in 1 .. 10 |-> [src |-> src[i], gate |-> IF i = k \/ src[i] = Undefined THEN 1 - (i % 2) ELSE src[i]]]]
Moving == <<Undefined>> \o [i \in 1 .. 9 |-> i % 2]
MCEquivalent == Bench(Moving, 0)
Stuck == Bench([Moving EXCEPT ![2] = 0, ![4] = 0, ![6] = 0, ![8] = 0, ![10] = 0], 0)
MCBenches ==
    {MCEquivalent, Bench(Moving, 4), Bench([Moving EXCEPT ![2] = Undefined], 0), Stuck,
     [Stuck EXCEPT !.constant = TRUE], [MCEquivalent EXCEPT !.modelled = FALSE]}
=============================================================================
