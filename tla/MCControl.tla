----------------------------- MODULE MCControl -----------------------------
(***************************************************************************)
(* Instances of Control: two rows, four descriptor slots, and programs     *)
(* that reach every branch of the dispatcher.                              *)
(***************************************************************************)
EXTENDS Control

MCAddrs == {0, 8} \cup {32, 40} \cup {64, 72} \cup {96, 104}

Blank == [NoDesc EXCEPT !.rows = Rows, !.n = 4, !.k = 4, !.sh0 = FracMin]
DescOf(o) == [Blank EXCEPT !.op = o]

\* A program of four descriptors as a function of the address.
Prog(p) == [a \in MCAddrs |-> p[(a \div 32) + 1]]

Gemv    == DescOf("GEMV")
Dump    == [Gemv EXCEPT !.dump = TRUE]
Score   == [Gemv EXCEPT !.nPos = TRUE, !.n = 1]
Kv      == [DescOf("KVWRITE") EXCEPT !.rows = {1}]
Tracked == [DescOf("VQUANT") EXCEPT !.tracked = TRUE]
Softmax == [DescOf("VSOFTMAX") EXCEPT !.lenPos = TRUE, !.n = 1]
BadClass == [DescOf("VSOFTMAX") EXCEPT !.sh0 = FracMax + 1]
BadRow  == [Gemv EXCEPT !.srcRow = 1]
Empty   == [Score EXCEPT !.k = 0]
HaltD   == DescOf("HALT")

\* Free runs: writes before reads and before every kind of end.
RunPrograms == {
    Prog(<<Dump, Kv, DescOf("VRMSNORM"), HaltD>>),
    Prog(<<Kv, Score, Tracked, DescOf("BAD")>>),
    Prog(<<DescOf("EMBED"), Kv, DescOf("FENCE"), BadClass>>),
    Prog(<<Dump, BadRow, DescOf("VSILUMUL"), HaltD>>)}

RunHost == {NoWrite,
            [reg |-> "CTRL", val |-> {"START"}],
            [reg |-> "CTRL", val |-> {"ABORT"}],
            [reg |-> "PC", val |-> 0],
            [reg |-> "PC", val |-> 8],
            [reg |-> "ROW_EN", val |-> {0, 1}],
            [reg |-> "ROW_EN", val |-> {0}]}

\* Single steps, with bounds events and zero work, and STATUS written back.
StepPrograms == {
    Prog(<<Dump, Score, HaltD, DescOf("NOP")>>),
    Prog(<<Kv, Empty, Softmax, DescOf("BAD")>>)}

StepHost == {NoWrite,
             [reg |-> "CTRL", val |-> {"STEP"}],
             [reg |-> "CTRL", val |-> {"START", "STEP"}],
             [reg |-> "CTRL", val |-> {"ABORT"}],
             [reg |-> "PC", val |-> 64],
             [reg |-> "ROW_EN", val |-> {0, 1}],
             [reg |-> "POS", val |-> 1],
             [reg |-> "STATUS", val |-> {"ERR"}],
             [reg |-> "STATUS", val |-> {"DONE", "STEP_HALTED"}]}

\* A write and then steps, with ABORTs in between.
LatePrograms == {Prog(<<Kv, DescOf("NOP"), DescOf("NOP"), HaltD>>)}

LateHost == {NoWrite,
             [reg |-> "CTRL", val |-> {"STEP"}],
             [reg |-> "CTRL", val |-> {"ABORT"}],
             [reg |-> "ROW_EN", val |-> {0, 1}]}

\* Liveness: two slots, a program that halts and one that runs round for ever.
LiveAddrs == {0, 32}
LiveProg(p) == [a \in LiveAddrs |-> p[(a \div 32) + 1]]

LivePrograms == {LiveProg(<<Dump, HaltD>>),
                 LiveProg(<<DescOf("KVWRITE"), DescOf("VROPE")>>)}

LiveHost == {NoWrite,
             [reg |-> "CTRL", val |-> {"START"}],
             [reg |-> "CTRL", val |-> {"ABORT"}],
             [reg |-> "ROW_EN", val |-> Rows]}

\* Each set of programs under the host writes chosen for it.
MCPrograms == RunPrograms \cup StepPrograms
MCHostOps == RunHost \cup StepHost

MCNext == \/ code \in RunPrograms /\ NextUnder(RunHost)
          \/ code \in StepPrograms /\ NextUnder(StepHost)

MCSpec == Init /\ [][MCNext]_vars
=============================================================================
