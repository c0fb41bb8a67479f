------------------------------- MODULE MCHost -------------------------------
(***************************************************************************)
(* Instances of HostLoop: a prefill and a decode program of two            *)
(* descriptors, a KV region of three positions, prompts of three ids.      *)
(***************************************************************************)
EXTENDS HostLoop

HAddrs == {0, 32, 64, 96}

Blank == [NoDesc EXCEPT !.rows = Rows, !.n = 4, !.k = 4, !.sh0 = FracMin]
KvD   == [Blank EXCEPT !.op = "KVWRITE"]
HaltD == [Blank EXCEPT !.op = "HALT"]
BadD  == [Blank EXCEPT !.op = "BAD"]

Image(p) == [a \in HAddrs |-> p[(a \div 32) + 1]]

\* An image whose tokens complete, and one whose decode program faults.
HImages == {Image(<<KvD, HaltD, KvD, HaltD>>), Image(<<KvD, HaltD, KvD, BadD>>)}

HProgram == [prefill |-> [addr |-> 0, count |-> 2], decode |-> [addr |-> 64, count |-> 2]]

\* Two prompts with a common head.
HPrompts == {<<0, 1, 0>>, <<0, 0, 1>>}

Opt(l, n, st, s, ld) == [prefixLen |-> l, maxNew |-> n, step |-> st, save |-> s, load |-> ld]

\* A prefix; a longer one continued from it in single steps; a generation
\* continued from either, up to a position the region does not have.
HOptions == {Opt(1, 0, FALSE, TRUE, FALSE), Opt(2, 0, TRUE, TRUE, TRUE),
             Opt(0, 2, FALSE, TRUE, TRUE)}

HHost ==      {NoWrite}
         \cup [reg : {"CTRL"}, val : {{"START"}, {"STEP"}}]
         \cup [reg : {"STATUS"}, val : SUBSET StatusBits]
         \cup [reg : {"PC"}, val : {0, 64}]
         \cup [reg : {"TOK"}, val : Tokens] \cup [reg : {"POS"}, val : Positions]
         \cup [reg : {"ROW_EN"}, val : {{0}}]
=============================================================================
