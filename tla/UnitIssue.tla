------------------------------ MODULE UnitIssue ------------------------------
(***************************************************************************)
(* What the dispatcher hands the units at the issue pulse of a descriptor:  *)
(* the decoded bundle cmd, which holds until the descriptor retires.  The   *)
(* descriptors and their arithmetic are those of module Isa.                *)
(***************************************************************************)
EXTENDS Isa

CONSTANTS
    WB,            \* parameter WB: lanes of a MAC row, bytes of a beat
    BMax,          \* parameter B_MAX: activation rows, each with a VSRAM and SREG bank
    VsramWords,    \* parameter VSRAM_WORDS
    NBits, KBits   \* widths cmd_n and cmd_k are cut to, 24 and 16

ASSUME UnitIssueAssumption ==
    /\ WB \in Nat \ {0} /\ WB % 4 = 0 /\ WB % MetaBytes = 0 /\ WB % WordElems = 0
    /\ BMax \in Nat \ {0} /\ VsramWords \in Nat \ {0}
    /\ NBits \in Nat \ {0} /\ KBits \in Nat \ {0} /\ 2 ^ KBits \in Nat \ {0}

VARIABLE cmd

Rows == 0 .. BMax - 1
VsramElems == VsramWords * WordElems

Min2(x, y) == IF x < y THEN x ELSE y
\* act_i16 of one element.
act16(x) == ((x + 32768) % 65536) - 32768

One01(b) == IF b THEN 1 ELSE 0

\* A register that holds one thing or nothing.
Nothing == <<>>
Holding(x) == <<x>>

-----------------------------------------------------------------------------
(* Extents derived from POS, at the widths of the bundle *)

NOver(d, pos) == d.op = "GEMV" /\ d.n_from_pos /\ pos + 1 > d.n
KOver(d, pos) == d.op = "GEMV" /\ d.k_from_pos /\ pos + 1 > d.k

NDec(d, pos) ==
    LET want == IF NOver(d, pos) THEN d.n ELSE (pos + 1) % 2 ^ NBits
    IN CASE d.op = "EMBED" -> d.k
         [] d.op = "GEMV" /\ d.n_from_pos -> Min2(RoundUp(want, WB), d.n)
         [] OTHER -> d.n

KDec(d, pos) ==
    IF d.op = "GEMV" /\ d.k_from_pos /\ ~KOver(d, pos) THEN (pos + 1) % 2 ^ KBits ELSE d.k

RowsOf(d) == d.row_mask \cap Rows

\* Retired without an issue pulse.
ZeroWork(d, pos) ==
    \/ RowsOf(d) = {}
    \/ d.op \in {"GEMV", "EMBED"} /\ (NDec(d, pos) = 0 \/ KDec(d, pos) = 0)

\* err_bounds_inc of the decode: an event a participating row.
DecodeErrors(d, pos) == Cardinality(RowsOf(d)) * (One01(NOver(d, pos)) + One01(KOver(d, pos)))

\* The bundle: the descriptor under what the decode derives; sx is
\* SREG[src_row + r][sreg_src] of each participating row, as read.
Bundle(d, pos, tok, sregs) ==
    LET derived == [n |-> NDec(d, pos), k |-> KDec(d, pos), k_stride |-> d.k, rows |-> RowsOf(d),
                    pos |-> pos, tok |-> tok,
                    sx |-> [r \in Rows |->
                              IF d.op = "EMBED" \/ r \notin RowsOf(d) THEN One
                              ELSE sregs[d.src_row + r][d.sreg_src].v]]
    IN [f \in DOMAIN d \cup DOMAIN derived |-> IF f \in DOMAIN derived THEN derived[f] ELSE d[f]]

IsEmbed == cmd.op = "EMBED"
=============================================================================
