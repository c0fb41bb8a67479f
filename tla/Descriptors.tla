---------------------------- MODULE Descriptors ----------------------------
(***************************************************************************)
(* The combinational decode of qcore_seq_dispatch: what one descriptor     *)
(* means to the control loop.  A descriptor is a record of the fields the  *)
(* loop branches on; addresses, VSRAM indices and scale fields are data    *)
(* that pass through to the units and are not here.                        *)
(***************************************************************************)
EXTENDS Integers, FiniteSets

CONSTANTS
    BMax,      \* rows built into the core (parameter B_MAX)
    WB,        \* bytes of a QMEM beat (parameter WB): the tile width
    NBits,     \* width of the n field of a descriptor, 24 in qcore_pkg
    KBits,     \* width of the k field, 16 in qcore_pkg
    FracMin,   \* SM_FRAC_MIN and SM_FRAC_MAX, the VSOFTMAX class window
    FracMax

ASSUME DescriptorsAssumption ==
    /\ BMax \in Nat \ {0}
    /\ WB \in Nat \ {0}
    /\ NBits \in Nat
    /\ KBits \in Nat
    /\ FracMin \in Nat /\ FracMax \in Nat

Rows == 0 .. (BMax - 1)

VpuOps   == {"VRMSNORM", "VQUANT", "VROPE", "VSILUMUL", "VSOFTMAX", "VSUBC"}
GemvOps  == {"GEMV", "EMBED"}
KnownOps == {"NOP", "HALT", "FENCE", "KVWRITE"} \cup GemvOps \cup VpuOps

\* "BAD" stands for every opcode byte that is none of the twelve.
Desc == [op : KnownOps \cup {"BAD"},
         rows : SUBSET Rows, srcRow : Nat, dstRow : Nat,
         n : Nat, k : Nat, imm : Nat, sh0 : Nat,
         nPos : BOOLEAN, kPos : BOOLEAN, lenPos : BOOLEAN,
         tracked : BOOLEAN, group : BOOLEAN, dump : BOOLEAN]

-----------------------------------------------------------------------------
(* Opcode classes *)

UsesRows(d) == d.op \notin {"NOP", "HALT", "FENCE"}

\* Fault: the fence forgotten for the vector operations that stream operands.
NeedsFenceGemvOnly(d) == d.op \in GemvOps \cup {"FENCE", "HALT"}

\* The opcodes that wait for the auto-fence: they read QMEM, or are a fence.
NeedsFence(d) ==
    d.op \in GemvOps \cup {"FENCE", "HALT", "VRMSNORM", "VROPE", "VSOFTMAX", "VSUBC"}

\* The opcodes that read one SREG scale per participating row.
NeedsSreg(d) ==
    \/ d.op \in {"GEMV", "KVWRITE"}
    \/ d.op = "VQUANT" /\ d.tracked /\ ~d.group

ClassBad(d) == d.op = "VSOFTMAX" /\ (d.sh0 < FracMin \/ d.sh0 > FracMax)

-----------------------------------------------------------------------------
(* Rows *)

\* rows_c: the participating rows of d under the register ROW_EN.
RowsC(d, rowEn) == d.rows \cap rowEn

RowFault(d, rowEn) ==
    \E r \in RowsC(d, rowEn) : d.srcRow + r >= BMax \/ d.dstRow + r >= BMax

\* The decode faults, in the order the decode tests them; "NONE" if there is
\* none.
Fault(d, rowEn) ==
    IF d.op \notin KnownOps THEN "OPCODE"
    ELSE IF UsesRows(d) /\ RowFault(d, rowEn) THEN "ROW"
    ELSE IF ClassBad(d) THEN "CLASS" ELSE "NONE"

-----------------------------------------------------------------------------
(* POS-derived extents, at the widths of the RTL *)

PosP1(p) == p + 1

NOver(d, p) == d.op = "GEMV" /\ d.nPos /\ PosP1(p) > d.n
KOver(d, p) == d.op = "GEMV" /\ d.kPos /\ PosP1(p) > d.k

RoundUp(x) == ((x + WB - 1) \div WB) * WB

WantN(d, p) == IF NOver(d, p) THEN d.n ELSE PosP1(p) % 2^NBits
NPos(d, p)  == IF RoundUp(WantN(d, p)) > d.n THEN d.n ELSE RoundUp(WantN(d, p))
KPos(d, p)  == IF KOver(d, p) THEN d.k ELSE PosP1(p) % 2^KBits

NDec(d, p) ==
    IF d.op = "EMBED" THEN d.k
    ELSE IF d.op = "GEMV" /\ d.nPos THEN NPos(d, p) ELSE d.n

KDec(d, p) == IF d.op = "GEMV" /\ d.kPos THEN KPos(d, p) ELSE d.k

LenWant(d, p) == IF d.lenPos THEN PosP1(p) ELSE d.imm
LenErr(d, p)  == d.op = "VSOFTMAX" /\ (LenWant(d, p) > d.n \/ LenWant(d, p) < 1)
LenDec(d, p)  ==
    IF LenWant(d, p) > d.n THEN d.n
    ELSE IF LenWant(d, p) < 1 THEN 1 ELSE LenWant(d, p)

-----------------------------------------------------------------------------
(* Work *)

\* A descriptor with nothing to do retires from the decode state.
ZeroWork(d, rowEn, p) ==
    /\ UsesRows(d)
    /\ \/ RowsC(d, rowEn) = {}
       \/ d.op \in GemvOps /\ (NDec(d, p) = 0 \/ KDec(d, p) = 0)
       \/ d.op \in VpuOps /\ d.n = 0

\* errb_c: the ERR_BOUNDS events of d, one set per participating row.
BoundsErrors(d, rowEn, p) ==
    Cardinality(RowsC(d, rowEn)) *
        ((IF NOver(d, p) THEN 1 ELSE 0) + (IF KOver(d, p) THEN 1 ELSE 0)
            + (IF LenErr(d, p) THEN 1 ELSE 0))
=============================================================================
