-------------------------------- MODULE Isa --------------------------------
(***************************************************************************)
(* The descriptor ISA as sw/quettos/isa.py builds it.  A descriptor is a   *)
(* record of its fields; the shift pair (sh0, sh1) is named by the class   *)
(* of numbers it converts (field sh), the scale immediates by what they    *)
(* hold (field par), and a row mask is the set of its rows.  Sizes that    *)
(* are bytes in the source are address units here: constants.              *)
(***************************************************************************)
EXTENDS Integers, Sequences, FiniteSets, TLC

CONSTANTS
    HeadDim,        \* HEAD_DIM
    WordElems,      \* VSRAM_WORD_ELEMS: elements of a VSRAM word
    SregCount,      \* SREG_COUNT: scale registers of a row
    MetaBytes,      \* META_BYTES: a per-channel or per-token record
    RopeRowBytes,   \* ROPE_ROW_BYTES: one row of the RoPE table
    DescBytes,      \* DESC_BYTES
    DumpAlign       \* DUMP_ALIGN: a DUMP address is a whole beat

ASSUME IsaAssumption ==
    /\ HeadDim \in Nat \ {0} /\ WordElems \in Nat \ {0}
    /\ SregCount \in Nat \ {0}
    /\ MetaBytes \in Nat \ {0} /\ RopeRowBytes \in Nat \ {0}
    /\ DescBytes \in Nat \ {0} /\ DumpAlign \in Nat \ {0}

Default ==
    [op |-> "NOP", flags |-> {}, row_mask |-> {0}, accumulate |-> FALSE,
     unit_meta |-> FALSE, n_from_pos |-> FALSE, k_from_pos |-> FALSE,
     out_mode |-> "VSRAM", len_from_pos |-> FALSE, track_absmax |-> FALSE,
     addr_a |-> 0, addr_m |-> 0, n |-> 0, k |-> 0,
     vs_src |-> 0, vs_dst |-> 0, vs_aux |-> 0, sreg_src |-> 0, sreg_dst |-> 0,
     src_row |-> 0, dst_row |-> 0, sh |-> "none", par |-> "none", imm |-> 0]

KnownOps == {"NOP", "HALT", "GEMV", "EMBED", "VRMSNORM", "VQUANT", "VROPE",
             "VSILUMUL", "VSOFTMAX", "VSUBC", "KVWRITE", "FENCE"}

\* is_opcode: "BAD" stands for a byte that is none of the twelve.
IsOpcode(op) == op \in KnownOps

\* class_fault: only VSOFTMAX has a class window; class "bad" lies outside it.
ClassFault(d) == d.op = "VSOFTMAX" /\ d.sh = "bad"

\* F of v, with v computed once: the value of a local variable of the source.
With(v, F(_)) == CHOOSE r \in {F(x) : x \in {v}} : TRUE

\* The left fold and the concatenation of sequences.
Fold(op(_, _), base, s) ==
    LET acc[i \in 0 .. Len(s)] ==
          IF i = 0 THEN base ELSE With(acc[i - 1], LAMBDA a : op(a, s[i]))
    IN acc[Len(s)]

Concat(vs) == Fold(LAMBDA a, v : a \o v, <<>>, vs)

\* A sequence given as a function on 1 .. n.
Seqn(f) == f \o <<>>

CeilDiv(x, y) == (x + y - 1) \div y
RoundUp(x, a) == CeilDiv(x, a) * a

-----------------------------------------------------------------------------
(* What a helper refuses to build *)

SregOk(d) == d.sreg_src < SregCount /\ d.sreg_dst < SregCount

Dumps(d) == d.out_mode \in {"ARGMAX_DUMP", "VSRAM_DUMP"}

DumpOk(d) == IF Dumps(d) THEN d.imm # 0 /\ d.imm % DumpAlign = 0 ELSE d.imm = 0

\* vquant_scales: the registers a VQUANT writes, a short last group included.
VquantScales(d) ==
    IF d.op # "VQUANT" THEN 0
    ELSE IF "GROUP" \in d.flags /\ d.vs_aux # 0 THEN CeilDiv(d.n, d.vs_aux) ELSE 1

Buildable(d) ==
    CASE d.op \in {"GEMV", "EMBED"} -> SregOk(d) /\ DumpOk(d)
      [] d.op \in {"VRMSNORM", "VSILUMUL"} -> d.sreg_dst < SregCount
      [] d.op = "VQUANT" ->
            /\ SregOk(d)
            /\ "GROUP" \in d.flags => d.n % d.vs_aux = 0
            /\ d.sreg_dst + VquantScales(d) <= SregCount
      [] d.op = "VROPE" -> d.n > 0 /\ d.n % HeadDim = 0
      [] d.op = "VSOFTMAX" -> d.sreg_dst < SregCount /\ (d.len_from_pos \/ d.imm \in 1 .. d.n)
      [] d.op = "KVWRITE" -> d.n = HeadDim /\ d.k >= 1 /\ d.sreg_src < SregCount
      [] OTHER -> TRUE

-----------------------------------------------------------------------------
(* The helpers of the opcodes: the fields a caller names, over the defaults *)

gemv(f)  == f @@ [op |-> "GEMV"] @@ Default
embed(f) == f @@ [op |-> "EMBED", n |-> f.k] @@ Default

vrmsnorm(f) == f @@ [op |-> "VRMSNORM", track_absmax |-> TRUE] @@ Default

\* group > 0 makes the group form, vs_aux its length.
vquant(f, width, tracked, group) ==
    f @@ [op |-> "VQUANT", vs_aux |-> group,
          flags |-> {w \in {"W8"} : width = 8} \cup {t \in {"USE_TRACKED"} : tracked}
                    \cup {g \in {"GROUP"} : group > 0}]
      @@ Default

vrope(f)    == f @@ [op |-> "VROPE"] @@ Default
vsilumul(f) == f @@ [op |-> "VSILUMUL", track_absmax |-> TRUE] @@ Default

\* The immediate length is 0 exactly when len comes from POS.
vsoftmax(f) == f @@ [op |-> "VSOFTMAX", len_from_pos |-> TRUE] @@ Default

vsubc(f) == f @@ [op |-> "VSUBC"] @@ Default

\* k is the token capacity of the region.
kvwrite(f, transposed, max_ctx) ==
    f @@ [op |-> "KVWRITE", n |-> HeadDim, k |-> max_ctx,
          flags |-> IF transposed THEN {"TRANSPOSED"} ELSE {}]
      @@ Default

halt == [Default EXCEPT !.op = "HALT"]

-----------------------------------------------------------------------------
(* The primitives of sw/quettos/numerics.py as the programs use them: which *)
(* operand goes where.  The sums, maxima and narrowings are the real ones;  *)
(* a rounding formula is a mixing function of its operands, so a result     *)
(* computed from any other operand, index or scale differs.  Module         *)
(* Numerics has the formulas themselves.  A vector is a sequence, a scale   *)
(* and a meta record are numbers: meta = 8 * scale + bias.                  *)

Prime == 32749

Mix(s) ==
    LET h[i \in 0 .. Len(s)] ==
          IF i = 0 THEN 7 ELSE (h[i - 1] * 30011 + (s[i] % Prime) + i) % Prime
    IN h[Len(s)]

\* A 32-bit element: wider than the 16 bits a GEMV takes of it.
Wide(h) == 3 * (h - 16384)
Narrow(h, w) == IF w = 8 THEN ((h % 256) - 128) ELSE h - 16384
ScaleOf(h) == 1 + (h % 4000)

ClassNo == [none |-> 0, embed |-> 1, qkv |-> 2, scores |-> 3, pv |-> 4, o |-> 5, gu |-> 6,
            down |-> 7, lm_head |-> 8, X |-> 9, QKV |-> 10, S |-> 11, CTX |-> 12, GU |-> 13,
            H |-> 14, bad |-> 15, input |-> 16, post |-> 17, final |-> 18, log2e_over_8 |-> 19]

Weight(atom, names) == ((Mix(<<names[atom[1]], atom[2], atom[3], atom[4]>>) % 256)) - 128

MetaScale(meta) == meta \div 8
MetaBias(meta)  == meta % 8
One == 1                                   \* SFLOAT_ONE

Abs(x) == IF x < 0 THEN -x ELSE x
MaxOf(v) == CHOOSE x \in {v[i] : i \in DOMAIN v} : \A i \in DOMAIN v : v[i] <= x
absmax(v) == MaxOf([i \in DOMAIN v |-> Abs(v[i])])

\* argmax: the lowest index of the maximum, counted from 0.
argmax(v) == (CHOOSE i \in DOMAIN v : v[i] = MaxOf(v) /\ \A j \in 1 .. i - 1 : v[j] < v[i]) - 1

Dot(a, w) ==
    LET sum[i \in 0 .. Len(a)] == IF i = 0 THEN 0 ELSE sum[i - 1] + a[i] * w[i]
    IN sum[Len(a)]

\* requant: accumulator, channel scale and bias, input scale; then the old value.
requant(cls, acc, meta, sx, old) ==
    Wide(Mix(<<ClassNo[cls], acc, MetaScale(meta), MetaBias(meta), sx>>)) + old

rmsnorm(x, gamma, par, cls) ==
    LET r == Mix(<<ClassNo[par], ClassNo[cls]>> \o x)
    IN Seqn([i \in DOMAIN x |-> Wide(Mix(<<x[i], gamma[i], r>>))])

\* quant: the values and the scale of one vector, whose absmax is amax.
quant(x, width, cls, mul, amax) ==
    [q |-> Seqn([i \in DOMAIN x |-> Narrow(Mix(<<x[i], amax>>), width)]),
     scale |-> ScaleOf(Mix(<<amax, width, ClassNo[cls], ClassNo[mul]>>))]

Chunk(x, g, len) == SubSeq(x, (g - 1) * len + 1, g * len)

\* quant_groups: each group by its own absmax.
quant_groups(x, len, width, cls, mul) ==
    LET part == Seqn([g \in 1 .. Len(x) \div len |->
                    LET v == Chunk(x, g, len) IN quant(v, width, cls, mul, absmax(v))])
    IN [q |-> Concat([g \in DOMAIN part |-> part[g].q]),
        scales |-> Seqn([g \in DOMAIN part |-> part[g].scale])]

\* rope: within a head, element j pairs with j + len / 2 under the row of the position.
rope(x, row, len) ==
    Seqn([i \in DOMAIN x |->
        LET j == (i - 1) % len
            half == len \div 2
            pair == IF j < half THEN x[i + half] ELSE x[i - half]
        IN Wide(Mix(<<x[i], pair, row, j>>))])

silu_mul(g, u) == Seqn([i \in DOMAIN g |-> Wide(Mix(<<g[i], u[i]>>))])

subc(x, c) == Seqn([i \in DOMAIN x |-> x[i] - c[i]])

\* softmax over every score given, the scale of V folded into each weight.
softmax(s, vscales) ==
    LET top == MaxOf(s)
        total == Mix([i \in DOMAIN s |-> s[i] - top])
    IN [w |-> Seqn([i \in DOMAIN s |-> Narrow(Mix(<<s[i] - top, total, vscales[i]>>), 16)]),
        scale |-> ScaleOf(Mix(<<total>> \o vscales))]
=============================================================================
