------------------------------ MODULE Calibrate ------------------------------
(***************************************************************************)
(* sw/quettos/calibrate.py, quantize.py and program.py, one layer.  A       *)
(* real number is an integer of units 2^-Unit; the smoothing factors are    *)
(* powers of two, of which the exponent is kept.                            *)
(***************************************************************************)
EXTENDS Numerics

CONSTANTS
    Unit,           \* fraction bits of a real number
    Heads, KvHeads, HeadDim,
    SmoothCap,      \* log2 of QK_SMOOTH_CAP
    Headroom,       \* HEADROOM_BITS
    Eps,            \* rms_norm_eps, of units 2^-Unit
    MaxCtx          \* positions of the KV cache

NRep == Heads \div KvHeads
Pairs == HeadDim \div 2
Classes == {"X", "XN", "QKV", "S", "GU", "H", "CTX", "LOGITS"}

Chunk(v, g) == SubSeq(v, (g - 1) * HeadDim + 1, g * HeadDim)
Column(vs, i) == {AbsOf(v[i]) : v \in vs}

-----------------------------------------------------------------------------
(* CalibrationRecorder: what the forward passes left.  A token gives the     *)
(* maxima of its intermediates and its projections before and after RoPE.    *)

NoRecord == [absmax |-> [c \in Classes |-> 0], q_pre |-> {}, k_pre |-> {}, v_max |-> 0,
             q_rope |-> <<>>, k_rope |-> <<>>]

\* The quarter turns of a pair: RoPE of this model at position pos.
Turned(x, pos) ==
    LET at(i) == LET h == (i - 1) \div HeadDim
                     j == (i - 1) % HeadDim
                 IN IF j < Pairs THEN -x[i + Pairs] ELSE x[i - Pairs]
    IN IF pos % 2 = 0 THEN x ELSE [i \in DOMAIN x |-> at(i)] \o <<>>

\* record, for every intermediate of one token.
Recorded(rec, t) ==
    LET pos == Len(rec.q_rope)
        q == Turned(t.q, pos)
        k == Turned(t.k, pos)
        qkv == absmax(t.q \o t.k \o t.v \o q \o k)
    IN [absmax |-> [c \in Classes |->
                      MostOf(rec.absmax[c], IF c = "QKV" THEN qkv ELSE t.maxima[c])],
        q_pre |-> rec.q_pre \cup {t.q}, k_pre |-> rec.k_pre \cup {t.k},
        v_max |-> MostOf(rec.v_max, absmax(t.v)),
        q_rope |-> Append(rec.q_rope, q), k_rope |-> Append(rec.k_rope, k)]

-----------------------------------------------------------------------------
(* Centering and smoothing *)

\* k_center_rows: the mean of every K channel, to the nearest unit.
k_center_rows(rec) ==
    LET n == Len(rec.k_rope)
    IN [i \in 1 .. KvHeads * HeadDim |->
          (2 * Sigma(Each(rec.k_rope, LAMBDA k : k[i])) + n) \div (2 * n)] \o <<>>

Centered(k, c) == [i \in DOMAIN k |-> k[i] - c[i]] \o <<>>

\* The channels of RoPE pair p of head g, and the query heads KV head g serves.
PairOf(g, p) == {(g - 1) * HeadDim + p, (g - 1) * HeadDim + p + Pairs}
ServedBy(g) == (g - 1) * NRep + 1 .. g * NRep

\* qk_smoothing_factors: log2 of s_p, half the log of the ratio less its mean.
qk_smoothing_factors(rec, c) ==
    LET ks == {Centered(k, c) : k \in Elements(rec.k_rope)}
        pk(g, p) == Largest(UNION {Column(ks, i) : i \in PairOf(g, p)})
        pq(g, p) == Largest(UNION {UNION {Column(Elements(rec.q_rope), i) : i \in PairOf(h, p)} :
                                    h \in ServedBy(g)})
        ratio(g, p) == IF pk(g, p) > 0 /\ pq(g, p) > 0 THEN bitlen(pk(g, p)) - bitlen(pq(g, p)) ELSE 0
        mean(g) == Sigma([p \in 1 .. Pairs |-> ratio(g, p)] \o <<>>)
    IN [g \in 1 .. KvHeads |-> [p \in 1 .. Pairs |->
          Clamp((ratio(g, p) * Pairs - mean(g)) \div (2 * Pairs), -SmoothCap, SmoothCap)]]

\* Fault: query head h takes the factors of KV head h % KvHeads.
tile_interleaved(factors) ==
    LET row(g) == [j \in 1 .. HeadDim |-> factors[g][1 + ((j - 1) % Pairs)]]
    IN [k |-> [i \in 1 .. KvHeads * HeadDim |-> row(1 + ((i - 1) \div HeadDim))[1 + ((i - 1) % HeadDim)]],
        q |-> [i \in 1 .. Heads * HeadDim |->
                 row(1 + (((i - 1) \div HeadDim) % KvHeads))[1 + ((i - 1) % HeadDim)]]]

\* tile_factors: per channel of K, and of Q with the row of a KV head repeated.
tile_factors(factors) ==
    LET row(g) == [j \in 1 .. HeadDim |-> factors[g][1 + ((j - 1) % Pairs)]]
    IN [k |-> [i \in 1 .. KvHeads * HeadDim |-> row(1 + ((i - 1) \div HeadDim))[1 + ((i - 1) % HeadDim)]],
        q |-> [i \in 1 .. Heads * HeadDim |->
                 row(1 + ((i - 1) \div HeadDim) \div NRep)[1 + ((i - 1) % HeadDim)]]]

\* A recorded value times or divided by its factor: units 2^-SmoothCap finer.
FoldQ(q, s) == [i \in DOMAIN q |-> q[i] * 2 ^ (SmoothCap + s.q[i])] \o <<>>
FoldK(k, s) == [i \in DOMAIN k |-> k[i] * 2 ^ (SmoothCap - s.k[i])] \o <<>>
Fine(x) == x * 2 ^ SmoothCap
FineUnit == Unit + SmoothCap

\* smoothed_qkv_absmax: V, and Q and K before and after RoPE.
smoothed_qkv_absmax(rec, s) ==
    Largest({Fine(rec.v_max)}
            \cup {absmax(FoldQ(q, s)) : q \in rec.q_pre \cup Elements(rec.q_rope)}
            \cup {absmax(FoldK(k, s)) : k \in rec.k_pre \cup Elements(rec.k_rope)})

Product(a, b) == Sigma([i \in DOMAIN a |-> a[i] * b[i]] \o <<>>)

\* q . k / sqrt(d) * log2(e) of a head, about three quarters of the product; units
\* of q times units of k come back to one unit.
Score(q, k) == (3 * AbsOf(Product(q, k))) \div (4 * 2 ^ FineUnit)

\* centered_maxima: of (k - c) / s, and of the causal scores.
centered_maxima(rec, c, s) ==
    LET q == Each(rec.q_rope, LAMBDA x : FoldQ(x, s))
        k == Each(rec.k_rope, LAMBDA x : FoldK(Centered(x, c), s))
    IN [K |-> Largest({absmax(x) : x \in Elements(k)}),
        S |-> Largest({Score(Chunk(q[tu[1]], h), Chunk(k[tu[2]], 1 + (h - 1) \div NRep)) :
                          tu \in {x \in (DOMAIN q) \X (DOMAIN k) : x[2] <= x[1]}, h \in 1 .. Heads})]

-----------------------------------------------------------------------------
(* Formats *)

\* ceil(log2) of a real number above zero.
CeilLog2(x) == bitlen(x - 1) - FineUnit

frac_for_absmax(a) == IF a = 0 THEN Mant ELSE LeastOf(Mant, OutW - 1 - Headroom - CeilLog2(a))

choose_fracs(m) ==
    [X |-> LeastOf(frac_for_absmax(m.X), frac_for_absmax(m.XN)),
     QKV |-> frac_for_absmax(MostOf(m.QKV, m.K_centered)),
     S |-> frac_for_absmax(m.S_centered), GU |-> frac_for_absmax(m.GU),
     H |-> frac_for_absmax(m.H), CTX |-> frac_for_absmax(m.CTX), LOGITS |-> Mant]

\* calibrate: the report, of the maxima the hardware will see.
calibrate(rec) ==
    LET c == k_center_rows(rec)
        f == qk_smoothing_factors(rec, c)
        s == tile_factors(f)
        cm == centered_maxima(rec, c, s)
        m == [x \in Classes \cup {"K_centered", "S_centered"} |->
                CASE x = "QKV" -> smoothed_qkv_absmax(rec, s)
                  [] x = "K_centered" -> cm.K
                  [] x = "S_centered" -> cm.S
                  [] OTHER -> Fine(rec.absmax[x])]
    IN [absmax |-> m, frac |-> choose_fracs(m), k_center |-> c, factors |-> f,
        ok |-> choose_fracs(m).S >= SoftmaxFracMin]

-----------------------------------------------------------------------------
(* quantize.py *)

\* to_fixed, from units 2^-units, half up.
to_fixed(x, units, frac) ==
    sat(IF units >= frac THEN round_shift(x, units - frac) ELSE x * 2 ^ (frac - units), OutW)

\* round_half_up(w / scale) of a row whose largest level is absmax.
QuantRow(row) ==
    LET s == sfloat_from_ratio(absmax(row), Top(Narrow))
        num(w) == IF s.e < 0 THEN w * 2 ^ (-s.e) ELSE w
        den == IF s.e < 0 THEN s.m ELSE s.m * 2 ^ s.e
    IN IF absmax(row) = 0 THEN [q |-> row, scale |-> SFloatZero]
       ELSE [q |-> Each(row, LAMBDA w : Clamp((2 * num(w) + den) \div (2 * den),
                                              -Top(Narrow), Top(Narrow))),
             scale |-> SFloat(s.m, s.e - FineUnit)]

\* quantize_linear
Linear(rows, bias) ==
    LET r == Each(rows, LAMBDA row : QuantRow(row))
    IN [q |-> Each(r, LAMBDA x : x.q), scale |-> Each(r, LAMBDA x : x.scale), bias |-> bias]

NoBias(rows) == Each(rows, LAMBDA r : 0)

\* smooth_qk on the rows of one projection, and the biases of the same channels.
FoldRows(rows, up) == [i \in DOMAIN rows |-> Each(rows[i], LAMBDA w : w * 2 ^ up[i])] \o <<>>

\* fold_v_bias: W_o times the V bias of the KV head of each query head.
fold_v_bias(wo, bv) ==
    LET tiled == [i \in 1 .. Heads * HeadDim |->
                    bv[((i - 1) \div (HeadDim * NRep)) * HeadDim + 1 + ((i - 1) % HeadDim)]]
    IN Each(wo, LAMBDA row : Product(row, tiled))

\* check_fracs, and check_rmsnorm_domain at a hidden size.
FracsOk(f) ==
    /\ \A c \in DOMAIN f : f[c] \in 0 .. OutW - 2
    /\ f.GU >= SigBits + FracBits /\ f.H <= 2 * f.GU /\ f.S >= SoftmaxFracMin

eps_const(hidden, frac) ==
    (2 * Eps * hidden * 2 ^ (2 * frac) + 2 ^ Unit) \div (2 * 2 ^ Unit)

Root(x) == Largest({r \in 0 .. 2 ^ (OutW - 1) : r * r <= x})
XhatFits(hidden, frac) == Root(hidden * 2 ^ (2 * frac)) + 2 < 2 ^ (OutW - 1)
EpsOk(hidden, frac, sqrt_d) ==
    LET bits == 2 * (frac + sqrt_d.e)
    IN eps_const(hidden, frac) >= IF bits > 0 THEN 2 ^ bits ELSE 1

\* smoothing_factors: those of the report, refused past the cap; zeros without it.
NoSmoothing == [g \in 1 .. KvHeads |-> [p \in 1 .. Pairs |-> 0]]
smoothing_factors(report, smoothing) == IF smoothing THEN report.factors ELSE NoSmoothing
FactorsOk(f) ==
    \A g \in 1 .. KvHeads : \A p \in 1 .. Pairs : f[g][p] \in -SmoothCap .. SmoothCap

Plain(rows) == FoldRows(rows, [i \in DOMAIN rows |-> SmoothCap])

\* quantize_layer: the smoothed projections in one matrix, their biases; the bias
\* of V is folded into the output projection.
quantize_layer(w, qk, bias, frac) ==
    [wqkv |-> Linear(qk \o Plain(w.wv), bias \o NoBias(w.wk \o w.wv)),
     wo |-> Linear(Plain(w.wo),
                   Each(fold_v_bias(w.wo, w.bv), LAMBDA b : to_fixed(b, 2 * Unit, frac.X))),
     wgu |-> Linear(Plain(w.wgu), NoBias(w.wgu)), wdown |-> Linear(Plain(w.wdown), NoBias(w.wdown))]

\* build_quant_model: the checkpoint w under a report, smoothed or not.
build_quant_model(w, report, smoothing) ==
    LET hidden == Len(w.embed[1])
        f == smoothing_factors(report, smoothing)
        s == tile_factors(f)
        up == [i \in DOMAIN w.wq |-> SmoothCap + s.q[i]]
        down == [i \in DOMAIN w.wk |-> SmoothCap - s.k[i]]
        bias == [i \in DOMAIN w.wq |-> to_fixed(w.bq[i] * 2 ^ up[i], FineUnit, report.frac.QKV)] \o <<>>
        sqrt_d == sfloat_from_int(Root(hidden * 2 ^ (2 * Mant)), -Mant)
        layer == quantize_layer(w, FoldRows(w.wq, up) \o FoldRows(w.wk, down), bias, report.frac)
    IN [frac |-> report.frac, absmax |-> report.absmax,
        wqkv |-> layer.wqkv, wo |-> layer.wo, wgu |-> layer.wgu, wdown |-> layer.wdown,
        embed |-> Linear(Plain(w.embed), NoBias(w.embed)),
        k_center |-> Each(FoldK(report.k_center, s), LAMBDA c : to_fixed(c, FineUnit, report.frac.QKV)),
        sqrt_d |-> sqrt_d, eps_c |-> eps_const(hidden, report.frac.X),
        ok |-> FracsOk(report.frac) /\ FactorsOk(f) /\ XhatFits(hidden, report.frac.X)
               /\ EpsOk(hidden, report.frac.X, sqrt_d)]

-----------------------------------------------------------------------------
(* program.py: the requant constants of the GEMVs of a program, chosen on   *)
(* the calibrated exponents and held to the saturation bounds.              *)

Range2(lo, hi) == [lo |-> lo, hi |-> hi]
NoMul == SFloatZero
Log2eOver8 == sfloat_from_ratio(3, 4)          \* log2(e) / sqrt(d), as in Score

\* acc_bits_for: k products of two symmetric operands, at most the accumulator.
acc_bits_for(k, a_bits) == LeastOf(AccW, bitlen(k * Top(a_bits) * Top(Narrow)) + 1)

\* weight_exponent_range: over the rows of the matrices that are not zero.
Live(lins) == UNION {{s.e : s \in {x \in Elements(l.scale) : ~IsZero(x)}} : l \in lins}
weight_exponent_range(lins) == Range2(-Largest({-e : e \in Live(lins)}), Largest(Live(lins)))

quant_scale(a, width, frac_in, mul) == quant(<<a>>, width, frac_in, mul, a).scale

\* activation_exponent_range: from one LSB to the calibrated maximum.
activation_exponent_range(a_max, frac_in, width, mul) ==
    Range2(quant_scale(1, width, frac_in, mul).e, quant_scale(a_max, width, frac_in, mul).e)

\* activation_exponent_hard_max: a vector at the end of its class.
activation_exponent_hard_max(frac_in, width, mul) == quant_scale(Top(OutW), width, frac_in, mul).e

sreg_exponent_range(sv) == Range2(SregOut(sv.lo).e, SregOut(sv.hi).e)

\* check_window: the shift over the calibrated exponents, and at the saturation bounds.
check_window(sbias, sw, sx, hard_min) ==
    hard_min >= 0 /\ 0 <= sbias - (sw.hi + sx.hi) /\ sbias - (sw.lo + sx.lo) <= ShiftMax

\* Fault: the shift at the saturation bounds is not looked at.
gemv_constants_calibrated(acc, frac_out, s1, pre, sw, sx, sw_hard, sx_hard) ==
    LET first == IF s1 >= 0 THEN s1 ELSE choose_s1(acc, frac_out, sw.hi, sx.hi + 1)
        sbias == sbias_for(frac_out, first, pre)
    IN [acc_bits |-> acc, s1 |-> first, sbias |-> sbias,
        ok |-> check_window(sbias, sw, sx, 0)]

\* gemv_constants: s1 < 0 asks for choose_s1, with an octave of margin; s1 is lowered
\* when the shift at the saturation bounds would be negative.
gemv_constants(acc, frac_out, s1, pre, sw, sx, sw_hard, sx_hard) ==
    LET first == IF s1 >= 0 THEN s1 ELSE choose_s1(acc, frac_out, sw.hi, sx.hi + 1)
        hard(s) == sbias_for(frac_out, s, pre) - (sw_hard + sx_hard)
        s == IF hard(first) < 0 THEN MostOf(MostOf(0, acc + Mant - AccW), first + hard(first)) ELSE first
        sbias == sbias_for(frac_out, s, pre)
    IN [acc_bits |-> acc, s1 |-> s, sbias |-> sbias,
        ok |-> check_window(sbias, sw, sx, hard(s))]

\* quant_scale_exponent: compile() refuses a VQUANT whose scale may leave the i8 of
\* an SREG; these are the classes a program quantizes.
quant_scale_exponent(width, frac, mul) ==
    LET e == quant_scale_exponents(width, frac, mul) IN -E8 <= e.lo /\ e.hi <= E8 - 1
VquantsFit(frac, a_bits) ==
    /\ \A c \in {"X", "CTX", "H"} : quant_scale_exponent(a_bits, frac[c], NoMul)
    /\ quant_scale_exponent(Narrow, frac.QKV, NoMul)
    /\ quant_scale_exponent(Mant, frac.QKV, Log2eOver8)

GemvNames == {"embed", "qkv", "o", "gu", "down", "lm_head", "scores", "pv"}
Choose == -1

\* build: the constants of every GEMV of a model; ok when none is refused.
build(model, a_bits) ==
    LET f == model.frac
        lsb(cls, frac) == to_fixed(model.absmax[cls], FineUnit, frac)
        act(cls, frac, width, mul) == activation_exponent_range(lsb(cls, frac), frac, width, mul)
        xn == act("XN", f.X, a_bits, NoMul)
        xn_hard == activation_exponent_hard_max(f.X, a_bits, NoMul)
        sv == act("QKV", f.QKV, Narrow, NoMul)
        sv_hard == activation_exponent_hard_max(f.QKV, Narrow, NoMul)
        one == Range2(SFloatOne.e, SFloatOne.e)
        weighted(lins, k, frac, sx, sx_hard) ==
            LET sw == weight_exponent_range(lins)
            IN gemv_constants(acc_bits_for(k, a_bits), frac, Choose, 0, sw, sx, sw.hi, sx_hard)
        k(lin) == Len(lin.q[1])
        embed_e == weight_exponent_range({model.embed})
        g == [n \in GemvNames |->
                CASE n = "embed" -> gemv_constants(Narrow + PreShift, f.X, Mant, PreShift, embed_e, one,
                                                   embed_e.hi, one.hi)
                  [] n = "qkv" -> weighted({model.wqkv}, k(model.wqkv), f.QKV, xn, xn_hard)
                  [] n = "o" -> weighted({model.wo}, k(model.wo), f.X, act("CTX", f.CTX, a_bits, NoMul),
                                         activation_exponent_hard_max(f.CTX, a_bits, NoMul))
                  [] n = "gu" -> weighted({model.wgu}, k(model.wgu), f.GU, xn, xn_hard)
                  [] n = "down" -> weighted({model.wdown}, k(model.wdown), f.X, act("H", f.H, a_bits, NoMul),
                                            activation_exponent_hard_max(f.H, a_bits, NoMul))
                  [] n = "lm_head" -> weighted({model.embed}, k(model.embed), f.LOGITS, xn, xn_hard)
                  [] n = "scores" ->
                       gemv_constants(acc_bits_for(HeadDim, Mant), f.S, Choose, 0,
                           act("K_centered", f.QKV, Narrow, NoMul), act("QKV", f.QKV, Mant, Log2eOver8),
                           activation_exponent_hard_max(f.QKV, Narrow, NoMul),
                           activation_exponent_hard_max(f.QKV, Mant, Log2eOver8))
                  [] n = "pv" ->
                       gemv_constants(acc_bits_for(MaxCtx, Mant), f.CTX, Choose, 0, one,
                           sreg_exponent_range(sv), one.hi, SregOut(sv_hard).e)]
    IN [gemv |-> g, a_bits |-> a_bits,
        ok |-> /\ \A n \in GemvNames : g[n].ok
               /\ \A x \in {<<"XN", f.X>>, <<"CTX", f.CTX>>, <<"H", f.H>>, <<"QKV", f.QKV>>,
                            <<"K_centered", f.QKV>>} : lsb(x[1], x[2]) >= 1]
=============================================================================
