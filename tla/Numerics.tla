------------------------------ MODULE Numerics ------------------------------
(***************************************************************************)
(* sw/quettos/numerics.py at scaled widths.  The source has Mant = 16,      *)
(* AccW = 40, OutW = 32, Narrow = 8, ShiftMax = 63, TableBits = 8,          *)
(* SigBits = 5 and Ext = 8; every other width of the file follows from      *)
(* them.  A result carries the events the hardware counts.                  *)
(***************************************************************************)
EXTENDS Integers, Sequences, FiniteSets

CONSTANTS
    Mant,           \* bits of an sfloat mantissa and of a wide activation
    AccW, OutW,     \* the accumulator and the fixed-point classes
    Narrow,         \* weights, K and V
    ShiftMax, E8,   \* the widest shift; an exponent lies in -E8 .. E8 - 1
    TableBits,      \* index bits of the exp2, rsqrt and recip tables
    SigBits,        \* fraction bits of the sigmoid index
    Ext,            \* SOFTMAX_EXT_BITS
    Exp2Table, SigmoidTable    \* their values, the right end included

FracBits == Mant - TableBits
Half     == 2 ^ (Mant - 1)                     \* Q15_ONE
ASSUME NumericsAssumption ==
    /\ Mant > TableBits /\ TableBits > 0 /\ AccW > Mant /\ OutW > Mant
    /\ Len(Exp2Table) = 2 ^ TableBits + 1 /\ Len(SigmoidTable) = 2 ^ (SigBits + 4) + 1

LeastOf(x, y) == IF x < y THEN x ELSE y
MostOf(x, y)  == IF x > y THEN x ELSE y
Clamp(x, lo, hi) == MostOf(lo, LeastOf(x, hi))
AbsOf(x) == IF x < 0 THEN -x ELSE x
Largest(s) == CHOOSE x \in s : \A y \in s : y <= x
Elements(v) == {v[i] : i \in DOMAIN v}

Sigma(v) == LET sum[i \in 0 .. Len(v)] == IF i = 0 THEN 0 ELSE sum[i - 1] + v[i] IN sum[Len(v)]
Count(v, P(_)) == Cardinality({i \in DOMAIN v : P(v[i])})

\* v with every element through F, each computed once.
Each(v, F(_)) == [i \in DOMAIN v |-> F(v[i])] \o <<>>

-----------------------------------------------------------------------------
(* Primitives *)

round_shift(x, s) == IF s = 0 THEN x ELSE (x + 2 ^ (s - 1)) \div 2 ^ s

Top(bits) == 2 ^ (bits - 1) - 1
sat(x, bits) == Clamp(x, -Top(bits) - 1, Top(bits))
Saturates(x, bits) == sat(x, bits) # x

bitlen(x) == CHOOSE n \in 0 .. 30 : x < 2 ^ n /\ (n > 0 => x >= 2 ^ (n - 1))

absmax(v) == Largest({0} \cup {AbsOf(x) : x \in Elements(v)})

argmax(v) == (CHOOSE i \in DOMAIN v :
                 /\ \A j \in DOMAIN v : v[j] <= v[i]
                 /\ \A j \in 1 .. i - 1 : v[j] < v[i]) - 1

-----------------------------------------------------------------------------
(* sfloat *)

SFloat(m, e) == [m |-> m, e |-> e]
SFloatZero == SFloat(0, 0)
SFloatOne  == SFloat(Half, 1 - Mant)
IsZero(s)  == s.m = 0

\* A mantissa that rounded up to 2^Mant moves into the exponent.
Carried(m, e) == IF m = 2 ^ Mant THEN SFloat(Half, e + 1) ELSE SFloat(m, e)

sfloat_from_int(a, e) ==
    LET sh == bitlen(a) - Mant
    IN IF a = 0 THEN SFloatZero
       ELSE IF sh <= 0 THEN SFloat(a * 2 ^ (-sh), e + sh)
       ELSE Carried(round_shift(a, sh), e + sh)

\* sfloat_from_float of a / b, half up.
sfloat_from_ratio(a, b) ==
    LET k == CHOOSE n \in -15 .. 15 :
               IF n > 0 THEN 2 ^ (n - 1) * b <= a /\ a < 2 ^ n * b
               ELSE b <= a * 2 ^ (1 - n) /\ a * 2 ^ (-n) < b
        up == Mant - k
        m == IF up >= 0 THEN (2 * a * 2 ^ up + b) \div (2 * b)
             ELSE (2 * a + b * 2 ^ (-up)) \div (2 * b * 2 ^ (-up))
    IN IF a = 0 THEN SFloatZero ELSE Carried(m, -up)

sfloat_mul(a, b) ==
    LET p == a.m * b.m
        sh == IF p >= 2 ^ (2 * Mant - 1) THEN Mant ELSE Mant - 1
    IN IF IsZero(a) \/ IsZero(b) THEN SFloatZero ELSE Carried(round_shift(p, sh), a.e + b.e + sh)

-----------------------------------------------------------------------------
(* Tables *)

\* The Q value of 1 / x and of 1 / sqrt(x) rounded half up, x = i / 2^TableBits.
RecipValue(i) == (2 ^ (Mant + TableBits) + i) \div (2 * i)
RsqrtValue(i) ==
    Largest({v \in 0 .. Half : (2 * v - 1) * (2 * v - 1) * i <= 2 ^ (2 * Mant + TableBits)})

RecipTable == [i \in 1 .. 2 ^ TableBits + 1 |-> RecipValue(2 ^ TableBits + i - 1)] \o <<>>
RsqrtTable ==
    [i \in 1 .. 2 * 2 ^ TableBits + 1 |->
        RsqrtValue(IF i <= 2 ^ TableBits THEN 2 ^ TableBits + i - 1 ELSE 2 * (i - 1))] \o <<>>

\* Lut.interp: v[idx] + round_shift(dv[idx] * frac, FracBits).
interp(t, idx, frac) == t[idx + 1] + round_shift((t[idx + 2] - t[idx + 1]) * frac, FracBits)

recip_q(a_hi) ==
    LET low == a_hi % Half
        step == 2 ^ (FracBits - 1)
    IN interp(RecipTable, low \div step, (low % step) * 2)

rsqrt_q(m) ==
    LET f == 2 ^ FracBits
        n == 2 ^ TableBits
    IN IF m < 2 * 2 ^ Mant THEN interp(RsqrtTable, (m \div f) % n, m % f)
       ELSE interp(RsqrtTable, n + ((m \div (2 * f)) % n), (m \div 2) % f)

exp2_q(f) == interp(Exp2Table, f \div 2 ^ FracBits, f % 2 ^ FracBits)

\* sigmoid_q15: one beyond the table, and 1 - sigmoid(|x|) below zero.
sigmoid_q(x, frac) ==
    LET idx == AbsOf(x) \div 2 ^ (frac - SigBits)
        f == (AbsOf(x) \div 2 ^ (frac - SigBits - FracBits)) % 2 ^ FracBits
        pos == IF idx < 2 ^ (SigBits + 4) THEN interp(SigmoidTable, idx, f) ELSE Half
    IN IF x >= 0 THEN pos ELSE Half - pos

-----------------------------------------------------------------------------
(* requant *)

requant_shift(sw, sx, sbias) == sbias - (sw.e + sx.e)
sbias_for(frac_out, s1, pre_shift) == -(frac_out + s1) + pre_shift

OneIf(b) == IF b THEN 1 ELSE 0

\* stage1 counts the saturations of the accumulator product alone.
requant(acc, sw, sx, s1, sbias, bias_q, old) ==
    LET zero == IsZero(sw) \/ IsZero(sx)
        t == round_shift(acc * sw.m, s1)
        shift == requant_shift(sw, sx, sbias)
        y == round_shift(sat(t, AccW) * sx.m, Clamp(shift, 0, ShiftMax))
        dequant == IF zero THEN 0 ELSE sat(y, OutW)
        biased == sat(dequant + bias_q, OutW)
    IN [y |-> sat(biased + old, OutW),
        err_shift |-> OneIf(~zero /\ (shift < 0 \/ shift > ShiftMax)),
        stage1 |-> OneIf(~zero /\ Saturates(t, AccW)),
        sat |-> OneIf(~zero /\ Saturates(t, AccW)) + OneIf(~zero /\ Saturates(y, OutW))
                + OneIf(Saturates(dequant + bias_q, OutW)) + OneIf(Saturates(biased + old, OutW))]

\* choose_s1: within the accumulator, at most Mant, stage 2 at or above Mant.
choose_s1(acc_bits, frac_out, sw_e_max, sx_e_max) ==
    MostOf(MostOf(0, acc_bits + Mant - AccW),
           LeastOf(Mant, -(frac_out + sw_e_max + sx_e_max) - Mant))

\* embed_dequant: the weight shifted up by all the accumulator has left.
PreShift == AccW - Mant
embed_dequant(q, sw, frac_x) ==
    requant(q * 2 ^ PreShift, sw, SFloatOne, Mant, sbias_for(frac_x, Mant, PreShift), 0, 0)

\* Fault: a masked element still counts its events.
requant_row_counted(acc, sw, sx, s1, sbias, bias_q, old, valid) ==
    LET r == requant(acc, sw, sx, s1, sbias, 0, 0)
        y == sat((IF valid THEN r.y ELSE 0) + bias_q, OutW)
    IN [r EXCEPT !.y = sat(y + old, OutW)]

\* requant_rows, one element: shift and clip everywhere, mask at the end.
requant_row(acc, sw, sx, s1, sbias, bias_q, old, valid) ==
    LET nz == valid /\ ~IsZero(sw) /\ ~IsZero(sx)
        t == round_shift(acc * sw.m, s1)
        shift == sbias - (sw.e + sx.e)
        y == round_shift(sat(t, AccW) * sx.m, Clamp(shift, 0, ShiftMax))
        kept == IF nz THEN sat(y, OutW) ELSE 0
        biased == sat(kept + bias_q, OutW)
    IN [y |-> sat(biased + old, OutW),
        err_shift |-> OneIf(nz /\ shift \notin 0 .. ShiftMax),
        stage1 |-> OneIf(nz /\ Saturates(t, AccW)),
        sat |-> OneIf(nz /\ Saturates(t, AccW)) + OneIf(nz /\ Saturates(y, OutW))
                + OneIf(Saturates(kept + bias_q, OutW)) + OneIf(Saturates(biased + old, OutW))]

-----------------------------------------------------------------------------
(* VQUANT *)

\* Fault: the basis is the absmax itself.
basis_absmax(a, width) == a

\* a_eff: the absmax element maps to the top level, not one above it.
basis(a, width) == a + (a \div 2 ^ (width - 1)) + 1

quant(x, width, frac_in, scale_mul, amax) ==
    LET a_eff == basis(amax, width)
        e_a == bitlen(a_eff) - Mant
        a_hi == IF e_a >= 0 THEN a_eff \div 2 ^ e_a ELSE a_eff * 2 ^ (-e_a)
        inv == recip_q(a_hi)
        lim == Top(width)
        q == Each(x, LAMBDA v : round_shift(v * inv, 2 * Mant - 1 + e_a - width))
        sx == SFloat(a_hi, e_a - (width - 1) - frac_in)
    IN IF amax = 0 THEN [q |-> Each(x, LAMBDA v : 0), scale |-> SFloatZero, clip |-> 0]
       ELSE [q |-> Each(q, LAMBDA v : Clamp(v, -lim, lim)),
             scale |-> IF IsZero(scale_mul) THEN sx ELSE sfloat_mul(sx, scale_mul),
             clip |-> Count(q, LAMBDA v : AbsOf(v) > lim)]

\* quant_scale_exponents: what quant can give for any magnitude of OutW bits.
quant_scale_exponents(width, frac_in, scale_mul) ==
    LET gain(g) == IF IsZero(scale_mul) THEN 0 ELSE scale_mul.e + g
    IN [lo |-> (2 - Mant) - (width - 1) - frac_in + gain(Mant - 1),
        hi |-> (OutW + 1 - Mant) - (width - 1) - frac_in + gain(Mant)]

-----------------------------------------------------------------------------
(* RMSNorm, RoPE, centering, SiLU *)

rmsnorm(x, gamma_q, gamma_e, eps_c, sqrt_d, frac_x) ==
    LET sh == MostOf(0, bitlen(absmax(x)) - (Mant - 1))
        ss == Sigma(Each(x, LAMBDA v : (v \div 2 ^ sh) * (v \div 2 ^ sh))) + (eps_c \div 2 ^ (2 * sh))
        e == (bitlen(ss) - 1) \div 2
        m == IF 2 * e >= Mant THEN ss \div 2 ^ (2 * e - Mant) ELSE ss * 2 ^ (Mant - 2 * e)
        rc == sfloat_mul(sfloat_from_int(rsqrt_q(m), 1 - Mant), sqrt_d)
        s1 == -(rc.e + frac_x - sh - e)
        xhat == Each(x, LAMBDA v : round_shift(v * rc.m, Clamp(s1, 0, ShiftMax)))
        y == [i \in DOMAIN x |-> round_shift(xhat[i] * gamma_q[i], -gamma_e)] \o <<>>
    IN IF ss <= 0 THEN [y |-> Each(x, LAMBDA v : 0), xhat |-> x, err_shift |-> 0]
       ELSE [y |-> Each(y, LAMBDA v : sat(v, OutW)), xhat |-> xhat,
             err_shift |-> IF s1 \in 0 .. ShiftMax THEN 0 ELSE Len(x)]

\* One head: the cosine and the sine of element i turn it with i + len / 2.
rope(x, cos, sin) ==
    LET half == Len(x) \div 2
        turn(a, b, i) == sat(round_shift(a * cos[i] - b * sin[i], Mant - 2), OutW)
    IN [i \in DOMAIN x |-> IF i <= half THEN turn(x[i], x[i + half], i)
                           ELSE turn(x[i], -x[i - half], i - half)] \o <<>>

subc(x, c) == [i \in DOMAIN x |-> sat(x[i] - c[i], OutW)] \o <<>>

silu_mul(g, u, frac_gu, frac_h) ==
    LET silu == round_shift(g * sigmoid_q(g, frac_gu), Mant - 1)
    IN sat(round_shift(silu * u, 2 * frac_gu - frac_h), OutW)

-----------------------------------------------------------------------------
(* Softmax *)

SoftmaxClamp   == Mant - 1 + Ext + 2
SoftmaxFracMin == Mant
SregOut(e_max) == SFloat(Half, 1 + e_max - (Mant - 1))

\* 2^-d with Ext extra bits, d = n - g steps of 2^frac_s below the maximum.
Exponential(d, frac_s) ==
    LET n == (d + 2 ^ frac_s - 1) \div 2 ^ frac_s
        g == n * 2 ^ frac_s - d
    IN round_shift(exp2_q(g \div 2 ^ (frac_s - Mant)) * 2 ^ Ext, n)

Probabilities(e) ==
    LET total == Sigma(e)
        e_s == bitlen(total) - Mant
        inv == recip_q(IF e_s >= 0 THEN total \div 2 ^ e_s ELSE total * 2 ^ (-e_s))
    IN Each(e, LAMBDA x : round_shift(x * inv, Mant - 1 - Ext + e_s))

\* A weight: 0 for an unwritten token, clipped one below 1.0.
WeightOf(p, v, e_max) ==
    LET shift == LeastOf(Mant + Ext + e_max - v.e, 2 * Mant + Ext)
    IN IF IsZero(v) THEN 0 ELSE LeastOf(round_shift(p * v.m, shift), Half - 1)

LiveMax(v) == Largest({v[i].e : i \in {j \in DOMAIN v : ~IsZero(v[j])}})

softmax(s, frac_s, v) ==
    LET top == Largest(Elements(s))
        e == Each(s, LAMBDA x : Exponential(Clamp(top - x, 0, SoftmaxClamp * 2 ^ frac_s), frac_s))
        p == Probabilities(e)
    IN IF \A i \in DOMAIN v : IsZero(v[i]) THEN [w |-> Each(s, LAMBDA x : 0), scale |-> SFloatZero]
       ELSE [w |-> [i \in DOMAIN s |-> WeightOf(p[i], v[i], LiveMax(v))] \o <<>>,
             scale |-> SregOut(LiveMax(v))]

\* softmax_rows, one row: every column is computed, those at or past len masked.
softmax_row(s, len, frac_s, v) ==
    LET top == Largest({s[i] : i \in 1 .. len})
        d == [i \in DOMAIN s |-> Clamp(top - (IF i <= len THEN s[i] ELSE top), 0,
                                       SoftmaxClamp * 2 ^ frac_s)] \o <<>>
        e == [i \in DOMAIN s |-> IF i <= len THEN Exponential(d[i], frac_s) ELSE 0] \o <<>>
        p == Probabilities(e)
        live == {i \in 1 .. len : ~IsZero(v[i])}
        e_max == Largest({v[i].e : i \in live})
    IN IF live = {} THEN [w |-> Each(s, LAMBDA x : 0), scale |-> SFloatZero]
       ELSE [w |-> [i \in DOMAIN s |-> IF i \in live THEN WeightOf(p[i], v[i], e_max) ELSE 0] \o <<>>,
             scale |-> SregOut(e_max)]
=============================================================================
