----------------------------- MODULE NumericsRun -----------------------------
(***************************************************************************)
(* The path from calibration to a program: tokens are recorded, the report  *)
(* is made, the checkpoint is quantized under it, the constants are chosen, *)
(* and the operations then run on any vector of their class, calibrated on  *)
(* or not.  The Python is sequential: one step at a time.                   *)
(***************************************************************************)
EXTENDS Calibrate

CONSTANTS
    Tokens,         \* calibration tokens: q, k, v and the maxima of the classes
    Checkpoint,     \* the float weights
    Levels          \* fixed-point values a vector is made of

VARIABLES stage, rec, report, model, program, op

vars == <<stage, rec, report, model, program, op>>

MaxTokens == 2

None == [kind |-> "none"]

Init ==
    /\ stage = "record" /\ rec = NoRecord
    /\ report = None /\ model = None /\ program = None /\ op = None

RecordToken ==
    /\ stage = "record" /\ Len(rec.q_rope) < MaxTokens
    /\ \E t \in Tokens : rec' = Recorded(rec, t)
    /\ UNCHANGED <<stage, report, model, program, op>>

MakeReport ==
    /\ stage = "record" /\ Len(rec.q_rope) = MaxTokens
    /\ report' = calibrate(rec)
    /\ stage' = IF report'.ok THEN "report" ELSE "refused"
    /\ UNCHANGED <<rec, model, program, op>>

MakeModel ==
    /\ stage = "report"
    /\ \E smoothing \in BOOLEAN : model' = build_quant_model(Checkpoint, report, smoothing)
    /\ stage' = IF model'.ok THEN "model" ELSE "refused"
    /\ UNCHANGED <<rec, report, program, op>>

MakeProgram ==
    /\ stage = "model"
    /\ \E a_bits \in {Narrow, Mant} : program' = build(model, a_bits)
    /\ stage' = IF program'.ok /\ VquantsFit(model.frac, program'.a_bits) THEN "run" ELSE "refused"
    /\ UNCHANGED <<rec, report, model, op>>

-----------------------------------------------------------------------------
(* Operations *)

\* A vector of n elements, its odd elements a and its even ones b.
Pattern(a, b, n) == [i \in 1 .. n |-> IF i % 2 = 1 THEN a ELSE b] \o <<>>

Matrix(n) ==
    CASE n = "qkv" -> model.wqkv [] n = "o" -> model.wo [] n = "gu" -> model.wgu
      [] n = "down" -> model.wdown [] n = "lm_head" -> model.embed

FracIn(n) ==
    CASE n \in {"qkv", "gu", "lm_head"} -> model.frac.X [] n = "o" -> model.frac.CTX
      [] n = "down" -> model.frac.H

FracOut(n) ==
    CASE n \in {"o", "down", "embed"} -> model.frac.X [] n = "qkv" -> model.frac.QKV
      [] n = "gu" -> model.frac.GU [] n = "lm_head" -> model.frac.LOGITS
      [] n = "scores" -> model.frac.S [] n = "pv" -> model.frac.CTX

\* One output of a GEMV through both forms of the requant; a masked channel too.
GemvOp(n, q, row, sw, bias, old, valid) ==
    LET c == program.gemv[n]
    IN \E acc \in {Product(row, q.q)} :
         op' = [kind |-> "gemv", name |-> n, acc |-> acc, sw |-> sw, sx |-> q.scale, s1 |-> c.s1,
                sbias |-> c.sbias, bias |-> bias, old |-> old, valid |-> valid,
                one |-> requant(acc, IF valid THEN sw ELSE SFloatZero, q.scale, c.s1, c.sbias, bias, old),
                rows |-> requant_row(acc, sw, q.scale, c.s1, c.sbias, bias, old, valid)]

Fixed == <<stage, rec, report, model, program>>

WeightedGemv ==
    /\ stage = "run" /\ op = None
    /\ \E n \in GemvNames \ {"embed", "scores", "pv"}, a, b \in Levels, valid \in BOOLEAN :
         \E lin \in {Matrix(n)} :
         \E q \in {quant(Pattern(a, b, k), program.a_bits, FracIn(n), NoMul,
                         absmax(Pattern(a, b, k))) : k \in {Len(lin.q[1])}},
            i \in DOMAIN lin.q, old \in {0, a} :
            GemvOp(n, q, lin.q[i], lin.scale[i], lin.bias[i], IF n \in {"o", "down"} THEN old ELSE 0, valid)
    /\ UNCHANGED Fixed

EmbedOp ==
    /\ stage = "run" /\ op = None
    /\ \E i \in DOMAIN model.embed.q : \E j \in DOMAIN model.embed.q[i] :
         op' = [kind |-> "embed", q |-> model.embed.q[i][j], sw |-> model.embed.scale[i],
                one |-> embed_dequant(model.embed.q[i][j], model.embed.scale[i], model.frac.X),
                c |-> program.gemv.embed]
    /\ UNCHANGED Fixed

\* Scores of a query against a cached key less its centre, each in its own scale.
ScoresOp ==
    /\ stage = "run" /\ op = None
    /\ \E a, b, c, d \in Levels :
       \E q \in {quant(Pattern(a, b, HeadDim), Mant, model.frac.QKV, Log2eOver8,
                       absmax(Pattern(a, b, HeadDim)))},
          key \in {subc(Pattern(c, d, HeadDim), Chunk(model.k_center, 1))} :
       \E k \in {quant(key, Narrow, model.frac.QKV, NoMul, absmax(key))}, valid \in BOOLEAN :
          GemvOp("scores", q, k.q, k.scale, 0, 0, valid)
    /\ UNCHANGED Fixed

\* The softmax of a row of three tokens, of which len are live, over cached values.
SoftmaxOp ==
    /\ stage = "run" /\ op = None
    /\ \E a, b, x, y \in Levels, len \in 1 .. 3 :
       \E v \in {Each(<<x, y, b>>, LAMBDA z : quant(<<z, z>>, Narrow, model.frac.QKV, NoMul, AbsOf(z)).scale)},
          s \in {<<a, b, x>>} :
          op' = [kind |-> "softmax", s |-> s, len |-> len, v |-> v,
                 one |-> softmax(SubSeq(s, 1, len), model.frac.S, SubSeq(v, 1, len)),
                 rows |-> softmax_row(s, len, model.frac.S, v)]
    /\ UNCHANGED Fixed

\* The row of weights times the codes of a channel of V, at the row's scale.
PvOp ==
    /\ stage = "run" /\ op.kind = "softmax"
    /\ \E c \in {<<Top(Narrow), Top(Narrow), 1>>, <<-Top(Narrow), 1, 1>>} :
         GemvOp("pv", [q |-> op.rows.w, scale |-> op.rows.scale], c, SFloatOne, 0, 0, TRUE)
    /\ UNCHANGED Fixed

QuantOp ==
    /\ stage = "run" /\ op = None
    /\ \E a, b \in Levels, width \in {Narrow, Mant}, mul \in {NoMul, Log2eOver8} :
         op' = [kind |-> "quant", x |-> <<a, b>>, width |-> width, mul |-> mul, frac |-> model.frac.QKV,
                r |-> quant(<<a, b>>, width, model.frac.QKV, mul, absmax(<<a, b>>))]
    /\ UNCHANGED Fixed

NormOp ==
    /\ stage = "run" /\ op = None
    /\ \E a, b \in Levels :
         op' = [kind |-> "norm", x |-> <<a, b>>,
                r |-> rmsnorm(<<a, b>>, <<Half, Half>>, 1 - Mant, model.eps_c, model.sqrt_d, model.frac.X)]
    /\ UNCHANGED Fixed

\* A quarter or an eighth of a turn.
RopeOp ==
    /\ stage = "run" /\ op = None
    /\ \E a, b \in Levels, cs \in {<<0, Half \div 2>>, <<(Half * 11) \div 31, (Half * 11) \div 31>>} :
         op' = [kind |-> "rope", x |-> <<a, b>>, y |-> rope(<<a, b>>, <<cs[1]>>, <<cs[2]>>)]
    /\ UNCHANGED Fixed

SiluOp ==
    /\ stage = "run" /\ op = None
    /\ \E g, u \in Levels :
         op' = [kind |-> "silu", g |-> g, u |-> u, y |-> silu_mul(g, u, model.frac.GU, model.frac.H),
                next |-> argmax(<<g, u, g>>)]
    /\ UNCHANGED Fixed

\* The next operation reads nothing of the last.
Done == stage = "run" /\ op # None /\ op' = None /\ UNCHANGED Fixed

Next ==
    \/ RecordToken \/ MakeReport \/ MakeModel \/ MakeProgram
    \/ WeightedGemv \/ EmbedOp \/ ScoresOp \/ SoftmaxOp \/ PvOp \/ QuantOp \/ NormOp \/ RopeOp
    \/ SiluOp \/ Done

Spec == Init /\ [][Next]_vars

-----------------------------------------------------------------------------
(* Properties *)

Fits8(e) == e \in -E8 .. E8 - 1

(* Whatever integers a vector of a class holds, far beyond what was seen in  *)
(* calibration, the shift of every GEMV of an accepted program lies in the   *)
(* range the hardware has, the accumulator product never saturates, and a    *)
(* quantized scale stays within quant_scale_exponents, so in the 8 bits of   *)
(* an SREG.                                                                  *)
ShiftsProven ==
    /\ op.kind \in {"gemv", "embed"} => op.one.err_shift = 0 /\ op.one.stage1 = 0
    /\ op.kind = "quant" /\ ~IsZero(op.r.scale) =>
         LET e == quant_scale_exponents(op.width, op.frac, op.mul)
         IN e.lo <= op.r.scale.e /\ op.r.scale.e <= e.hi /\ Fits8(op.r.scale.e)

\* Twice the distance of y * 2^s from p, s split in two.
Twice(p, y, s) == 2 * AbsOf(p - y * 2 ^ s)

(* One rounding is left of a result: a GEMV output that did not saturate,    *)
(* its second shift at least a mantissa wide, is within one LSB of the exact *)
(* product; EMBED is its single rounding; no code of a vector leaves its     *)
(* width, and a narrow vector never clips.                                   *)
ResultsRounded ==
    /\ op.kind = "gemv" /\ op.valid /\ op.bias = 0 /\ op.old = 0 /\ op.one.sat = 0
       /\ ~IsZero(op.sw) /\ ~IsZero(op.sx) =>
         LET shift == requant_shift(op.sw, op.sx, op.sbias)
             t == op.acc * op.sw.m
         IN shift >= Mant /\ shift + op.s1 <= 24 =>
              AbsOf(t * op.sx.m - op.one.y * 2 ^ (shift + op.s1)) <= 2 ^ (shift + op.s1)
    /\ op.kind = "embed" /\ op.one.sat = 0 =>
         LET s == op.c.sbias - (op.sw.e + SFloatOne.e) - PreShift + Mant - (Mant - 1)
         IN s \in 1 .. 24 => op.one.y = round_shift(op.q * op.sw.m, s)
    /\ op.kind = "quant" => /\ op.width = Narrow => op.r.clip = 0
                            /\ \A i \in DOMAIN op.x : AbsOf(op.r.q[i]) <= Top(op.width)

(* The block forms the golden model uses are the scalar ones the simulator   *)
(* uses, in value and in the events counted, for a masked channel and for a  *)
(* row cut at any length.                                                    *)
RowsAreScalars ==
    /\ op.kind = "gemv" => op.rows = op.one
    /\ op.kind = "softmax" =>
         /\ op.rows.scale = op.one.scale
         /\ op.rows.w = [i \in 1 .. 3 |-> IF i <= op.len THEN op.one.w[i] ELSE 0]

(* Smoothing and centering change no score and no class overflows on what    *)
(* was recorded: the factors cancel in q . k for the KV head each query head *)
(* reads, and every folded value, before and after RoPE, keeps HEADROOM_BITS *)
(* bits of its class.                                                        *)
CalibrationFits ==
    stage = "report" =>
        \A s \in {tile_factors(report.factors)} :
          /\ \A q \in Elements(rec.q_rope), k \in Elements(rec.k_rope), h \in 1 .. Heads :
               LET g == 1 + (h - 1) \div NRep
               IN Product(Chunk(FoldQ(q, s), h), Chunk(FoldK(k, s), g))
                    = Product(Chunk(q, h), Chunk(k, g)) * 2 ^ (2 * SmoothCap)
          /\ \A x \in {FoldQ(q, s) : q \in rec.q_pre \cup Elements(rec.q_rope)}
                      \cup {FoldK(k, s) : k \in rec.k_pre \cup Elements(rec.k_rope)}
                      \cup {FoldK(Centered(k, report.k_center), s) : k \in Elements(rec.k_rope)} :
               absmax(Each(x, LAMBDA v : to_fixed(v, FineUnit, report.frac.QKV)))
                 <= 2 ^ (OutW - 1 - Headroom)
=============================================================================
