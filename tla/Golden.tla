------------------------------- MODULE Golden -------------------------------
(***************************************************************************)
(* sw/quettos/golden.py: the model as matrices, one token at a time over a  *)
(* K/V cache, with no address, tile or register.  Its trace is what every   *)
(* descriptor of a compiled program is compared with.                       *)
(***************************************************************************)
EXTENDS Layout

\* What the checkpoint holds: one number per named datum.
Names == [zero |-> 0, wqkv |-> 1, wo |-> 2, wgu |-> 3, wdown |-> 4, embed |-> 5, rope |-> 6,
          kcenter |-> 7, gamma_in |-> 8, gamma_post |-> 9, gamma_final |-> 10]
Metas == [x \in {MetaOf[l] : l \in DOMAIN MetaOf} |-> 20 + Len(x)]

Value(atom) ==
    IF atom = Zero THEN 0
    ELSE IF atom[1] \in DOMAIN Metas
         THEN 8 * ScaleOf(Mix(<<Metas[atom[1]], atom[2], atom[3]>>))
              + (IF atom[1] = "wqkv.meta" THEN 1 + (atom[3] % 7) ELSE 0)
    ELSE Weight(atom, Names)

Datum(what, i, j, k) == Value(<<what, i, j, k>>)
Row(what, i, n, len) == Seqn([k \in 1 .. len |-> Datum(what, i, n, k - 1)])
List(what, i, len)   == Seqn([k \in 1 .. len |-> Datum(what, i, k - 1, 0)])

-----------------------------------------------------------------------------
(* The cache: layer, then position, then KV head; positions below length are *)
(* written.                                                                  *)

EmptyRow(m) == [k |-> [g \in 1 .. m.kv |-> <<>>], v |-> [g \in 1 .. m.kv |-> <<>>],
                sk |-> [g \in 1 .. m.kv |-> 0], sv |-> [g \in 1 .. m.kv |-> 0]]

new_cache(m) == [row |-> [i \in 0 .. m.layers - 1 |-> [p \in 0 .. m.ctx - 1 |-> EmptyRow(m)]],
                 length |-> 0]

StepAllowed(m, cache, tok, pos) ==
    pos \in 0 .. m.ctx - 1 /\ pos <= cache.length /\ tok \in 0 .. m.vocab - 1

-----------------------------------------------------------------------------
(* The operations of step in the order they are traced.  t is the trace so   *)
(* far, <<operation, layer, head>> -> its values v and scales s; layer and    *)
(* head are -1 where there is none.                                           *)

Traced(v, s) == [v |-> v, s |-> s]
Values(v)    == Traced(v, <<>>)
Quantised(q) == Traced(q.q, <<q.scale>>)
Groups(q)    == Traced(q.q, q.scales)

NoOld(n) == Seqn([i \in 1 .. n |-> 0])

\* _gemv_requant: all channels of a weight matrix of layer i.
gemv_requant(m, lin, cls, i, a, old) ==
    Values(Seqn([n \in 1 .. Channels(m, lin) |->
        requant(cls, Dot(a.v, Row(lin, i, n - 1, Depth(m, lin))), Datum(MetaOf[lin], i, n - 1, 0),
                a.s[1], old[n])]))

\* The residual stream a layer starts from, and after its attention.
XIn(t, i)  == IF i = 0 THEN t[<<"embed", -1, -1>>].v ELSE t[<<"gemv_down", i - 1, -1>>].v
XMid(t, i) == t[<<"gemv_o", i, -1>>].v

normed(m, x, gamma, i, eps) == Values(rmsnorm(x, List(gamma, i, m.hidden), eps, "X"))
quantised(x, cls) == Quantised(quant(x, 16, cls, "none", absmax(x)))

\* K, V and their scales at position p: of this token, or of the cache.
KeyOf(cache, t, pos, i, g, p) ==
    LET q == t[<<"quant_k", i, -1>>]
    IN IF p = pos THEN [v |-> Chunk(q.v, g, HeadDim), s |-> q.s[g]]
       ELSE [v |-> cache.row[i][p].k[g], s |-> cache.row[i][p].sk[g]]
ValueOf(cache, t, pos, i, g, p) ==
    LET q == t[<<"quant_v", i, -1>>]
    IN IF p = pos THEN [v |-> Chunk(q.v, g, HeadDim), s |-> q.s[g]]
       ELSE [v |-> cache.row[i][p].v[g], s |-> cache.row[i][p].sv[g]]

\* _attention, for query head h + 1 over the positions 0 .. pos of its KV head.
group(m, h) == 1 + h \div (m.heads \div m.kv)

scores(m, cache, pos, i, h, t) ==
    LET q == t[<<"quant_q", i, -1>>]
        key(p) == KeyOf(cache, t, pos, i, group(m, h), p)
    IN Seqn([p \in 1 .. pos + 1 |->
          requant("scores", Dot(Chunk(q.v, h + 1, HeadDim), key(p - 1).v), 8 * key(p - 1).s,
                  q.s[h + 1], 0)])

weights(m, cache, pos, i, h, t) ==
    LET w == softmax(t[<<"gemv_scores", i, h>>].v,
                     Seqn([p \in 1 .. pos + 1 |-> ValueOf(cache, t, pos, i, group(m, h), p - 1).s]))
    IN Traced(w.w, <<w.scale>>)

context(m, cache, pos, i, h, t) ==
    LET w == t[<<"softmax", i, h>>]
        column(d) == Seqn([p \in 1 .. pos + 1 |-> ValueOf(cache, t, pos, i, group(m, h), p - 1).v[d]])
    IN Seqn([d \in 1 .. HeadDim |-> requant("pv", Dot(w.v, column(d)), 8 * One, w.s[1], 0)])

embedded(m, tok) ==
    LET meta == Datum("embed.meta", 0, tok, 0)
    IN Seqn([k \in 1 .. m.hidden |->
          requant("embed", Datum("embed", 0, tok, k - 1), 8 * MetaScale(meta), One, 0)])

\* _run_block and _layer: what the operation called name computes.
golden_op(m, cache, tok, pos, name, i, h, t) ==
    LET T(op) == t[<<op, i, -1>>]
        hd == HD(m)
        kvd == KVD(m)
        part(from, len) == SubSeq(T("gemv_qkv").v, from + 1, from + len)
        cs == Datum("rope", 0, pos, 0)
        roped == T("rope").v
    IN CASE name = "embed" -> Values(embedded(m, tok))
         [] name = "rmsnorm_in" -> normed(m, XIn(t, i), "gamma_in", i, "input")
         [] name = "quant_in" -> quantised(T("rmsnorm_in").v, "X")
         [] name = "gemv_qkv" -> gemv_requant(m, "wqkv", "qkv", i, T("quant_in"), NoOld(hd + 2 * kvd))
         [] name = "rope" -> Values(rope(part(0, hd), cs, HeadDim) \o rope(part(hd, kvd), cs, HeadDim))
         [] name = "quant_q" ->
              Groups(quant_groups(SubSeq(roped, 1, hd), HeadDim, 16, "QKV", "log2e_over_8"))
         [] name = "subc_k" -> Values(subc(SubSeq(roped, hd + 1, hd + kvd), List("kcenter", i, kvd)))
         [] name = "quant_k" -> Groups(quant_groups(T("subc_k").v, HeadDim, 8, "QKV", "none"))
         [] name = "quant_v" -> Groups(quant_groups(part(hd + kvd, kvd), HeadDim, 8, "QKV", "none"))
         [] name = "kvwrite_k" -> LET k == KeyOf(cache, t, pos, i, h + 1, pos) IN Traced(k.v, <<k.s>>)
         [] name = "kvwrite_v" -> LET v == ValueOf(cache, t, pos, i, h + 1, pos) IN Traced(v.v, <<v.s>>)
         [] name = "gemv_scores" -> Values(scores(m, cache, pos, i, h, t))
         [] name = "softmax" -> weights(m, cache, pos, i, h, t)
         [] name = "gemv_pv" -> Values(context(m, cache, pos, i, h, t))
         [] name = "quant_ctx" ->
              quantised(Concat(Seqn([j \in 1 .. m.heads |-> t[<<"gemv_pv", i, j - 1>>].v])), "CTX")
         [] name = "gemv_o" -> gemv_requant(m, "wo", "o", i, T("quant_ctx"), XIn(t, i))
         [] name = "rmsnorm_post" -> normed(m, XMid(t, i), "gamma_post", i, "post")
         [] name = "quant_post" -> quantised(T("rmsnorm_post").v, "X")
         [] name = "gemv_gu" -> gemv_requant(m, "wgu", "gu", i, T("quant_post"), NoOld(2 * m.inter))
         [] name = "silu_mul" ->
              LET gu == T("gemv_gu").v
              IN Values(silu_mul(SubSeq(gu, 1, m.inter), SubSeq(gu, m.inter + 1, 2 * m.inter)))
         [] name = "quant_h" -> quantised(T("silu_mul").v, "H")
         [] name = "gemv_down" -> gemv_requant(m, "wdown", "down", i, T("quant_h"), XMid(t, i))
         [] name = "rmsnorm_final" -> normed(m, XIn(t, m.layers), "gamma_final", 0, "final")
         [] name = "quant_final" -> quantised(T("rmsnorm_final").v, "X")
         [] name = "gemv_lm_head" ->
              gemv_requant(m, "embed", "lm_head", 0, T("quant_final"), NoOld(m.vocab))
         [] name = "halt" -> Values(<<>>)

\* What step leaves of the cache: the row of pos in every layer, truncated to it.
step_cache(m, cache, pos, t) ==
    LET parts(op, i) == Seqn([g \in 1 .. m.kv |-> t[<<op, i, g - 1>>].v])
        scale(op, i) == Seqn([g \in 1 .. m.kv |-> t[<<op, i, g - 1>>].s[1]])
    IN [row |-> [i \in DOMAIN cache.row |-> [cache.row[i] EXCEPT ![pos] =
                    [k |-> parts("kvwrite_k", i), sk |-> scale("kvwrite_k", i),
                     v |-> parts("kvwrite_v", i), sv |-> scale("kvwrite_v", i)]]],
        length |-> pos + 1]
=============================================================================
