------------------------------ MODULE Compiler ------------------------------
(***************************************************************************)
(* The emitting half of sw/quettos/compiler.py: the decode and prefill     *)
(* programs with their dump plan, the static checks a program passes, and  *)
(* the traffic the layout promises.                                        *)
(***************************************************************************)
EXTENDS Layout

NoRange == [start |-> 0, count |-> 0]

-----------------------------------------------------------------------------
(* What a descriptor writes *)

Tracked(d) == IF d.track_absmax THEN {d.sreg_dst} ELSE {}

EffVsram(d) ==
    CASE d.op \in {"GEMV", "EMBED"} ->
            IF d.out_mode \in {"VSRAM", "VSRAM_DUMP"}
            THEN [start |-> d.vs_dst, count |-> IF d.op = "GEMV" THEN d.n ELSE d.k] ELSE NoRange
      [] d.op = "VROPE" -> [start |-> d.vs_src, count |-> d.n]
      [] d.op \in {"VRMSNORM", "VSILUMUL", "VQUANT", "VSOFTMAX", "VSUBC"} ->
            [start |-> d.vs_dst, count |-> d.n]
      [] OTHER -> NoRange

\* Fault: the scales of the groups after the first are left out.
EffSregSingle(d) ==
    CASE d.op \in {"VQUANT", "VSOFTMAX"} -> {d.sreg_dst}
      [] d.op \in {"GEMV", "EMBED", "VRMSNORM", "VSILUMUL"} -> Tracked(d)
      [] OTHER -> {}

EffSreg(d) ==
    CASE d.op = "VQUANT" -> d.sreg_dst .. d.sreg_dst + VquantScales(d) - 1
      [] d.op = "VSOFTMAX" -> {d.sreg_dst}
      [] d.op \in {"GEMV", "EMBED", "VRMSNORM", "VSILUMUL"} -> Tracked(d)
      [] OTHER -> {}

PosDependent(d) ==
    \/ d.op = "GEMV" /\ d.n_from_pos
    \/ d.op = "VSOFTMAX" /\ d.len_from_pos
    \/ d.op = "KVWRITE"

-----------------------------------------------------------------------------
(* The static checks of compile *)

VectorSources(d) ==
    CASE d.op = "VSILUMUL" -> {d.vs_src, d.vs_aux}
      [] d.op \in {"VRMSNORM", "VQUANT", "VSOFTMAX", "VSUBC"} -> {d.vs_src}
      [] OTHER -> {}

\* vector_overlap: in one bank a source is the destination or misses it.
VectorOverlap(d) ==
    /\ d.src_row = d.dst_row
    /\ \E s \in VectorSources(d) :
          s # d.vs_dst /\ s < d.vs_dst + d.n /\ d.vs_dst < s + d.n

ReadsSreg(d) ==
    d.op \in {"GEMV", "KVWRITE"} \/ (d.op = "VQUANT" /\ "USE_TRACKED" \in d.flags)

\* sreg_range: every index a descriptor reads or writes is in the file.
SregRangeOk(d) ==
    /\ ReadsSreg(d) => d.sreg_src < SregCount
    /\ EffSreg(d) \subseteq 0 .. SregCount - 1

Aligned(d) == d.op \in {"GEMV", "EMBED"} => d.vs_dst % WordElems = 0

-----------------------------------------------------------------------------
(* The emitter *)

Step(d, name, layer, head, mem, csr) ==
    [d |-> d,
     entry |-> [op |-> d.op, name |-> name, layer |-> layer, head |-> head,
                vsram |-> EffVsram(d), sreg |-> EffSreg(d), mem |-> mem, csr |-> csr,
                pos_dependent |-> PosDependent(d)]]

Emit(d, name, layer) == <<Step(d, name, layer, -1, {}, {})>>

\* _Ctx: the shape with its maps.
Ctx(m) == [m |-> m, reg |-> RegionsOf(m), vs |-> VsramMap(m).start, sr |-> SregMap(m)]

Addr(c, what, layer, head) == c.reg[<<what, layer, head>>].addr

\* _emit_norm_quant: RMSNorm of X into XN, then XN quantised into A by its absmax.
NormQuant(c, gamma, layer, eps, norm, vq, at) ==
    Emit(vrmsnorm([vs_src |-> c.vs["X"], vs_dst |-> c.vs["XN"], n |-> c.m.hidden,
                   addr_a |-> Addr(c, gamma, layer, 0), par |-> eps, sh |-> "X",
                   sreg_dst |-> c.sr.absmax]), norm, at)
    \o Emit(vquant([vs_src |-> c.vs["XN"], vs_dst |-> c.vs["A"], n |-> c.m.hidden, sh |-> "X",
                    sreg_dst |-> c.sr.a, sreg_src |-> c.sr.absmax], 16, TRUE, 0), vq, at)

\* gemv of a weight matrix of layer i.
WeightGemv(c, lin, cls, i, f) ==
    gemv(f @@ [addr_a |-> Addr(c, lin, i, 0), addr_m |-> Addr(c, MetaOf[lin], i, 0),
               n |-> Channels(c.m, lin), k |-> Depth(c.m, lin), sh |-> cls])

QAt(c) == c.vs["QKV"]
KAt(c) == QAt(c) + HD(c.m)
VAt(c) == KAt(c) + KVD(c.m)

\* The QKV product, RoPE of q and k together, and the three quantisations.
EmitQkv(c, i) ==
    NormQuant(c, "gamma_in", i, "input", "rmsnorm_in", "quant_in", i)
    \o Emit(WeightGemv(c, "wqkv", "qkv", i,
                [vs_src |-> c.vs["A"], vs_dst |-> QAt(c), sreg_src |-> c.sr.a]), "gemv_qkv", i)
    \o Emit(vrope([vs_src |-> QAt(c), n |-> HD(c.m) + KVD(c.m),
                   addr_a |-> Addr(c, "rope", 0, 0)]), "rope", i)
    \o Emit(vquant([vs_src |-> QAt(c), vs_dst |-> QAt(c), n |-> HD(c.m), sh |-> "QKV",
                    sreg_dst |-> c.sr.q0, par |-> "log2e_over_8"], 16, FALSE, HeadDim), "quant_q", i)
    \o Emit(vsubc([vs_src |-> KAt(c), vs_dst |-> KAt(c), n |-> KVD(c.m),
                   addr_a |-> Addr(c, "kcenter", i, 0)]), "subc_k", i)
    \o Emit(vquant([vs_src |-> KAt(c), vs_dst |-> KAt(c), n |-> KVD(c.m), sh |-> "QKV",
                    sreg_dst |-> c.sr.k0], 8, FALSE, HeadDim), "quant_k", i)
    \o Emit(vquant([vs_src |-> VAt(c), vs_dst |-> VAt(c), n |-> KVD(c.m), sh |-> "QKV",
                    sreg_dst |-> c.sr.v0], 8, FALSE, HeadDim), "quant_v", i)

KvStep(c, i, g, from, sreg, data, meta, name) ==
    Step(kvwrite([vs_src |-> from + g * HeadDim, addr_a |-> Addr(c, data, i, g),
                  addr_m |-> Addr(c, meta, i, g), sreg_src |-> sreg + g],
                 data = "kt", c.m.ctx),
         name, i, g, {<<data, i, g>>, <<meta, i, g>>}, {})

EmitKvWrites(c, i) ==
    Concat([j \in 1 .. c.m.kv |->
        <<KvStep(c, i, j - 1, KAt(c), c.sr.k0, "kt", "k_meta", "kvwrite_k"),
          KvStep(c, i, j - 1, VAt(c), c.sr.v0, "v", "v_meta", "kvwrite_v")>>])

\* Fault: query head h reads the cache of KV head h % kv, not h / n_rep.
GroupOfInterleaved(m, h) == h % m.kv

GroupOf(m, h) == h \div (m.heads \div m.kv)

\* Scores, softmax and the product with V for query head h.
EmitHead(c, i, h) ==
    LET g == GroupOf(c.m, h)
    IN <<Step(gemv([addr_a |-> Addr(c, "kt", i, g), addr_m |-> Addr(c, "k_meta", i, g),
                    n |-> c.m.ctx, k |-> HeadDim, vs_src |-> QAt(c) + h * HeadDim,
                    vs_dst |-> c.vs["S"], sreg_src |-> c.sr.q0 + h, sh |-> "scores",
                    n_from_pos |-> TRUE]), "gemv_scores", i, h, {}, {}),
         Step(vsoftmax([vs_src |-> c.vs["S"], vs_dst |-> c.vs["W"], n |-> c.m.ctx, sh |-> "S",
                        addr_a |-> Addr(c, "v_meta", i, g), sreg_dst |-> c.sr.w]),
              "softmax", i, h, {}, {}),
         Step(gemv([addr_a |-> Addr(c, "v", i, g), n |-> HeadDim, k |-> c.m.ctx,
                    vs_src |-> c.vs["W"], vs_dst |-> c.vs["CTX"] + h * HeadDim,
                    sreg_src |-> c.sr.w, sh |-> "pv", unit_meta |-> TRUE,
                    k_from_pos |-> TRUE]), "gemv_pv", i, h, {}, {})>>

EmitOut(c, i) ==
    Emit(vquant([vs_src |-> c.vs["CTX"], vs_dst |-> c.vs["CTXQ"], n |-> HD(c.m), sh |-> "CTX",
                 sreg_dst |-> c.sr.ctx], 16, FALSE, 0), "quant_ctx", i)
    \o Emit(WeightGemv(c, "wo", "o", i,
                [vs_src |-> c.vs["CTXQ"], vs_dst |-> c.vs["X"], sreg_src |-> c.sr.ctx,
                 accumulate |-> TRUE]), "gemv_o", i)

EmitMlp(c, i) ==
    NormQuant(c, "gamma_post", i, "post", "rmsnorm_post", "quant_post", i)
    \o Emit(WeightGemv(c, "wgu", "gu", i,
                [vs_src |-> c.vs["A"], vs_dst |-> c.vs["GU"], sreg_src |-> c.sr.a]), "gemv_gu", i)
    \o Emit(vsilumul([vs_src |-> c.vs["GU"], vs_aux |-> c.vs["GU"] + c.m.inter,
                      vs_dst |-> c.vs["HQ"], n |-> c.m.inter, sh |-> "GU",
                      sreg_dst |-> c.sr.absmax]), "silu_mul", i)
    \o Emit(vquant([vs_src |-> c.vs["HQ"], vs_dst |-> c.vs["HQ"], n |-> c.m.inter, sh |-> "H",
                    sreg_dst |-> c.sr.h, sreg_src |-> c.sr.absmax], 16, TRUE, 0), "quant_h", i)
    \o Emit(WeightGemv(c, "wdown", "down", i,
                [vs_src |-> c.vs["HQ"], vs_dst |-> c.vs["X"], sreg_src |-> c.sr.h,
                 accumulate |-> TRUE]), "gemv_down", i)

EmitLayer(c, i) ==
    EmitQkv(c, i) \o EmitKvWrites(c, i)
    \o Concat([h \in 1 .. c.m.heads |-> EmitHead(c, i, h - 1)])
    \o EmitOut(c, i) \o EmitMlp(c, i)

\* build_programs: EMBED and the layers, then for decode the LM head, then HALT.
Body(c) ==
    Emit(embed([addr_a |-> Addr(c, "embed", 0, 0), addr_m |-> Addr(c, "embed.meta", 0, 0),
                k |-> c.m.hidden, vs_dst |-> c.vs["X"], sh |-> "embed"]), "embed", -1)
    \o Concat([i \in 1 .. c.m.layers |-> EmitLayer(c, i - 1)])

LmHead(c) ==
    Step(WeightGemv(c, "embed", "lm_head", 0,
            [vs_src |-> c.vs["A"], sreg_src |-> c.sr.a, out_mode |-> "ARGMAX"]),
         "gemv_lm_head", -1, -1, {}, {"ARGMAX_TOK", "ARGMAX_VAL"})

BuildPrograms(m) ==
    LET end == Emit(halt, "halt", -1)
    IN With(Ctx(m), LAMBDA c :
          [decode |-> Body(c) \o NormQuant(c, "gamma_final", 0, "final", "rmsnorm_final", "quant_final", -1)
                              \o <<LmHead(c)>> \o end,
           prefill |-> Body(c) \o end])

\* descriptor_counts
DescriptorCount(m, prog) ==
    1 + m.layers * (16 + 2 * m.kv + 3 * m.heads) + (IF prog = "decode" THEN 4 ELSE 1)

-----------------------------------------------------------------------------
(* compile: programs below the tables, the rest above, everything checked *)

ProgRegions(ps) ==
    Place(0, <<Item("prog.decode", 0, 0, Len(ps.decode) * DescBytes, "program"),
               Item("prog.prefill", 0, 0, Len(ps.prefill) * DescBytes, "program")>>).regions

Fits(m, ps) ==
    /\ \A s \in {ps.decode[i] : i \in DOMAIN ps.decode} \cup {ps.prefill[i] : i \in DOMAIN ps.prefill} :
          Buildable(s.d) /\ Aligned(s.d) /\ ~VectorOverlap(s.d) /\ SregRangeOk(s.d)
    /\ RegionEnd(ProgRegions(ps)[2]) <= RopeBase
    /\ \A rs \in {ProgRegions(ps) \o PlanRegions(m)} : ImageOk(rs)

Accepts(m) ==
    /\ ParamsOk(m) /\ VsramFits(m) /\ SregFits(m) /\ JumpsOk(m)
    /\ \A ps \in {BuildPrograms(m)} : Fits(m, ps)

\* The compiled model: its programs, its image, where the programs start, its regions.
Compile(m) ==
    With(BuildPrograms(m), LAMBDA ps :
    With(ProgRegions(ps) \o PlanRegions(m), LAMBDA rs :
        [decode |-> ps.decode, prefill |-> ps.prefill, image |-> Image(m, rs),
         pc |-> [decode |-> rs[1].addr, prefill |-> rs[2].addr], reg |-> RegionsOf(m)]))

\* build_bringup: the EMBED of decode into the LM head's input, the LM head dumping its
\* logits, HALT; behind prefill, the dump behind the program.
Bringup(m) ==
    With(BuildPrograms(m), LAMBDA ps :
        LET embed_d == ps.decode[1].d
            lm == ps.decode[Len(ps.decode) - 1].d
            addr == AlignUp(RegionEnd(ProgRegions(ps)[2]))
            dump == RoundUp(addr + 3 * DescBytes, DumpAlign)
        IN [addr |-> addr, dump |-> dump, sreg |-> lm.sreg_src,
            program |-> <<[embed_d EXCEPT !.vs_dst = lm.vs_src],
                          [lm EXCEPT !.out_mode = "ARGMAX_DUMP", !.imm = dump], halt>>])

-----------------------------------------------------------------------------
(* _traffic: what one token streams and multiplies *)

SizeOf(m, kind) ==
    LET mine(r) == r.kind = kind /\ r.name[1] \notin {"embed", "embed.meta"}
    IN With(PlanRegions(m), LAMBDA rs :
          Fold(LAMBDA sum, r : sum + (IF mine(r) THEN r.size ELSE 0), 0, rs))

\* Fault: the idle lanes of the last tile are not counted.
MacsOfChannels(m, lin) == Channels(m, lin) * Depth(m, lin)

MacsOf(m, lin) == TilesFor(Channels(m, lin), m.wb) * m.wb * Depth(m, lin)

Traffic(m, prog) ==
    LET head == IF prog = "decode" THEN 1 ELSE 0
        reg == RegionsOf(m)
        layer == MacsOf(m, "wqkv") + MacsOf(m, "wo") + MacsOf(m, "wgu") + MacsOf(m, "wdown")
    IN [wt_bytes |-> SizeOf(m, "weights") + SizeOf(m, "meta")
                     + head * (reg[<<"embed", 0, 0>>].size + reg[<<"embed.meta", 0, 0>>].size)
                     + m.hidden + MetaBytes,
        macs |-> m.layers * layer + head * MacsOf(m, "embed"),
        scores_macs_per_tile |-> HeadDim * m.wb,
        pv_macs_per_token |-> TilesFor(HeadDim, m.wb) * m.wb]
=============================================================================
