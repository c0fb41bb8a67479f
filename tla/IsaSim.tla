------------------------------- MODULE IsaSim -------------------------------
(***************************************************************************)
(* sw/quettos/isa_sim.py: the ISA simulator, one core with one row.  A      *)
(* descriptor is executed as an effect: what it writes to VSRAM, SREG, QMEM *)
(* and the CSRs, the bounds events it counts, whether it raises.  The rows  *)
(* of QMEM hold numbers; the descriptors are in text, by address.           *)
(***************************************************************************)
EXTENDS Compiler, Golden

VARIABLES
    shape,      \* the compiled model the machine was built for (wb, vsram_words)
    mem,        \* QMEM: address -> number
    vsram,      \* element -> number
    sreg,       \* register -> a scale or a tracked absmax
    csr,        \* TOK, POS, PC, ARGMAX_TOK, ARGMAX_VAL
    err_bounds, perf, argmax_out,
    status,     \* STATUS: "idle", "run", "halted" (STEP_HALTED), "done", "err", or a Python "raise"
    log         \* the writes of the last descriptor, by key

machine == <<shape, mem, vsram, sreg, csr, err_bounds, perf, argmax_out, status, log>>

Scale(v)     == [kind |-> "scale", v |-> v]
AbsMaxReg(v) == [kind |-> "absmax", v |-> v]
ScaleZero    == Scale(0)
NoCounts     == [DESCRIPTORS |-> 0, MACS |-> 0, WT_BYTES |-> 0]

Wb == shape.wb
VsramElems == shape.words * WordElems

-----------------------------------------------------------------------------
(* Reads *)

Readable(addr, count) == addr >= 0 /\ addr + count - 1 \in DOMAIN mem

\* read_i8, read_i16, read_i32: one number an element, stride as the layout has it.
Read(addr, count) == Seqn([i \in 1 .. count |-> mem[addr + i - 1]])
ReadMeta(addr, count) == Seqn([i \in 1 .. count |-> mem[addr + (i - 1) * MetaBytes]])

\* vs_read: elements past the end read 0 and count one event.
vs_read(start, count) ==
    [v |-> Seqn([i \in 1 .. count |-> IF start + i - 1 < VsramElems THEN vsram[start + i - 1] ELSE 0]),
     err |-> IF start + count > VsramElems THEN 1 ELSE 0]

\* act_i16: the low 16 bits of each element, sign-extended.
act_i16(v) == Seqn([i \in DOMAIN v |-> ((v[i] + 32768) % 65536) - 32768])

low8(v) == Seqn([i \in DOMAIN v |-> ((v[i] + 128) % 256) - 128])

\* sreg_scale, sreg_absmax: the value, an event past the end, an exception on the other kind.
sreg_get(index, kind) ==
    IF index >= SregCount THEN [v |-> 0, err |-> 1, raises |-> FALSE]
    ELSE [v |-> sreg[index].v, err |-> 0, raises |-> sreg[index].kind # kind]

-----------------------------------------------------------------------------
(* Fields derived from POS *)

Least(x, y) == IF x < y THEN x ELSE y
Over(want, cap) == IF want > cap THEN 1 ELSE 0

gemv_dims(d, pos, wb) ==
    [n |-> IF d.n_from_pos THEN Least(RoundUp(Least(pos + 1, d.n), wb), d.n) ELSE d.n,
     k |-> IF d.k_from_pos THEN Least(pos + 1, d.k) ELSE d.k,
     err |-> (IF d.n_from_pos THEN Over(pos + 1, d.n) ELSE 0)
             + (IF d.k_from_pos THEN Over(pos + 1, d.k) ELSE 0)]

\* softmax_len: clamped into 1 .. n, an event for either end.
softmax_len(d, pos) ==
    LET want == IF d.len_from_pos THEN pos + 1 ELSE d.imm
    IN IF want > d.n THEN [len |-> d.n, err |-> 1]
       ELSE IF want < 1 THEN [len |-> 1, err |-> 1] ELSE [len |-> want, err |-> 0]

\* Fault: the stride of a V tile is the tokens written so far, not the capacity.
kv_addresses_packed(d, pos, wb) ==
    [data |-> IF "TRANSPOSED" \in d.flags
              THEN [i \in 1 .. HeadDim |-> d.addr_a + (pos \div wb) * HeadDim * wb + (pos % wb) + (i - 1) * wb]
              ELSE [t \in 1 .. CeilDiv(HeadDim, wb) |-> d.addr_a + ((t - 1) * (pos + 1) + pos) * wb],
     meta |-> d.addr_m + pos * MetaBytes]

\* kv_addresses: one byte a dimension for K^T, one beat a tile for V, then the meta record.
kv_addresses(d, pos, wb) ==
    [data |-> IF "TRANSPOSED" \in d.flags
              THEN [i \in 1 .. HeadDim |-> d.addr_a + (pos \div wb) * HeadDim * wb + (pos % wb) + (i - 1) * wb]
              ELSE [t \in 1 .. CeilDiv(HeadDim, wb) |-> d.addr_a + ((t - 1) * d.k + pos) * wb],
     meta |-> d.addr_m + pos * MetaBytes]

-----------------------------------------------------------------------------
(* Effects *)

NoEffect == [vs |-> <<>>, sreg |-> <<>>, mem |-> <<>>, csr |-> <<>>, out |-> <<>>,
             err |-> 0, macs |-> 0, bytes |-> 0, raises |-> FALSE]

Raise == [NoEffect EXCEPT !.raises = TRUE]

VsWrite(start, v) == <<[start |-> start, v |-> v]>>
SregSet(index, r) == <<[index |-> index, r |-> r]>>
MemWrite(addr, v) == <<[addr |-> addr, v |-> v]>>

Pad(v, n) == Seqn([i \in 1 .. n |-> IF i <= Len(v) THEN v[i] ELSE 0])
Tracking(d, v) == IF d.track_absmax THEN SregSet(d.sreg_dst, AbsMaxReg(absmax(v))) ELSE <<>>

\* _output: where a GEMV or EMBED result goes; a dumped element is four addresses.
Output(d, y, err) ==
    LET argmaxed == d.out_mode \in {"ARGMAX", "ARGMAX_DUMP"}
    IN [NoEffect EXCEPT
          !.vs = IF d.out_mode \in {"VSRAM", "VSRAM_DUMP"} THEN VsWrite(d.vs_dst, y) ELSE <<>>,
          !.csr = IF argmaxed THEN [ARGMAX_TOK |-> argmax(y), ARGMAX_VAL |-> MaxOf(y)] ELSE <<>>,
          !.out = IF argmaxed THEN y ELSE <<>>,
          !.mem = IF Dumps(d) THEN MemWrite(d.imm, Concat([i \in DOMAIN y |-> <<y[i], 0, 0, 0>>]))
                  ELSE <<>>,
          !.sreg = Tracking(d, y),
          !.err = err]

\* _requant: accumulate adds what the destination held.
Requanted(d, acc, meta, sx) ==
    LET old == IF d.accumulate THEN vs_read(d.vs_dst, Len(acc)) ELSE [v |-> Pad(<<>>, Len(acc)), err |-> 0]
    IN [y |-> Seqn([n \in DOMAIN acc |-> requant(d.sh, acc[n], meta[n], sx, old.v[n])]), err |-> old.err]

\* _stream_gemv: tile t starts at addr + t * k_cap * Wb and k beats of it are streamed.
StreamGemv(addr, n, k, k_cap, a) ==
    LET at(c, b) == addr + ((c \div Wb) * k_cap + b) * Wb + (c % Wb)
    IN Seqn([c \in 1 .. n |-> Dot(a, [b \in 1 .. k |-> mem[at(c - 1, b - 1)]])])

GemvEffect(d) ==
    LET dim == gemv_dims(d, csr.POS, Wb)
        tiles == CeilDiv(dim.n, Wb)
        a == vs_read(d.vs_src, dim.k)
        sx == sreg_get(d.sreg_src, "scale")
        meta == IF d.unit_meta THEN [c \in 1 .. dim.n |-> 8 * One] ELSE ReadMeta(d.addr_m, dim.n)
        r == Requanted(d, StreamGemv(d.addr_a, dim.n, dim.k, d.k, act_i16(a.v)), meta, sx.v)
        streamed == tiles * dim.k * Wb + (IF d.unit_meta THEN 0 ELSE tiles * Wb * MetaBytes)
    IN IF dim.n = 0 \/ dim.k = 0 THEN [NoEffect EXCEPT !.err = dim.err]
       ELSE IF \/ ~Readable(d.addr_a, ((tiles - 1) * d.k + dim.k) * Wb)
               \/ ~d.unit_meta /\ ~Readable(d.addr_m, dim.n * MetaBytes)
               \/ sx.raises
            THEN Raise
       ELSE [With(r, LAMBDA q : Output(d, q.y, dim.err + a.err + sx.err + q.err)) EXCEPT
               !.macs = tiles * Wb * dim.k,
               !.bytes = IF d.n_from_pos \/ d.k_from_pos THEN 0 ELSE streamed]

\* EMBED gathers channel TOK, one number a beat, and its scale without the bias.
EmbedEffect(d) ==
    LET base == d.addr_a + (csr.TOK \div Wb) * d.k * Wb + (csr.TOK % Wb)
        meta == 8 * MetaScale(mem[d.addr_m + csr.TOK * MetaBytes])
        r == Requanted(d, [i \in 1 .. d.k |-> mem[base + (i - 1) * Wb]],
                       [i \in 1 .. d.k |-> meta], One)
    IN IF d.k = 0 THEN NoEffect
       ELSE IF ~Readable(base, (d.k - 1) * Wb + 1) \/ ~Readable(d.addr_m + csr.TOK * MetaBytes, 1)
            THEN Raise
       ELSE [With(r, LAMBDA q : Output(d, q.y, q.err)) EXCEPT !.bytes = d.k + MetaBytes]

-----------------------------------------------------------------------------
(* Vector operations *)

VrmsnormEffect(d) ==
    LET x == vs_read(d.vs_src, d.n)
        y == rmsnorm(x.v, Read(d.addr_a, d.n), d.par, d.sh)
    IN [NoEffect EXCEPT !.vs = VsWrite(d.vs_dst, y), !.sreg = Tracking(d, y), !.err = x.err]

VquantEffect(d) ==
    LET x == vs_read(d.vs_src, d.n)
        width == IF "W8" \in d.flags THEN 8 ELSE 16
        tracked == "USE_TRACKED" \in d.flags
        reg == sreg_get(d.sreg_src, "absmax")
        gs == quant_groups(x.v, d.vs_aux, width, d.sh, d.par)
        one == quant(x.v, width, d.sh, d.par, IF tracked THEN reg.v ELSE absmax(x.v))
    IN IF (tracked /\ reg.raises) \/ (tracked /\ "GROUP" \in d.flags) THEN Raise
       ELSE IF "GROUP" \in d.flags
            THEN [NoEffect EXCEPT !.vs = VsWrite(d.vs_dst, gs.q), !.err = x.err,
                    !.sreg = [g \in DOMAIN gs.scales |->
                                [index |-> d.sreg_dst + g - 1, r |-> Scale(gs.scales[g])]]]
       ELSE [NoEffect EXCEPT !.vs = VsWrite(d.vs_dst, one.q),
               !.sreg = SregSet(d.sreg_dst, Scale(one.scale)),
               !.err = x.err + (IF tracked THEN reg.err ELSE 0)]

\* VROPE is in place, by the row of POS.
VropeEffect(d) ==
    LET x == vs_read(d.vs_src, d.n)
        row == d.addr_a + csr.POS * RopeRowBytes
    IN IF ~Readable(row, RopeRowBytes) THEN Raise
       ELSE [NoEffect EXCEPT !.vs = VsWrite(d.vs_src, rope(x.v, mem[row], HeadDim)), !.err = x.err]

VsilumulEffect(d) ==
    LET g == vs_read(d.vs_src, d.n)
        u == vs_read(d.vs_aux, d.n)
        y == silu_mul(g.v, u.v)
    IN [NoEffect EXCEPT !.vs = VsWrite(d.vs_dst, y), !.sreg = Tracking(d, y), !.err = g.err + u.err]

\* VSOFTMAX reads len scores and zero-fills to n.
VsoftmaxEffect(d) ==
    LET l == softmax_len(d, csr.POS)
        s == vs_read(d.vs_src, l.len)
        w == softmax(s.v, [i \in 1 .. l.len |-> MetaScale(mem[d.addr_a + (i - 1) * MetaBytes])])
    IN IF ~Readable(d.addr_a, l.len * MetaBytes) THEN Raise
       ELSE [NoEffect EXCEPT !.vs = VsWrite(d.vs_dst, Pad(w.w, d.n)),
               !.sreg = SregSet(d.sreg_dst, Scale(w.scale)), !.err = l.err + s.err]

VsubcEffect(d) ==
    LET x == vs_read(d.vs_src, d.n)
    IN [NoEffect EXCEPT !.vs = VsWrite(d.vs_dst, subc(x.v, Read(d.addr_a, d.n))), !.err = x.err]

\* KVWRITE: nothing at or past the capacity; otherwise the low bytes and the scale.
KvwriteEffect(d) ==
    LET x == vs_read(d.vs_src, HeadDim)
        v == low8(x.v)
        at == kv_addresses(d, csr.POS, Wb)
        s == sreg_get(d.sreg_src, "scale")
        transposed == "TRANSPOSED" \in d.flags
        beat(t) == Pad(SubSeq(v, (t - 1) * Wb + 1, Least(t * Wb, HeadDim)), Wb)
        data == [i \in DOMAIN at.data |->
                    [addr |-> at.data[i], v |-> IF transposed THEN <<v[i]>> ELSE beat(i)]]
        record == MemWrite(at.meta, Pad(<<8 * s.v>>, MetaBytes))
    IN IF csr.POS >= d.k THEN [NoEffect EXCEPT !.err = 1]
       ELSE IF \E i \in DOMAIN data : ~Readable(data[i].addr, Len(data[i].v)) THEN Raise
       ELSE [NoEffect EXCEPT !.mem = data \o (IF s.raises THEN <<>> ELSE record),
               !.err = x.err + s.err, !.raises = s.raises]

\* rows: the enabled rows of row_mask; without one the descriptor retires as a NOP.
RowsEnabled == {0}
rows(d) == d.row_mask \cap RowsEnabled

Effect(d) ==
    CASE rows(d) = {} -> NoEffect
      [] d.op = "GEMV" -> GemvEffect(d)
      [] d.op = "EMBED" -> EmbedEffect(d)
      [] d.op = "VRMSNORM" -> VrmsnormEffect(d)
      [] d.op = "VQUANT" -> VquantEffect(d)
      [] d.op = "VROPE" -> VropeEffect(d)
      [] d.op = "VSILUMUL" -> VsilumulEffect(d)
      [] d.op = "VSOFTMAX" -> VsoftmaxEffect(d)
      [] d.op = "VSUBC" -> VsubcEffect(d)
      [] d.op = "KVWRITE" -> KvwriteEffect(d)
      [] OTHER -> NoEffect

-----------------------------------------------------------------------------
(* What a write leaves, and its key in the log *)

\* vs_write and sreg_set drop what lies past the end and count it.
Dropped(e) ==
    Cardinality({i \in DOMAIN e.vs : e.vs[i].start + Len(e.vs[i].v) > VsramElems})
    + Cardinality({i \in DOMAIN e.sreg : e.sreg[i].index >= SregCount})

WriteVsram(e) ==
    IF e.vs = <<>> THEN vsram
    ELSE LET w == e.vs[1]
         IN [a \in DOMAIN vsram |->
                IF a - w.start + 1 \in DOMAIN w.v THEN w.v[a - w.start + 1] ELSE vsram[a]]

WriteSreg(e) ==
    [i \in DOMAIN sreg |->
        IF \E j \in DOMAIN e.sreg : e.sreg[j].index = i
        THEN e.sreg[CHOOSE j \in DOMAIN e.sreg : e.sreg[j].index = i].r ELSE sreg[i]]

WriteMem(e) ==
    LET cells == [i \in DOMAIN e.mem |->
                    [a \in e.mem[i].addr .. e.mem[i].addr + Len(e.mem[i].v) - 1 |->
                        e.mem[i].v[a - e.mem[i].addr + 1]]]
    IN Fold(LAMBDA acc, c : c @@ acc, mem, Seqn(cells))

Keys(e) ==
    {<<"vsram", e.vs[i].start, Least(Len(e.vs[i].v), VsramElems - e.vs[i].start)>> : i \in DOMAIN e.vs}
    \cup {<<"sreg", e.sreg[i].index, 1>> : i \in {j \in DOMAIN e.sreg : e.sreg[j].index < SregCount}}
    \cup {<<"mem", e.mem[i].addr, Len(e.mem[i].v)>> : i \in DOMAIN e.mem}
    \cup {<<"csr", n, 1>> : n \in DOMAIN e.csr}

-----------------------------------------------------------------------------
(* One descriptor *)

\* execute, then _retire: PC on the next descriptor, one more counted.
Apply(d, e) ==
    /\ mem' = WriteMem(e) /\ vsram' = WriteVsram(e) /\ sreg' = WriteSreg(e)
    /\ csr' = e.csr @@ [csr EXCEPT !.PC = IF e.raises THEN @ ELSE @ + DescBytes]
    /\ argmax_out' = IF e.out = <<>> THEN argmax_out ELSE e.out
    /\ err_bounds' = err_bounds + e.err + Dropped(e)
    /\ perf' = [DESCRIPTORS |-> perf.DESCRIPTORS + (IF e.raises THEN 0 ELSE 1),
                MACS |-> perf.MACS + e.macs, WT_BYTES |-> perf.WT_BYTES + e.bytes]
    /\ log' = Keys(e)
    /\ status' = IF e.raises THEN "raise" ELSE IF d.op = "HALT" THEN "done" ELSE status
    /\ UNCHANGED shape

Execute(d) == \E e \in {Effect(d)} : Apply(d, e)

\* fault: nothing executes, PC keeps the address of the descriptor.
Fault ==
    /\ status' = "err"
    /\ log' = {}
    /\ UNCHANGED <<shape, mem, vsram, sreg, csr, err_bounds, perf, argmax_out>>

\* run_program, one descriptor; an unknown opcode or a class outside its window stops it.
RunOne(d) == IF ~IsOpcode(d.op) \/ ClassFault(d) THEN Fault ELSE Execute(d)

\* run_token: TOK and POS, then start clears the counters and the status.
RunToken(tok, pos, pc) ==
    /\ csr' = [csr EXCEPT !.TOK = tok, !.POS = pos, !.PC = pc]
    /\ status' = "run"
    /\ err_bounds' = 0 /\ perf' = NoCounts /\ argmax_out' = <<>> /\ log' = {}
    /\ UNCHANGED <<shape, mem, vsram, sreg>>

-----------------------------------------------------------------------------
(* written_ranges: the keys a descriptor writes at a position, from its fields *)

written_ranges(d, pos, wb) ==
    LET dim == IF d.op = "GEMV" THEN gemv_dims(d, pos, wb) ELSE [n |-> d.k, k |-> d.k]
        tracked == {<<"sreg", d.sreg_dst, 1>> : t \in {x \in {1} : d.track_absmax}}
        dst == <<"vsram", d.vs_dst, d.n>>
        at == kv_addresses(d, pos, wb)
        bytes == IF "TRANSPOSED" \in d.flags THEN 1 ELSE wb
    IN CASE d.op \in {"GEMV", "EMBED"} ->
              IF dim.n = 0 \/ dim.k = 0 THEN {}
              ELSE tracked
                   \cup (IF d.out_mode \in {"VSRAM", "VSRAM_DUMP"} THEN {<<"vsram", d.vs_dst, dim.n>>} ELSE {})
                   \cup (IF d.out_mode \in {"ARGMAX", "ARGMAX_DUMP"}
                         THEN {<<"csr", "ARGMAX_TOK", 1>>, <<"csr", "ARGMAX_VAL", 1>>} ELSE {})
                   \cup (IF Dumps(d) THEN {<<"mem", d.imm, 4 * dim.n>>} ELSE {})
         [] d.op \in {"VRMSNORM", "VSILUMUL"} -> {dst} \cup tracked
         [] d.op = "VQUANT" ->
              {dst} \cup {<<"sreg", d.sreg_dst + g, 1>> :
                            g \in 0 .. (IF "GROUP" \in d.flags THEN d.n \div d.vs_aux ELSE 1) - 1}
         [] d.op = "VROPE" -> {<<"vsram", d.vs_src, d.n>>}
         [] d.op = "VSOFTMAX" -> {dst, <<"sreg", d.sreg_dst, 1>>}
         [] d.op = "VSUBC" -> {dst}
         [] d.op = "KVWRITE" /\ pos < d.k ->
              {<<"mem", at.data[i], bytes>> : i \in DOMAIN at.data} \cup {<<"mem", at.meta, MetaBytes>>}
         [] OTHER -> {}
=============================================================================
