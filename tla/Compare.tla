------------------------------ MODULE Compare ------------------------------
(***************************************************************************)
(* quettos.compare: four programs on the simulator and on the RTL, each     *)
(* descriptor recorded, every recorded value compared.  A machine is a      *)
(* function from places to values, one VSRAM bank, and a descriptor leaves  *)
(* a stamp of its inputs in the places it writes; what the values are is    *)
(* TokenRun's subject.                                                      *)
(***************************************************************************)
EXTENDS Integers, FiniteSets, Sequences, SequencesExt

CONSTANTS
    Vocab,      \* token ids are 0 .. Vocab - 1
    MaxCtx      \* positions of the KV cache of an image

Used == 2       \* VSRAM elements of the compiler's map: X, then A
Scratch == 2    \* the element behind them that the vector program writes

Csrs == {"PC", "STATUS", "ARGMAX_TOK", "ARGMAX_VAL"}
EVENTS == {"SAT_REQ", "SAT_VPU", "ERR_SHIFT", "ERR_BOUNDS"}
PERF_COMPARED == {"DESCRIPTORS", "MACS", "WT_BYTES"}
Named == Csrs \cup EVENTS \cup PERF_COMPARED

Reg(name) == <<"reg", name>>
Vsram(i) == <<"vsram", i>>
Sreg(i) == <<"sreg", i>>
Dump(i) == <<"dump", i>>       \* the logits behind the bring-up program
Kv(pos) == <<"kv", pos>>       \* what a KVWRITE stores of a position
Sregs == 0 .. 1
Places == {Reg(n) : n \in Named} \cup {Vsram(i) : i \in 0 .. Scratch} \cup {Sreg(i) : i \in Sregs}
          \cup {Dump(i) : i \in 0 .. 1} \cup {Kv(p) : p \in 0 .. MaxCtx - 1}

\* F of v, with v computed once, and the left fold that does so at every step.
With(v, F(_)) == CHOOSE r \in {F(x) : x \in {v}} : TRUE
Fold(op(_, _), base, s) ==
    LET acc[i \in 0 .. Len(s)] ==
          IF i = 0 THEN base ELSE With(acc[i - 1], LAMBDA a : op(a, s[i]))
    IN acc[Len(s)]

Layout(wb) == [wb |-> wb, max_ctx |-> MaxCtx]

-----------------------------------------------------------------------------
(* The programs *)

Desc(op, name, writes) == [op |-> op, name |-> name, writes |-> writes, dumps |-> FALSE, kv |-> FALSE]

\* decode.prog of a compiled model of one layer, by what each descriptor writes.
decode ==
    <<Desc("EMBED", "embed", {Vsram(0)}),
      Desc("VRMSNORM", "rmsnorm_in", {Vsram(1), Sreg(0)}),
      [Desc("KVWRITE", "kvwrite_k", {}) EXCEPT !.kv = TRUE],
      Desc("GEMV", "gemv_pv", {Vsram(1)}),
      Desc("VSILUMUL", "silu_mul", {Vsram(1), Reg("SAT_VPU")}),
      Desc("GEMV", "gemv_down", {Vsram(0), Sreg(1)}),
      Desc("GEMV", "gemv_lm_head", {Reg("ARGMAX_TOK"), Reg("ARGMAX_VAL")}),
      Desc("HALT", "halt", {Reg("STATUS")})>>

halt == Last(decode)

\* _lift: the first descriptor of decode.prog with this opcode.
_lift(op) == decode[CHOOSE i \in DOMAIN decode :
                        decode[i].op = op /\ \A j \in 1 .. i - 1 : decode[j].op # op]

lm_head == decode[CHOOSE i \in DOMAIN decode : decode[i].name = "gemv_lm_head"]

Case(program, passes, used, mem) ==
    [program |-> program, passes |-> passes, ranges |-> <<0, used>>, mem |-> mem]

DumpRegion == <<"dump", 0>>
\* _kv_region: its address and the order of its bytes are the port width's own.
_kv_region(layout) == <<"kv", layout.wb>>

bringup(layout, tok) ==
    Case(<<_lift("EMBED"), Desc("VQUANT", "quant", {Vsram(1), Sreg(0)}),
           [lm_head EXCEPT !.dumps = TRUE, !.writes = @ \cup {Dump(0), Dump(1)}], halt>>,
         <<<<tok, 0>>>>, Used, <<DumpRegion>>)

\* The scratch range is behind the compiler's map and compared with the rest.
vector_ops(layout, tok) ==
    Case(<<_lift("EMBED"), _lift("VRMSNORM"),
           Desc("VQUANT", "quant", {Vsram(1), Sreg(1)}),
           Desc("VSUBC", "subc", {Vsram(Scratch)}),
           Desc("VSILUMUL", "silu_mul", {Vsram(Scratch), Reg("SAT_VPU")}), halt>>,
         <<<<tok, 0>>>>, Scratch + 1, <<>>)

\* Both sides of every tile boundary a POS-derived extent steps over.
positions(max_ctx, wb) ==
    SetToSortSeq({p \in {0, 1, wb - 1, wb, wb + 1, max_ctx - 1} : 0 <= p /\ p < max_ctx}, <)

\* decode.prog up to a descriptor of the layer and a HALT, once per position.
_prefix(layout, tok, end) ==
    LET last == CHOOSE i \in DOMAIN decode : decode[i].name = end
        pos == positions(layout.max_ctx, layout.wb)
    IN Case(SubSeq(decode, 1, last) \o <<halt>>,
            [i \in DOMAIN pos |-> <<(tok + i - 1) % Vocab, pos[i]>>],
            Used, <<_kv_region(layout)>>)

attention(layout, tok) == _prefix(layout, tok, "gemv_pv")
layer(layout, tok) == _prefix(layout, tok, "gemv_down")

PROGRAMS == {"bringup", "vector", "attention", "layer"}
\* A run with an event fails unless its program is one of these.
EVENTFUL == {"vector", "attention", "layer"}
CaseOf(program, layout, tok) ==
    CASE program = "bringup" -> bringup(layout, tok)
      [] program = "vector" -> vector_ops(layout, tok)
      [] program = "attention" -> attention(layout, tok)
      [] program = "layer" -> layer(layout, tok)

-----------------------------------------------------------------------------
(* One case on one machine *)

PlacesOf(d, pos) == d.writes \cup IF d.kv THEN {Kv(pos)} ELSE {}

\* One descriptor: its outputs, PC, and the counters it moves.
Retire(m, d, k, tok, pos, wb) ==
    [p \in Places |->
        IF p \in PlacesOf(d, pos) THEN 1 + k + 10 * (tok + Vocab * pos)
        ELSE IF p = Reg("PC") THEN k
        ELSE IF p = Reg("DESCRIPTORS") THEN m[p] + 1
        ELSE IF d.op = "GEMV" /\ p \in {Reg("MACS"), Reg("WT_BYTES")} THEN m[p] + wb
        ELSE m[p]] @@ <<>>

\* What undefined storage holds at the start; the machine is otherwise reset.
Reset(start) == [p \in Places |-> IF p[1] \in {"vsram", "sreg"} THEN start ELSE 0]

\* _capture: what the host reads after a descriptor.
_capture(m, pass, pos, k, c) ==
    [pass |-> pass, pos |-> pos, index |-> k,
     reg |-> [n \in Named |-> m[Reg(n)]],
     vsram |-> [i \in 1 .. c.ranges[2] |-> m[Vsram(c.ranges[1] + i - 1)]],
     sreg |-> [i \in 1 .. 2 |-> m[Sreg(i - 1)]]]

ReadRegion(m, region) ==
    IF region = DumpRegion THEN [i \in 1 .. 2 |-> m[Dump(i - 1)]]
    ELSE [i \in 1 .. MaxCtx |-> m[Kv(i - 1)]]

NoFault == [pass |-> 0, index |-> 0, place |-> Reg("PC")]

\* The places this machine gets wrong at one descriptor of one pass.
Strike(m, fault, pass, k) ==
    IF fault.pass = pass /\ fault.index = k THEN [m EXCEPT ![fault.place] = @ + 1] ELSE m

\* reference, and run_rtl on a machine with a fault: one STEP per descriptor,
\* the memory regions read at the end of a pass, after the fence of its HALT.
RunCase(c, wb, start, fault) ==
    LET n == Len(c.program)
        steps == [i \in 1 .. n * Len(c.passes) |-> <<1 + ((i - 1) \div n), 1 + ((i - 1) % n)>>]
        Do(acc, s) ==
            LET tok == c.passes[s[1]][1]
                pos == c.passes[s[1]][2]
            IN With(Strike(Retire(acc.m, c.program[s[2]], s[2], tok, pos, wb), fault, s[1], s[2]), LAMBDA m :
                   [m |-> m,
                   records |-> Append(acc.records, _capture(m, s[1], pos, s[2], c)),
                   mem |-> IF s[2] < n THEN acc.mem
                           ELSE Append(acc.mem, [r \in DOMAIN c.mem |-> ReadRegion(m, c.mem[r])]),
                   states |-> Append(acc.states, m)])
    IN Fold(Do, [m |-> Reset(start), records |-> <<>>, mem |-> <<>>, states |-> <<>>], steps)

\* What a run hands to the comparison; its states are for the properties.
Observed(run) == [records |-> run.records, mem |-> run.mem]

-----------------------------------------------------------------------------
(* The comparison *)

\* The first index at which two sequences differ, or 0.
_first_difference(expected, got) ==
    LET m == {i \in 1 .. Len(expected) : i > Len(got) \/ expected[i] # got[i]}
    IN IF Len(expected) # Len(got) THEN 1 + IF Len(got) < Len(expected) THEN Len(got) ELSE Len(expected)
       ELSE IF m = {} THEN 0 ELSE CHOOSE i \in m : \A j \in m : i <= j

Mismatch(record, pos, what, element) ==
    [record |-> record, pos |-> pos, what |-> what, element |-> element]

\* The descriptor a region belongs to: the one that dumps to it, else the HALT.
_mem_owner(c, region) ==
    LET dumps == {k \in DOMAIN c.program : c.program[k].dumps /\ region = DumpRegion}
    IN IF dumps = {} THEN Len(c.program) ELSE CHOOSE k \in dumps : \A j \in dumps : k <= j

MemMismatches(c, ref_mem, got_mem) ==
    UNION {LET i == _first_difference(ref_mem[p][r], got_mem[p][r])
           IN IF i = 0 THEN {} ELSE {Mismatch(_mem_owner(c, c.mem[r]), c.passes[p][2], "memory", i)} :
           p \in DOMAIN ref_mem, r \in DOMAIN c.mem}

RecordMismatches(e, g) ==
    LET banks == {<<"VSRAM", _first_difference(e.vsram, g.vsram)>>,
                  <<"SREG", _first_difference(e.sreg, g.sreg)>>}
    IN IF <<e.pass, e.pos, e.index>> # <<g.pass, g.pos, g.index>>
       THEN {Mismatch(e.index, e.pos, "record order", 0)}
       ELSE {Mismatch(e.index, e.pos, n, 0) : n \in {x \in Named : e.reg[x] # g.reg[x]}}
            \cup {Mismatch(e.index, e.pos, b[1], b[2]) : b \in {x \in banks : x[2] # 0}}

\* Every difference between two runs, the first element of each named.
compare(ref, got, c) ==
    MemMismatches(c, ref.mem, got.mem) \cup
    IF Len(ref.records) # Len(got.records) THEN {Mismatch(0, -1, "record count", 0)}
    ELSE UNION {RecordMismatches(ref.records[i], got.records[i]) : i \in DOMAIN ref.records}

\* Fault: the timing settings are not held to each other.
check_image_last(c, ref, runs) ==
    [mismatches |-> compare(ref, Last(runs), c), determinism |-> {}]

\* check_image: the last timing against the simulator, the others against the first.
check_image(c, ref, runs) ==
    [mismatches |-> compare(ref, Last(runs), c),
     determinism |-> {i \in 2 .. Len(runs) : runs[i] # runs[1]}]

ResultOk(r) == r.mismatches = {} /\ r.determinism = {}

\* generate: the ids of both machines, and the recorded continuation of the
\* prompt cut to the run, which a run longer than it is held to as far as it goes.
Generated(reference, rtl, recorded) ==
    [ok |-> reference = rtl,
     expected_ok |-> LET n == IF Len(recorded) < Len(rtl) THEN Len(recorded) ELSE Len(rtl)
                     IN SubSeq(rtl, 1, n) = SubSeq(recorded, 1, n)]

-----------------------------------------------------------------------------
(* quettos.stepcmp: every descriptor of every token of the prefill/decode   *)
(* loop on both machines, held to its dump-plan entry.  isa_sim's own       *)
(* comparison with the golden model walks the same loop.                    *)

prefill == SelectSeq(decode, LAMBDA d : d.name # "gemv_lm_head")
Program(which) == IF which = "decode" THEN decode ELSE prefill

\* The dump-plan entry of a descriptor, and one a compiler left a write out of.
Entry(d, pos) == PlacesOf(d, pos)
GoodPlan == "whole"
PlanOf(plan, d, pos) == IF d.name = plan THEN {} ELSE Entry(d, pos)

\* check_plan: descriptors whose writes leave the entry.
check_plan(which, pos, plan) ==
    {k \in DOMAIN Program(which) :
        LET d == Program(which)[k] IN PlacesOf(d, pos) # PlanOf(plan, d, pos)}

\* capture: the state a dump-plan entry names.
capture(m, entry) == [p \in entry |-> m[p]]

\* Effects: what one descriptor left, as its entry names it, and the counters.
Effects(m, k, d, entry) ==
    [index |-> k, op |-> d.op, name |-> d.name, pc |-> m[Reg("PC")],
     state |-> capture(m, entry),
     perf |-> [n \in PERF_COMPARED |-> m[Reg(n)]],
     events |-> [n \in EVENTS |-> m[Reg(n)]]]

\* START zeroes the counters; one token, descriptor by descriptor.
record_token(m0, which, plan, tok, pos, wb, fault, t) ==
    LET Do(acc, k) ==
            LET d == Program(which)[k]
            IN With(Strike(Retire(acc.m, d, k, tok, pos, wb), fault, t, k), LAMBDA m :
                  [m |-> m, effects |-> Append(acc.effects, Effects(m, k, d, PlanOf(plan, d, pos))),
                   states |-> Append(acc.states, m)])
        started == [p \in Places |-> IF p \in {Reg(n) : n \in EVENTS \cup PERF_COMPARED} THEN 0 ELSE m0[p]]
    IN Fold(Do, [m |-> started, effects |-> <<>>, states |-> <<>>],
                [k \in DOMAIN Program(which) |-> k])

\* reference and run_rtl: prefill.prog up to the last prompt id, decode.prog
\* from there, each decode step taking the id of the one before.
RunTokens(prompt, max_new, plan, wb, fault) ==
    LET P == Len(prompt)
        Do(acc, t) ==
            LET which == IF t < P THEN "prefill" ELSE "decode"
                tok == IF t <= P THEN prompt[t] ELSE Last(acc.ids)
            IN With(record_token(acc.m, which, plan, tok, t - 1, wb, fault, t), LAMBDA r :
                  [m |-> r.m,
                   runs |-> Append(acc.runs, [program |-> which, pos |-> t - 1, tok |-> tok,
                                              effects |-> r.effects, states |-> r.states]),
                   ids |-> IF t < P THEN acc.ids
                           ELSE Append(acc.ids, r.m[Reg("ARGMAX_TOK")] % Vocab)])
    IN Fold(Do, [m |-> Reset(0), runs |-> <<>>, ids |-> <<>>],
                [t \in 1 .. P - 1 + max_new |-> t])

\* differences: what one descriptor left, and the registers both machines report.
differences(e, g) ==
    {x \in {"op", "name"} : e[x] # g[x]}
    \cup (IF e.pc # g.pc THEN {"PC"} ELSE {})
    \cup (IF DOMAIN e.state # DOMAIN g.state THEN {"indices"}
          ELSE {p \in DOMAIN e.state : e.state[p] # g.state[p]})
    \cup {n \in PERF_COMPARED : e.perf[n] # g.perf[n]}
    \cup {n \in EVENTS : e.events[n] # g.events[n]}

\* compare_token: the first descriptor that differs, with everything it differs in.
compare_token(run, got) ==
    IF Len(run.effects) # Len(got)
    THEN [index |-> _first_difference(run.effects, got), what |-> {"descriptors"}]
    ELSE LET bad == {k \in DOMAIN got : differences(run.effects[k], got[k]) # {}}
         IN IF bad = {} THEN [index |-> 0, what |-> {}]
            ELSE LET k == CHOOSE i \in bad : \A j \in bad : i <= j
                 IN [index |-> k, what |-> differences(run.effects[k], got[k])]

\* A token's dumps by its program and position; none when the RTL wrote none.
Dumps(rtl, run) ==
    LET at == {t \in DOMAIN rtl.runs : rtl.runs[t].program = run.program /\ rtl.runs[t].pos = run.pos}
    IN IF at = {} THEN <<>> ELSE rtl.runs[CHOOSE t \in at : TRUE].effects

\* check_image: the plan of a token first, then the token; nothing after the first problem.
check_tokens(ref, rtl, plan) ==
    LET TokenBad(t) ==
            \/ check_plan(ref.runs[t].program, ref.runs[t].pos, plan) # {}
            \/ compare_token(ref.runs[t], Dumps(rtl, ref.runs[t])).what # {}
        bad == {t \in DOMAIN ref.runs : TokenBad(t)}
        stop == IF bad = {} THEN 0 ELSE CHOOSE t \in bad : \A u \in bad : t <= u
        found == compare_token(ref.runs[stop], Dumps(rtl, ref.runs[stop]))
        Before(t) == Fold(LAMBDA n, r : n + Len(r.effects), 0, SubSeq(ref.runs, 1, t - 1))
    IN IF stop = 0
       THEN [problem |-> {}, token |-> 0, index |-> 0, what |-> {}, idsOk |-> ref.ids = rtl.ids,
             descriptors |-> Before(Len(ref.runs) + 1)]
       ELSE [problem |-> check_plan(ref.runs[stop].program, ref.runs[stop].pos, plan),
             token |-> stop, index |-> found.index, what |-> found.what, idsOk |-> ref.ids = rtl.ids,
             descriptors |-> Before(stop) + IF found.index = 0 THEN 0 ELSE found.index - 1]

\* compare_step: the first descriptor whose outputs are not the golden trace's;
\* the golden Stats, which know no bounds fault, only when every descriptor agreed.
Stats(e) == <<e.events["SAT_REQ"] + e.events["SAT_VPU"], e.events["ERR_SHIFT"]>>
NoStep == 0
StatsStep == -1
compare_step(gold, sim) ==
    LET bad == {k \in DOMAIN gold : gold[k].state # sim[k].state}
    IN IF bad # {} THEN CHOOSE k \in bad : \A j \in bad : k <= j
       ELSE IF Stats(Last(gold)) # Stats(Last(sim)) THEN StatsStep ELSE NoStep

\* The generated ids up to and with the first stop id.
UpTo(ids, stop) ==
    LET ends == {i \in DOMAIN ids : ids[i] \in stop}
    IN IF ends = {} THEN ids ELSE SubSeq(ids, 1, CHOOSE i \in ends : \A j \in ends : i <= j)

\* compare_generate: the simulator against the golden model, token by token up
\* to a mismatch or a stop id; the ids are those before the mismatch.
compare_generate(gold, sim, P, stop) ==
    LET loop == 1 .. P - 1 + Len(UpTo(sim.ids, stop))
        bad == {t \in loop : compare_step(gold.runs[t].effects, sim.runs[t].effects) # NoStep}
        at == IF bad = {} THEN P + Len(UpTo(sim.ids, stop)) ELSE CHOOSE t \in bad : \A u \in bad : t <= u
    IN [ok |-> bad = {}, pos |-> at - 1,
        index |-> IF bad = {} THEN NoStep
                  ELSE compare_step(gold.runs[at].effects, sim.runs[at].effects),
        gen |-> SubSeq(UpTo(sim.ids, stop), 1, at - P)]

\* cli isa-sim --compare: the simulator's ids against the record of the same
\* length, then every descriptor against the golden model.
isa_sim_prompt(gold, sim, P, stop, recorded) ==
    LET cmp == compare_generate(gold, sim, P, stop)
    IN [ok |-> cmp.ok /\ (recorded = <<>> \/ recorded = UpTo(sim.ids, stop)), cmp |-> cmp]

StepOk(r) == r.problem = {} /\ r.what = {} /\ r.idsOk

-----------------------------------------------------------------------------
(* quettos.determinism: one program under several settings of the RTL, each *)
(* held to a baseline: timing, an undefined start, the port width.  A run   *)
(* that the simulator stopped has no records; its row says so.              *)

\* One setting: what the storage no reset reaches holds at its start.
Setting(name, start) == [name |-> name, start |-> start]
BASELINE == Setting("lat 32", 0)

timing_settings(threads) ==
    <<Setting("lat 1", 0), Setting("lat 200", 0), Setting("bw-div 2", 0)>>
    \o IF threads > 1 THEN <<Setting("threads", 0)>> ELSE <<>>

\* Zeros, ones, and a random start per seed.
x_initial(seeds) ==
    <<Setting("x-init zeros", 0), Setting("x-init ones", 1)>>
    \o [i \in DOMAIN seeds |-> Setting("x-init seed", 1 + seeds[i])]

BANK_FIELDS == {"VSRAM", "SREG"}
WIDTH_EXEMPT == {"MACS", "WT_BYTES"}

\* A run: the records and memory of its case, the ids of its generation.
Run(observed, ids) == [observed |-> observed, ids |-> ids, stopped |-> FALSE]
Stopped == [observed |-> [records |-> <<>>, mem |-> <<>>], ids |-> <<>>, stopped |-> TRUE]

\* differences: the generated ids, then the per-descriptor state.
RunDifferences(base, got, c) ==
    LET i == _first_difference(base.ids, got.ids)
    IN (IF i = 0 THEN {} ELSE {Mismatch(-1, -1, "generated id", i)})
       \cup compare(base.observed, got.observed, c)

\* _moved: every compared value of a run, one higher.
_moved(run) ==
    LET up(s) == [i \in DOMAIN s |-> s[i] + 1]
        rec(r) == [r EXCEPT !.reg = up(@), !.vsram = up(@), !.sreg = up(@)]
    IN [run EXCEPT !.ids = up(@),
                   !.observed = [records |-> [i \in DOMAIN @.records |-> rec(@.records[i])],
                                 mem |-> [p \in DOMAIN @.mem |->
                                            [r \in DOMAIN @.mem[p] |-> up(@.mem[p][r])]]]]

\* kept_fields: what a comparison without the banks still judges a run on.
kept_fields(base, c) ==
    {d.what : d \in compare(base.observed, _moved(base).observed, c)} \ BANK_FIELDS

Row(stopped, diffs) == [stopped |-> stopped, differences |-> IF stopped THEN {} ELSE diffs]
RowOk(r) == ~ r.stopped /\ r.differences = {}

\* _row: banks FALSE takes VSRAM and SREG out of the comparison.
_row(base, run, c, banks) ==
    Row(run.stopped,
        {d \in RunDifferences(base, run, c) : banks \/ d.what \notin BANK_FIELDS})

\* check: the baseline, then every setting against it; none after a stopped baseline.
check(base, runs, c, banks) ==
    [baseline |-> Row(base.stopped, {}),
     raised |-> ~ banks /\ ~ base.stopped /\ kept_fields(base, c) = {},
     rows |-> IF base.stopped THEN <<>> ELSE [i \in DOMAIN runs |-> _row(base, runs[i], c, banks)]]

ReportOk(r) == ~ r.raised /\ RowOk(r.baseline) /\ \A i \in DOMAIN r.rows : RowOk(r.rows[i])

\* Fault: every width keeps the tokens of its own passes.
width_cases_own_tokens(program, widths, tok) ==
    LET cases == [wb \in widths |-> CaseOf(program, Layout(wb), tok)]
        Shared(p) == \A x \in widths : \E i \in DOMAIN cases[x].passes : cases[x].passes[i][2] = p
    IN [wb \in widths |->
          [cases[wb] EXCEPT
            !.passes = SelectSeq(@, LAMBDA s : Shared(s[2])),
            !.mem = SelectSeq(@, LAMBDA r : \A x \in widths : r \in Range(cases[x].mem))]]

\* width_cases: the positions, tokens, window and regions that the widths share.
width_cases(program, widths, tok) ==
    LET cases == [wb \in widths |-> CaseOf(program, Layout(wb), tok)]
        At(wb) == {cases[wb].passes[i][2] : i \in DOMAIN cases[wb].passes}
        shared == {p \in UNION {At(wb) : wb \in widths} : \A wb \in widths : p \in At(wb)}
        first == cases[CHOOSE wb \in widths : \A x \in widths : wb <= x]
        passes == SelectSeq(first.passes, LAMBDA s : s[2] \in shared)
        mem == SelectSeq(first.mem, LAMBDA r : \A wb \in widths : r \in Range(cases[wb].mem))
    IN [wb \in widths |-> [cases[wb] EXCEPT !.passes = passes, !.mem = mem]]

\* check_width: the other widths against the narrowest, what belongs to the port left out.
check_width(base, runs, c) ==
    [baseline |-> Row(base.stopped, {}), raised |-> FALSE,
     rows |-> [i \in DOMAIN runs |->
                 Row(runs[i].stopped,
                     IF base.stopped THEN {}
                     ELSE {d \in RunDifferences(base, runs[i], c) : d.what \notin WIDTH_EXEMPT})]]
=============================================================================
