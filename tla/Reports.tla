------------------------------ MODULE Reports ------------------------------
(***************************************************************************)
(* sim/gatesim/gatesim.py and scripts/synth_report.py: the figures the      *)
(* repository publishes of its own RTL, measured with the installed Yosys.  *)
(* gatesim holds each block's netlist to its source and keeps a table of    *)
(* cell counts, synth_report keeps a page a block, and the front page       *)
(* quotes the page of the whole core.  A figure is what it is measured of.  *)
(***************************************************************************)
EXTENDS Artifacts

CONSTANTS
    Blocks,     \* modules that have a synthesis script
    Builds      \* Yosys builds a user may have

ASSUME BlocksAssumption == IsFiniteSet(Blocks)
ASSUME BuildsAssumption == Builds # {} /\ "" \notin Builds

Top == "qcore_top"
Under(b) == IF b = Top THEN Blocks ELSE {b}

\* Of every module what any build infers of it and how it is written besides;
\* the parameters of each gatesim case and of each synthesis script.
Design ==
    [rtl |-> [b \in Blocks |-> [inferred |-> 0, logic |-> 0]],
     cases |-> [b \in Blocks \ {Top} |-> 0], scripts |-> [b \in Blocks |-> 0]]

\* The hard blocks any build infers, and the counts a build packs for itself.
Inferred(d, b) == [x \in Under(b) |-> d.rtl[x].inferred]
Packed(d, b, params, tool) == <<tool, params, [x \in Under(b) |-> d.rtl[x]]>>

-----------------------------------------------------------------------------
(* gatesim: netlist against source *)

Undefined == 2   \* an output of the source that is X

\* gen_bench: a cycle the source leaves undefined is counted and not compared.
gen_bench(trace) ==
    LET seen == {i \in DOMAIN trace : trace[i].src # Undefined}
    IN [compared |-> Cardinality(seen), x_cycles |-> Len(trace) - Cardinality(seen),
        mismatches |-> Cardinality({i \in seen : trace[i].src # trace[i].gate}),
        toggled |-> {trace[i].src : i \in seen} = {0, 1}]

\* run_case: a netlist of modelled cells only, no mismatch, an output that moves
\* unless the case says it is constant, and at most MAX_X_SHARE undefined.
run_case(c) ==
    LET r == gen_bench(c.trace)
        window == r.compared + r.x_cycles
    IN /\ c.modelled
       /\ r.mismatches = 0 /\ (r.toggled \/ c.constant)
       /\ window # 0 /\ 10 * r.x_cycles <= window

\* table_block: a row a case and the build that measured it.
table_block(d, tool) ==
    [tool |-> tool,
     rows |-> [c \in DOMAIN d.cases |->
                 [cfg |-> d.cases[c], cells |-> Packed(d, c, d.cases[c], tool)]]]
design_rows(block) == [c \in DOMAIN block.rows |-> block.rows[c].cfg]

\* sync_table without --write-table: whether the page carries this run's block.
sync_table(table, fresh) ==
    /\ Whole(table)
    /\ IF table.is.tool = fresh.tool THEN table.is = fresh
       ELSE design_rows(table.is) = design_rows(fresh)

-----------------------------------------------------------------------------
(* synth_report: a page a script *)

\* How the notes below the figures end: with a line, as render ends the ones
\* keep_notes carries forward; in a page whose writing was stopped, also in a
\* broken line, or there are none and the next page has the default ones.
Ended == "ended"
Broken == "broken"
Lacking == "none"

\* build, render: the page written from the log of one script.
build_page(d, b, tool) ==
    [tool |-> tool, facts |-> <<d.scripts[b], Inferred(d, b)>>,
     packed |-> Packed(d, b, d.scripts[b], tool), notes |-> Ended]

\* What write_text leaves of a page when it is stopped: the text up to some place.
\* The tool line comes first, the facts end with the heading of the notes.
CutShort(page) ==
    {[tool |-> "", facts |-> <<>>, packed |-> <<>>, notes |-> Lacking],
     [page EXCEPT !.facts = <<>>, !.packed = <<>>, !.notes = Lacking]}
    \cup {[page EXCEPT !.notes = n] : n \in {Lacking, Broken, Ended}}

\* What a recorded page says, from the text there is.
recorded_tool(page) == page.is.tool
design_facts(page) == page.is.facts

\* report_figures: of the whole core, what the front page quotes.
report_figures(page) == [inferred |-> page.facts[2], packed |-> page.packed]

\* build_matches, with a build named as the version line names it.
build_matches(named, version) == named = version

\* check_front_page: both clauses stated, the build that of the quoted page, the
\* inferred figures on any build, the packed ones on the build named.
check_front_page(row, page, quoted) ==
    LET run == report_figures(page)
    IN /\ row.stated
       /\ quoted # "" => build_matches(row.build, quoted)
       /\ row.inferred = run.inferred
       /\ build_matches(row.build, page.tool) => row.packed = run.packed

\* main, --check: a page of this build has to be the run's, one of another build
\* has to state the design; a full check also finds a page of no script.
check_pages(pages, built, all) ==
    /\ \A b \in DOMAIN built :
          /\ pages[b] # Absent
          /\ IF recorded_tool(pages[b]) = built[b].tool THEN pages[b].is = built[b]
             ELSE design_facts(pages[b]) = built[b].facts
    /\ all => \A b \in DOMAIN pages : pages[b] # Absent => b \in DOMAIN built

-----------------------------------------------------------------------------
(* The files, as a clone has them, and what a user may change *)

Quote(page) ==
    [stated |-> TRUE, build |-> page.tool,
     inferred |-> report_figures(page).inferred, packed |-> report_figures(page).packed]
Clone(tool) ==
    LET page == [b \in Blocks |-> File(build_page(Design, b, tool))]
    IN [design |-> Design, yosys |-> tool, table |-> File(table_block(Design, tool)), pages |-> page,
        row |-> Quote(page[Top].is)]

Drop(f, x) == [y \in DOMAIN f \ {x} |-> f[y]]

Edited(g) ==
    {[g EXCEPT !.design.rtl[b].inferred = 1 - @] : b \in Blocks}
    \cup {[g EXCEPT !.design.rtl[b].logic = 1 - @] : b \in Blocks}
    \cup {[g EXCEPT !.design.cases[b] = 1 - @] : b \in DOMAIN g.design.cases}
    \cup {[g EXCEPT !.design.cases = Drop(@, b)] : b \in DOMAIN g.design.cases}
    \cup {[g EXCEPT !.design.scripts[b] = 1 - @] : b \in DOMAIN g.design.scripts}
    \cup {[g EXCEPT !.design.scripts = Drop(@, b)] : b \in DOMAIN g.design.scripts \ {Top}}
    \cup {[g EXCEPT !.yosys = t] : t \in Builds \ {g.yosys}}
    \cup {[g EXCEPT !.row = Quote(g.pages[b].is)] : b \in {x \in {Top} : design_facts(g.pages[x]) # <<>>}}
    \cup {[g EXCEPT !.row.packed = <<"mistyped">>], [g EXCEPT !.row.inferred = [x \in Blocks |-> 2]],
          [g EXCEPT !.row.stated = FALSE]}

-----------------------------------------------------------------------------
(* quettos.quality: a table row is a build scored on a set of ids, a report *)
(* merges over the stored one, and provenance rebuilds the ids the stored   *)
(* rows name.  What a score is, is left out; what it was taken on is kept.  *)

\* corpus: the archive is fetched when absent and hashed on every call.
Fetches(archive, download) == archive = "pinned" \/ (archive = "absent" /\ download)
source_record(split, count) == [split |-> split, windows |-> count]
heldout_sequences(source) == [i \in 1 .. source.windows |-> <<source.split, i>>]

CONFIGS == {16, 8}
\* config_name: the width, and the ablation suffix of a build without smoothing.
config_name(m, a_bits) == <<a_bits, m.smoothing>>

\* The logits of every position of a sequence, from the golden model and from the
\* float reference cut to as many layers.
forward_tokens(m, ids, a_bits) == [layers |-> m.layers, a_bits |-> a_bits, of |-> ids]
reference_logits(ids, layers) == [layers |-> layers, of |-> ids]

\* score_sequence: what each position but the last is held to, its next id; a pair
\* of blocks of another length or depth is no score.
score_sequence(ref, got) == [n |-> Len(got.of) - 1, of |-> got.of, ok |-> ref = reference_logits(got.of, got.layers)]

\* TokenMetrics.concat and summary: the positions pooled.
Total(counts) == FoldSeq(+, 0, counts)
Pooled(parts) ==
    [tokens |-> Total([i \in DOMAIN parts |-> parts[i].n]),
     scored |-> [i \in DOMAIN parts |-> parts[i].of], ok |-> \A i \in DOMAIN parts : parts[i].ok]

\* _row: the build it came from, then what was scored.
_row(m, a_bits, parts) ==
    LET p == Pooled(parts)
    IN [config |-> config_name(m, a_bits), model |-> m, tokens |-> p.tokens, scored |-> p.scored, ok |-> p.ok]

\* evaluate, evaluate_multi: one row a width, the sequences teacher-forced.
evaluate(m, seqs, a_bits) ==
    _row(m, a_bits, [i \in DOMAIN seqs |->
        score_sequence(reference_logits(seqs[i], m.layers), forward_tokens(m, seqs[i], a_bits))])
evaluate_multi(m, seqs) == {evaluate(m, seqs, b) : b \in CONFIGS}

Tokens(seqs) == Total([i \in DOMAIN seqs |-> Len(seqs[i]) - 1])
Protocol(seqs) == [sequences |-> [i \in DOMAIN seqs |-> Len(seqs[i])], tokens |-> Tokens(seqs), ids |-> seqs]

NoHeldout == [rows |-> {}]
heldout_block(seqs, rows, source) ==
    [protocol |-> Protocol(seqs), source |-> source, rows |-> rows]

report(m, seqs, rows, heldout) ==
    [model |-> m.layers, calib |-> m.calib, protocol |-> Protocol(seqs), rows |-> rows, heldout |-> heldout]

IDENTITY_KEYS == {"model", "calib", "protocol"}

\* Fresh rows over the stored ones of another configuration.
Over(stored, fresh) == fresh \cup {r \in stored : \A f \in fresh : f.config # r.config}

_merge_heldout(stored, fresh) ==
    IF fresh = NoHeldout THEN stored
    ELSE IF stored = NoHeldout \/ stored.protocol # fresh.protocol \/ stored.source # fresh.source THEN fresh
    ELSE [fresh EXCEPT !.rows = Over(stored.rows, @)]

\* Fault: the stored rows of another set of ids are carried forward.
merge_quality_any(rep, stored) ==
    IF stored = Absent \/ stored.is.model # rep.model \/ stored.is.calib # rep.calib THEN rep
    ELSE [rep EXCEPT !.rows = Over(stored.is.rows, @),
                     !.heldout = _merge_heldout(stored.is.heldout, @)]

\* The stored rows survive only under the same model, calibration and protocol.
merge_quality(rep, stored) ==
    IF stored = Absent \/ \E k \in IDENTITY_KEYS : stored.is[k] # rep[k] THEN rep
    ELSE [rep EXCEPT !.rows = Over(stored.is.rows, @),
                     !.heldout = _merge_heldout(stored.is.heldout, @)]

\* scored_sets: the held-out set, when the report has one, then the calibration set.
scored_sets(rep) ==
    (IF rep.heldout = NoHeldout THEN <<>> ELSE <<"heldout">>) \o <<"calib">>

\* _heldout_checks: the archive this clone holds is the pinned one; the cut is
\* the record's own, so the windows it names can be rebuilt.
_heldout_checks(source) == source_record(source.split, source.windows) = source

\* provenance: every set rebuilt from this clone and held to the record.
provenance(rep, text) ==
    LET Calib == calibration_sequences(text)
    IN \A i \in DOMAIN scored_sets(rep) :
         IF scored_sets(rep)[i] = "heldout"
         THEN /\ _heldout_checks(rep.heldout.source)
              /\ rep.heldout.protocol = Protocol(heldout_sequences(rep.heldout.source))
              /\ rep.heldout.protocol.ids # Calib
         ELSE rep.protocol = Protocol(Calib) /\ rep.calib = rep.protocol.ids
=============================================================================
