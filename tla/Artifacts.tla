------------------------------ MODULE Artifacts ------------------------------
(***************************************************************************)
(* The files the quettos commands leave for one another: the calibration,   *)
(* the quantised model, the golden model's record, the compiled directory;  *)
(* and the two demos that read them: the harness runs an image, demo-report *)
(* holds its record to the layout and to the golden model's record, and     *)
(* quettos.prefix saves and restores a prompt's first turn between two runs.*)
(* A hash is the content it is taken of; a file is absent, torn (its writer *)
(* was stopped) or whole.  What a model generates and how long its prefill  *)
(* takes are parameters: two models, or two prompts, may well agree.        *)
(***************************************************************************)
EXTENDS Integers, FiniteSets, Sequences, SequencesExt

CONSTANTS
    Full,               \* layers of the model; Few is a truncated build
    Few,
    Vocab,              \* ids the core may emit
    Greedy(_, _),       \* the ids a model gives after a prompt, to its end of sequence
    PrefillCycles(_, _) \* cycles an image takes over the first positions of a prompt

Absent == [kind |-> "absent"]
Torn == [kind |-> "torn"]
File(content) == [kind |-> "file", is |-> content]
Whole(f) == f.kind = "file"

EosId == 9
Source == "prompts/chat.json"

\* prompts/ at one edit: what the prompt and the calibration set tokenize to.
prompt_tokens(text) == <<text, EosId, 2, 3>>
calibration_sequences(text) == <<prompt_tokens(text), <<7, 8>>>>

\* write_calib: calib.json, by the ids its ranges were measured on.
write_calib(text) == calibration_sequences(text)

\* build_quant_model: its layers, its smoothing, and the ids of the calib.json it
\* read, whatever prompts/ has come to say since.
build_quant_model(calib, layers, smoothing) ==
    [layers |-> layers, smoothing |-> smoothing, calib |-> calib]

\* save and load: the path is named by the smoothing; a torn file does not load.
default_path(model) == model.smoothing
Loads(f) == Whole(f)

\* generate: the greedy continuation up to max_new or the end of sequence.
First(ids, n) == SubSeq(ids, 1, IF n < Len(ids) THEN n ELSE Len(ids))
generate(m, ids, max_new) == First(Greedy(m, ids), max_new)

\* expected_tokens: the record of one prompt under a model.
expected_tokens(m, text, max_new) ==
    [layers |-> m.layers, calib |-> m.calib, a_bits |-> 16,
     prompts |-> [s \in {Source} |-> generate(m, prompt_tokens(text), max_new)]]

-----------------------------------------------------------------------------
(* The compiled directory *)

FILES == {"image", "decode", "prefill", "tokens_bin", "prompt", "dump_plan", "layout"}
EmptyDir == [f \in FILES |-> Absent]

\* A compile: its model, its port width, the ids of its prompt or NoPrompt.
Build(m, wb, prompt) == [m |-> m, wb |-> wb, prompt |-> prompt]
NoPrompt == <<>>

\* What compile() writes into a file, layout.json apart.
Content(f, b) ==
    CASE f \in {"image", "decode", "prefill"} -> [m |-> b.m, wb |-> b.wb]
      [] f = "tokens_bin" -> "the vocabulary"
      [] f = "prompt" -> b.prompt
      [] f = "dump_plan" -> [layers |-> b.m.layers, wb |-> b.wb]

\* The order compile() writes them in; prompt.tokens only when it has a prompt.
WriteOrder(b) ==
    <<"image", "decode", "prefill", "tokens_bin">>
    \o (IF b.prompt = NoPrompt THEN <<>> ELSE <<"prompt">>) \o <<"dump_plan", "layout">>

NoEntry == [sha |-> "none"]

\* Fault: a record of another calibration is taken for the compiled model's.
_expected_tokens_entry_any(expected, m, a_bits) ==
    IF expected.kind = "absent" \/ expected.is.layers # m.layers \/ expected.is.a_bits # a_bits
    THEN NoEntry ELSE [sha |-> expected.is, prompts |-> expected.is.prompts]

\* The record is the compiled model's only by its layers, calibration and width:
\* the prompt it continues is known by the name of its file alone.
_expected_tokens_entry(expected, m, a_bits) ==
    IF \/ expected.kind = "absent"
       \/ expected.is.layers # m.layers \/ expected.is.calib # m.calib \/ expected.is.a_bits # a_bits
    THEN NoEntry ELSE [sha |-> expected.is, prompts |-> expected.is.prompts]

\* layout.json: the hashes of what this compile wrote, and the record's.
Layout(b, expected) ==
    [wb |-> b.wb, model |-> b.m, calib |-> b.m.calib, size |-> <<b.wb, b.m.layers>>,
     descriptors |-> b.m.layers,
     sha |-> [f \in {"image", "decode", "prefill", "tokens_bin", "dump_plan"} |-> Content(f, b)],
     prompt |-> b.prompt,
     expected |-> _expected_tokens_entry(expected, b.m, 16)]

\* prompt_source, prompt_ids.
prompt_source(layout) == IF layout.prompt = NoPrompt THEN "none" ELSE Source
prompt_ids(dir) ==
    CASE Whole(dir["prompt"]) -> dir["prompt"].is
      [] dir["prompt"] = Torn -> <<EosId>>
      [] OTHER -> <<0>>

\* Raised: the record no longer holds what the layout was compiled against.
Raised == [kind |-> "raised"]
NoRecord == [kind |-> "none"]
recorded_continuation(layout, source, expected) ==
    IF layout.expected = NoEntry \/ source = "none" THEN NoRecord
    ELSE IF ~ Whole(expected) \/ expected.is.prompts[source] # layout.expected.prompts[source]
         THEN Raised
         ELSE [kind |-> "ids", ids |-> expected.is.prompts[source]]

-----------------------------------------------------------------------------
(* The demos: the harness, as the commands see it: one run of an image *)

Outcomes == {"right", "wrong id", "event", "stopped"}

\* It starts on a layout it can parse and an image of the size it describes.
Starts(dir) ==
    /\ Whole(dir["layout"]) /\ Whole(dir["image"])
    /\ <<dir["image"].is.wb, dir["image"].is.m.layers>> = dir["layout"].is.size

\* Cycles of the prefill of positions first .. last - 1: a position takes what it
\* takes whether the ones before it were computed or restored.
Cycles(image, first, last) == PrefillCycles(image, last) - PrefillCycles(image, first)

\* What a decode of up to max_new ids may emit: it ends with them or at the end of
\* sequence.
Decodes(max_new) ==
    {s \in UNION {[1 .. n -> Vocab] : n \in 1 .. max_new} :
        /\ \A i \in 1 .. Len(s) - 1 : s[i] # EosId
        /\ Len(s) = max_new \/ s[Len(s)] = EosId}

\* The ids a run may have emitted that ended this way, where these are right: a
\* wrong cache, image or datum may give any others.
Emitted(ids, max_new, outcome) ==
    CASE outcome = "wrong id" -> Decodes(max_new) \ {ids}
      [] outcome = "stopped" -> {First(ids, n) : n \in 0 .. Len(ids) - 1}
      [] OTHER -> {ids}

\* perf.json: what the record says, and under "ran" and "outcome" what happened.
Perf(dir, prompt, restored, prefilled, max_new, outcome, ids) ==
    LET image == dir["image"].is
    IN [ran |-> image, outcome |-> outcome,
        image_bytes |-> <<image.wb, image.m.layers>>, prompt |-> prompt,
        restored |-> restored, prefilled |-> prefilled, descriptors |-> image.m.layers,
        cycles |-> Cycles(image, restored, restored + prefilled), max_new |-> max_new,
        ids |-> ids,
        status |-> IF outcome = "stopped" THEN "error" ELSE "ok",
        events |-> IF outcome = "event" THEN 1 ELSE 0]

-----------------------------------------------------------------------------
(* cli demo-report *)

\* Every file layout.json has a hash of: its own, the prompt it was given, the record.
_layout_hashed(layout) ==
    DOMAIN layout.sha \cup {f \in {"prompt"} : layout.prompt # NoPrompt}
                      \cup {f \in {"expected"} : layout.expected # NoEntry}
_layout_sha(layout, f) ==
    CASE f = "prompt" -> layout.prompt
      [] f = "expected" -> layout.expected.sha
      [] OTHER -> layout.sha[f]

\* The record is a repository path, the others lie beside layout.json.
_layout_file(dir, expected, f) == IF f = "expected" THEN expected ELSE dir[f]

\* The file as it is now, hashed again; ids for prompt.tokens, bytes for the rest.
_demo_digest(file) == file.is

\* Fault: only the image is hashed.
_demo_files_image(dir, layout, expected, perf) ==
    \/ ~ Whole(dir["image"]) \/ _demo_digest(dir["image"]) # layout.sha["image"]
    \/ perf.image_bytes # <<dir["image"].is.wb, dir["image"].is.m.layers>>

\* Every file the layout has a hash of, and the size of the image the run mapped.
_demo_files(dir, layout, expected, perf) ==
    \/ \E f \in _layout_hashed(layout) :
          LET file == _layout_file(dir, expected, f)
          IN ~ Whole(file) \/ _demo_digest(file) # _layout_sha(layout, f)
    \/ perf.image_bytes # <<dir["image"].is.wb, dir["image"].is.m.layers>>

\* The ids the run was given: the layout's, or the run has no source.
_demo_prompt(perf, layout) ==
    LET same == layout.prompt # NoPrompt /\ perf.prompt = layout.prompt
    IN [source |-> IF same THEN Source ELSE "none",
        bad |-> \/ perf.restored + perf.prefilled + 1 # Len(perf.prompt)
                \/ layout.prompt # NoPrompt /\ ~ same]

_demo_checks(perf, layout) ==
    perf.descriptors # layout.descriptors \/ perf.status # "ok" \/ perf.events # 0

\* reuse_lines: what has to hold of the reuse, prefix and baseline runs.
reuse_lines(reuse, prefix, baseline) ==
    \/ reuse.ids # baseline.ids \/ reuse.ids = <<>> \/ reuse.restored = 0
    \/ reuse.prefilled + reuse.restored # baseline.prefilled
    \/ prefix.cycles + reuse.cycles # baseline.cycles

\* _demo_report: TRUE for "demo: OK".
_demo_report(dir, expected, perf) ==
    LET layout == dir["layout"].is
        given == _demo_prompt(perf.is, layout)
        recorded == recorded_continuation(layout, given.source, expected)
    IN /\ Whole(dir["layout"]) /\ Whole(perf)
       /\ Whole(dir["image"]) /\ ~ _demo_files(dir, layout, expected, perf.is)
       /\ ~ given.bad
       /\ recorded \notin {NoRecord, Raised}
       /\ perf.is.ids # <<>> /\ perf.is.ids = First(recorded.ids, perf.is.max_new)
       /\ ~ _demo_checks(perf.is, layout)

\* The summary of the prefix demo reads the three records and the prefix file.
_demo_prefix(perf, prefix_perf, baseline, prefix_file) ==
    /\ Whole(prefix_perf) /\ Whole(baseline) /\ Whole(prefix_file)
    /\ ~ reuse_lines(perf.is, prefix_perf.is, baseline.is)

-----------------------------------------------------------------------------
(* quettos.prefix *)

\* first_turn: the leading ids up to the first end-of-turn id, 0 when there is none.
first_turn(ids) == IF EosId \in Range(ids) THEN SelectInSeq(ids, LAMBDA v : v = EosId) ELSE 0

\* What a run saves with its cache: the image by the layout's hash, and the ids.
Header(dir, ids) ==
    [wb |-> dir["layout"].is.wb, image_sha256 |-> dir["layout"].is.sha["image"], ids |-> ids]

\* check_header, and the harness before it restores.
check_header(h, layout, ids) ==
    \/ h.wb # layout.wb \/ h.image_sha256 # layout.sha["image"]
    \/ h.ids = <<>> \/ Len(h.ids) >= Len(ids) \/ ~ IsPrefix(h.ids, ids)

\* shared_with_another_question: raises when the layout names no prompt file; the
\* count it prints is left out.
shared_with_another_question(layout) == prompt_source(layout) # "none"

\* _refusal_check: the same file with its image hash changed has to be refused.
_refusal_check(h, layout, ids) == check_header([h EXCEPT !.image_sha256.wb = 0], layout, ids)
=============================================================================
