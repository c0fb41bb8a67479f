------------------------------- MODULE Tools -------------------------------
(***************************************************************************)
(* A user at the command line: the demo scripts, the quality commands and   *)
(* the tools that publish figures, over files that outlive them.  A command *)
(* is the list of steps it has left; it may be stopped in any, tearing the  *)
(* file being written.                                                      *)
(***************************************************************************)
EXTENDS Reports

CONSTANTS
    Widths,         \* port widths an image is compiled for
    MaxNews,        \* --max-new of a run or of the golden record, by the user
    Cuts,           \* the held-out sets a check may score
    Benches,        \* how a netlist may do against its source, Equivalent among them
    Equivalent,
    MaxCommands,    \* by session: bound on commands and stops together
    MaxStops, MaxEdits

ASSUME MaxNewsAssumption == \A s \in {"demo", "toolcall", "quality", "figures"} : MaxNews[s] \subseteq Nat \ {0}
ASSUME CutsAssumption == \A c \in Cuts : c.windows \in Nat /\ c = source_record(c.split, c.windows)
ASSUME BenchesAssumption ==
    /\ \A c \in Benches : c.trace \in Seq([src : 0 .. 2, gate : 0 .. 2])
    /\ Equivalent \in Benches /\ run_case(Equivalent)
\* What the demos' models give is a continuation that ends with its end of
\* sequence, and their prefill takes some time.
Models == {build_quant_model(write_calib(t), l, TRUE) : t \in {0, 1}, l \in {Full, Few}}
ASSUME GreedyAssumption ==
    \A m \in Models, p \in {prompt_tokens(0), prompt_tokens(1), <<EosId>>, <<0>>} :
        /\ Greedy(m, p) \in Seq(Vocab) /\ Greedy(m, p) # <<>>
        /\ \A i \in 1 .. Len(Greedy(m, p)) : Greedy(m, p)[i] = EosId <=> i = Len(Greedy(m, p))
ASSUME CyclesAssumption ==
    \A m \in Models, wb \in Widths, n \in 0 .. 3 : PrefillCycles([m |-> m, wb |-> wb], n) \in Nat

VARIABLES
    session,        \* which commands the user runs
    text,           \* the edit prompts/ is at
    archive,        \* the corpus archive: "pinned", "changed" or "absent"
    calib,          \* models/<name>/calib.json
    quants,         \* build/quant: a file with smoothing, one without
    expected,       \* models/<name>/expected_tokens.json
    dir,            \* the compiled directory
    perf,           \* the harness's records, by the run that wrote them
    prefix,         \* prefix.kv
    quality,        \* models/<name>/quality.json
    gates,          \* the design, the installed Yosys, its table, pages and row
    measured,       \* what the command measures; read by properties
    todo,           \* the steps the running command has left
    verdict,        \* what the last step reported
    budget          \* commands, stops and edits so far

vars == <<session, text, archive, calib, quants, expected, dir, perf, prefix, quality, gates, measured, todo, verdict, budget>>
files == <<calib, quants, expected, dir, perf, prefix, quality>>
figures == <<gates, measured>>

Full16 == build_quant_model(write_calib(0), Full, TRUE)
Quant == quants[TRUE]

NoneMeasured == [of |-> "nothing"]
OwnRun == [of |-> "its own run"]

\* A clone: calib.json and the record are checked in, nothing is built.
Init ==
    /\ session \in {"demo", "toolcall", "quality", "figures"}
    /\ text = 0 /\ archive = "absent"
    /\ calib = File(write_calib(0)) /\ quants = [s \in BOOLEAN |-> Absent]
    /\ \E n \in MaxNews[session] : expected = File(expected_tokens(Full16, 0, n))
    /\ dir = EmptyDir /\ perf = [r \in {"run", "prefix", "baseline"} |-> Absent]
    /\ prefix = Absent /\ quality = Absent
    /\ gates = Clone(CHOOSE t \in Builds : TRUE) /\ measured = NoneMeasured
    /\ todo = <<>> /\ verdict = "none"
    /\ budget = [commands |-> 0, stops |-> 0, edits |-> 0]

Is(op) == todo # <<>> /\ Head(todo).op = op
Rest == todo' = Tail(todo) /\ verdict' = "none"
Fail == todo' = <<>> /\ verdict' = "error"
Same == UNCHANGED <<session, text, archive, budget, figures>>
Step(op) == [op |-> op]

-----------------------------------------------------------------------------
(* Commands *)

Quantize(layers, smoothing) == [op |-> "quantize", layers |-> layers, smoothing |-> smoothing]
CompileStep(wb, prompt) == [op |-> "compile", wb |-> wb, prompt |-> prompt]

\* scripts/demo.sh: what is there is reused; the report reads whatever perf.json
\* the run left, also when the run refused.
DemoScript(wb, new, fresh) ==
    <<[op |-> "ensure quant", fresh |-> fresh], [op |-> "ensure image", wb |-> wb, fresh |-> fresh],
      [op |-> "run", new |-> new], Step("report")>>

\* quettos.prefix run: the four runs, each of which has to end well.
ToolcallScript(wb, new, fresh) ==
    <<[op |-> "ensure quant", fresh |-> fresh], [op |-> "ensure image", wb |-> wb, fresh |-> fresh],
      Step("save"), Step("check header"), [op |-> "reuse", new |-> new],
      [op |-> "baseline", new |-> new], Step("report")>>

DemoCommands ==
    {<<Step("calibrate")>>, <<Quantize(Few, TRUE)>>, <<Step("report")>>} \cup
    {<<CompileStep(wb, FALSE)>> : wb \in Widths} \cup
    {<<[op |-> "golden", new |-> n]>> : n \in MaxNews[session]} \cup
    {DemoScript(wb, n, f) : wb \in Widths, n \in MaxNews[session], f \in BOOLEAN}
ToolcallCommands ==
    {<<Step("calibrate")>>, <<Step("report")>>} \cup {ToolcallScript(wb, n, f) : wb \in Widths, n \in MaxNews[session], f \in BOOLEAN}
QualityCommands ==
    {<<Quantize(l, s)>> : l \in {Full, Few}, s \in BOOLEAN} \cup
    {<<Step("calibrate")>>, <<Step("provenance")>>} \cup
    {<<[op |-> "check", smoothing |-> s, heldout |-> FALSE]>> : s \in BOOLEAN} \cup
    {<<[op |-> "check", smoothing |-> s, heldout |-> TRUE, cut |-> c]>> : s \in BOOLEAN, c \in Cuts}
FiguresCommands ==
    {<<[op |-> "gatesim", only |-> {}, write |-> w]>> : w \in BOOLEAN} \cup
    {<<[op |-> "gatesim", only |-> {c}, write |-> TRUE]>> : c \in DOMAIN gates.design.cases} \cup
    {<<[op |-> "synth", scripts |-> s, check |-> c]>> :
        s \in {{}} \cup {{b} : b \in DOMAIN gates.design.scripts}, c \in BOOLEAN}

Commands ==
    CASE session = "demo" -> DemoCommands
      [] session = "toolcall" -> ToolcallCommands
      [] session = "quality" -> QualityCommands
      [] session = "figures" -> FiguresCommands

Start ==
    /\ todo = <<>> /\ budget.commands + budget.stops < MaxCommands[session]
    /\ todo' \in Commands /\ verdict' = "none"
    /\ budget' = [budget EXCEPT !.commands = @ + 1]
    /\ measured' = IF session \in {"demo", "toolcall"} /\ Len(todo') > 1 THEN OwnRun ELSE NoneMeasured
    /\ UNCHANGED <<session, text, archive, files, gates>>

\* Between commands the user edits prompts/, the archive goes or changes, or the
\* RTL, a case, a script, the installed Yosys or the front page does.
Edit ==
    /\ todo = <<>> /\ budget.edits < MaxEdits[session]
    /\ \/ session # "figures" /\ text' = 1 - text /\ UNCHANGED <<archive, gates>>
       \/ session = "quality" /\ archive' \in {"changed", "absent"} \ {archive} /\ UNCHANGED <<text, gates>>
       \/ session = "figures" /\ gates' \in Edited(gates) /\ UNCHANGED <<text, archive>>
    /\ budget' = [budget EXCEPT !.edits = @ + 1] /\ verdict' = "none" /\ measured' = NoneMeasured
    /\ UNCHANGED <<session, files, todo>>

\* The command is stopped; the file its step writes is as it was, or torn.
Target ==
    CASE Is("calibrate") -> {"calib"}
      [] Is("quantize") -> {"quants"}
      [] Is("golden") -> {"expected"}
      [] Is("write") -> {"dir"}
      [] Is("run") \/ Is("reuse") -> {"run"}
      [] Is("save") -> {"prefix", "prefix.kv"}
      [] Is("baseline") -> {"baseline"}
      [] Is("check") -> {"quality"}
      [] Is("sync table") -> {t \in {"table"} : Head(todo).write}
      [] Is("write page") -> {"page"}
      [] OTHER -> {}
Interrupt ==
    /\ todo # <<>> /\ budget.stops < MaxStops
    /\ budget' = [budget EXCEPT !.stops = @ + 1]
    /\ todo' = <<>> /\ verdict' = "none"
    /\ \E t \in Target \cup {"nothing"} :
        /\ calib' = IF t = "calib" THEN Torn ELSE calib
        /\ quants' = IF t = "quants" THEN [quants EXCEPT ![Head(todo).smoothing] = Torn] ELSE quants
        /\ expected' = IF t = "expected" THEN Torn ELSE expected
        /\ dir' = IF t = "dir" THEN [dir EXCEPT ![Head(todo).file] = Torn] ELSE dir
        /\ perf' = [r \in DOMAIN perf |-> IF r = t THEN Torn ELSE perf[r]]
        /\ prefix' = IF t = "prefix.kv" THEN Torn ELSE prefix
        /\ quality' = IF t = "quality" THEN Torn ELSE quality
        /\ measured' = NoneMeasured
        /\ \/ t = "table" /\ gates' = [gates EXCEPT !.table = Torn]
           \/ t = "page" /\ \E page \in CutShort(Head(todo).page) :
                                gates' = [gates EXCEPT !.pages[Head(todo).script] = File(page)]
           \/ t \notin {"table", "page"} /\ gates' = gates
    /\ UNCHANGED <<session, text, archive>>

-----------------------------------------------------------------------------
(* Building *)

\* _cmd_calibrate.
DoCalibrate ==
    /\ Is("calibrate") /\ Rest /\ Same
    /\ calib' = File(write_calib(text))
    /\ UNCHANGED <<quants, expected, dir, perf, prefix, quality>>

\* _cmd_quantize, from the calib.json that is there.
DoQuantize ==
    /\ Is("quantize") /\ Same
    /\ IF ~ Loads(calib) THEN Fail /\ UNCHANGED quants
       ELSE LET m == build_quant_model(calib.is, Head(todo).layers, Head(todo).smoothing)
            IN Rest /\ quants' = [quants EXCEPT ![default_path(m)] = File(m)]
    /\ UNCHANGED <<calib, expected, dir, perf, prefix, quality>>

\* _cmd_golden: it writes nothing when the model saturates on the prompt.
DoGolden ==
    /\ Is("golden") /\ Same
    /\ \E saturates \in BOOLEAN :
        IF ~ Loads(Quant) \/ saturates THEN Fail /\ UNCHANGED expected
        ELSE Rest /\ expected' = File(expected_tokens(Quant.is, text, Head(todo).new))
    /\ UNCHANGED <<calib, quants, dir, perf, prefix, quality>>

\* A quantised model that is there is used, whatever text it was built from.
EnsureQuant ==
    /\ Is("ensure quant") /\ Same /\ verdict' = "none"
    /\ todo' = (IF Quant # Absent /\ ~ Head(todo).fresh THEN <<>> ELSE <<Quantize(Full, TRUE)>>) \o Tail(todo)
    /\ UNCHANGED files

\* A compiled directory is used when its layout names this width and prompt.
EnsureImage ==
    /\ Is("ensure image") /\ Same
    /\ LET layout == dir["layout"]
           ready == ~ Head(todo).fresh /\ Whole(layout) /\ layout.is.wb = Head(todo).wb
                    /\ prompt_source(layout.is) = Source
       IN IF session = "toolcall" /\ layout = Torn /\ ~ Head(todo).fresh THEN Fail
          ELSE /\ todo' = (IF ready THEN <<>> ELSE <<CompileStep(Head(todo).wb, TRUE)>>) \o Tail(todo)
               /\ verdict' = "none"
    /\ UNCHANGED files

\* _cmd_compile: load, then one write a file.
DoCompile ==
    /\ Is("compile") /\ Same
    /\ IF ~ Loads(Quant) THEN Fail
       ELSE LET b == Build(Quant.is, Head(todo).wb, IF Head(todo).prompt THEN prompt_tokens(text) ELSE NoPrompt)
                writes == [i \in DOMAIN WriteOrder(b) |-> [op |-> "write", file |-> WriteOrder(b)[i], build |-> b]]
            IN todo' = writes \o Tail(todo) /\ verdict' = "none"
    /\ UNCHANGED files

DoWrite ==
    /\ Is("write") /\ Same
    /\ LET f == Head(todo).file
           b == Head(todo).build
       IN IF f = "layout" /\ expected = Torn THEN Fail /\ UNCHANGED dir
          ELSE Rest /\ dir' = [dir EXCEPT ![f] = File(IF f = "layout" THEN Layout(b, expected) ELSE Content(f, b))]
    /\ UNCHANGED <<calib, quants, expected, perf, prefix, quality>>

-----------------------------------------------------------------------------
(* Running and reporting *)

Prompt == prompt_ids(dir)
Wrote(r, record) == perf' = [perf EXCEPT ![r] = File(record)]

\* The records a run of the whole prompt may leave.
Runs(restored, max_new) ==
    UNION {{Perf(dir, Prompt, restored, Len(Prompt) - 1 - restored, max_new, o, ids) :
                ids \in Emitted(generate(dir["image"].is.m, Prompt, max_new), max_new, o)} : o \in Outcomes}

\* The harness of scripts/demo.sh: its exit code does not stop the report, a
\* record that is not there does.
DoRun ==
    /\ Is("run") /\ Same
    /\ \/ /\ Starts(dir) /\ Rest
          /\ \E record \in Runs(0, Head(todo).new) : Wrote("run", record)
       \/ /\ ~ Starts(dir) /\ UNCHANGED perf
          /\ IF perf["run"] = Absent THEN Fail ELSE Rest
    /\ UNCHANGED <<calib, quants, expected, dir, prefix, quality>>

\* The first turn alone, its cache saved; a wrong cache is not seen here.
DoSave ==
    /\ Is("save") /\ Same
    /\ LET cut == first_turn(Prompt)
       IN \/ /\ Starts(dir) /\ cut > 0 /\ Rest
             /\ Wrote("prefix", Perf(dir, SubSeq(Prompt, 1, cut), 0, cut, 0, "right", <<>>))
             /\ prefix' = File(Header(dir, SubSeq(Prompt, 1, cut)))
          \/ (~ Starts(dir) \/ cut = 0) /\ Fail /\ UNCHANGED <<perf, prefix>>
    /\ UNCHANGED <<calib, quants, expected, dir, quality>>

\* read_header and check_header, the changed copy the harness has to refuse, and
\* the ids another question would share.
CheckHeader ==
    /\ Is("check header") /\ Same
    /\ LET layout == dir["layout"].is
       IN IF /\ Whole(prefix) /\ ~ check_header(prefix.is, layout, Prompt)
             /\ _refusal_check(prefix.is, layout, Prompt)
             /\ shared_with_another_question(layout)
          THEN Rest ELSE Fail
    /\ UNCHANGED files

\* A run of the script has to end well, or prefix.run raises.
RunOrRaise(r, record) ==
    /\ Wrote(r, record)
    /\ IF record.status = "ok" /\ record.events = 0 THEN Rest ELSE Fail

DoReuse ==
    /\ Is("reuse") /\ Same
    /\ \E record \in Runs(Len(prefix.is.ids), Head(todo).new) : RunOrRaise("run", record)
    /\ UNCHANGED <<calib, quants, expected, dir, prefix, quality>>

DoBaseline ==
    /\ Is("baseline") /\ Same
    /\ \E record \in Runs(0, Head(todo).new) : RunOrRaise("baseline", record)
    /\ UNCHANGED <<calib, quants, expected, dir, prefix, quality>>

\* _cmd_demo_report, at the end of a script or by hand.
DoReport ==
    /\ Is("report") /\ Same /\ todo' = <<>>
    /\ LET ok == /\ _demo_report(dir, expected, perf["run"])
                 /\ session = "toolcall" => _demo_prefix(perf["run"], perf["prefix"], perf["baseline"], prefix)
       IN verdict' = IF ok THEN "demo ok" ELSE "demo failed"
    /\ UNCHANGED files

-----------------------------------------------------------------------------
(* Quality *)

\* _cmd_check: every width scored, then merged over the stored report.
DoCheck ==
    /\ Is("check") /\ UNCHANGED <<session, text, budget, figures>>
    /\ LET c == Head(todo)
           m == quants[c.smoothing].is
           seqs == calibration_sequences(text)
           held == heldout_sequences(c.cut)
           rep == IF c.heldout
                  THEN report(m, seqs, {}, heldout_block(held, evaluate_multi(m, held), c.cut))
                  ELSE report(m, seqs, evaluate_multi(m, seqs), NoHeldout)
       IN \E saturates \in BOOLEAN :
          IF \/ ~ Loads(quants[c.smoothing]) \/ m.layers # Full \/ quality = Torn
             \/ saturates \/ (c.heldout /\ ~ Fetches(archive, TRUE))
          THEN Fail /\ UNCHANGED <<quality, archive>>
          ELSE /\ Rest /\ quality' = File(merge_quality(rep, quality))
               /\ archive' = IF c.heldout THEN "pinned" ELSE archive
    /\ UNCHANGED <<calib, quants, expected, dir, perf, prefix>>

\* _cmd_provenance, with or without --no-download.
DoProvenance ==
    /\ Is("provenance") /\ UNCHANGED <<session, text, budget, files, figures>>
    /\ \E download \in BOOLEAN :
        LET held == quality.is.heldout # NoHeldout
        IN IF ~ Whole(quality) \/ (held /\ ~ Fetches(archive, download)) THEN Fail /\ UNCHANGED archive
           ELSE /\ todo' = <<>>
                /\ verdict' = IF provenance(quality.is, text) THEN "provenance ok" ELSE "provenance failed"
                /\ archive' = IF held THEN "pinned" ELSE archive

-----------------------------------------------------------------------------
(* Figures *)

Others == UNCHANGED <<session, text, archive, budget, files>>
Ends(ok, good, bad) == todo' = <<>> /\ verdict' = IF ok THEN good ELSE bad

\* gatesim: every case has to be equivalent; only a run of them all has a table.
DoGatesim ==
    /\ Is("gatesim") /\ Others /\ UNCHANGED gates
    /\ LET c == Head(todo)
           cases == IF c.only = {} THEN DOMAIN gates.design.cases ELSE c.only
           fresh == table_block(gates.design, gates.yosys)
       IN \E odd \in cases, bench \in Benches :
          LET results == [x \in cases |-> IF x = odd THEN bench ELSE Equivalent]
          IN /\ measured' = [of |-> "cases", results |-> results, all |-> c.only = {}]
             /\ IF (\E x \in cases : ~ run_case(results[x])) \/ c.only # {}
                THEN Ends(\A x \in cases : run_case(results[x]), "gatesim ok", "gatesim failed")
                ELSE /\ todo' = <<[op |-> "sync table", write |-> c.write, fresh |-> fresh]>>
                     /\ verdict' = "none"

\* A page without the markers is neither held nor rewritten.
DoSyncTable ==
    /\ Is("sync table") /\ Others /\ UNCHANGED measured
    /\ LET c == Head(todo)
       IN IF c.write /\ Whole(gates.table)
          THEN gates' = [gates EXCEPT !.table = File(c.fresh)] /\ Ends(TRUE, "gatesim ok", "gatesim failed")
          ELSE UNCHANGED gates /\ Ends(sync_table(gates.table, c.fresh), "gatesim ok", "gatesim failed")

\* synth_report: every script is built before anything is compared or written.
DoSynth ==
    /\ Is("synth") /\ Others /\ UNCHANGED gates
    /\ LET c == Head(todo)
           scripts == IF c.scripts = {} THEN DOMAIN gates.design.scripts ELSE c.scripts
           built == [b \in scripts |-> build_page(gates.design, b, gates.yosys)]
           quoted == IF c.check /\ gates.pages[Top] # Absent THEN recorded_tool(gates.pages[Top]) ELSE gates.yosys
           front == Top \in scripts => check_front_page(gates.row, built[Top], quoted)
           writes == [i \in 1 .. Cardinality(scripts) |->
                        LET b == SetToSeq(scripts)[i] IN [op |-> "write page", script |-> b, page |-> built[b]]]
       IN /\ measured' = [of |-> "scripts", scripts |-> scripts, all |-> c.scripts = {}, check |-> c.check]
          /\ \/ Fail
             \/ c.check /\ Ends(front /\ check_pages(gates.pages, built, c.scripts = {}), "synth ok", "synth failed")
             \/ ~ c.check /\ todo' = writes \o <<[op |-> "row", front |-> front]>> /\ verdict' = "none"

DoWritePage ==
    /\ Is("write page") /\ Others /\ Rest /\ UNCHANGED measured
    /\ gates' = [gates EXCEPT !.pages[Head(todo).script] = File(Head(todo).page)]

\* The pages are written whatever the front page says of them.
DoRow == Is("row") /\ Others /\ UNCHANGED figures /\ Ends(Head(todo).front, "synth ok", "synth failed")

Next ==
    \/ Start \/ Edit \/ Interrupt
    \/ DoCalibrate \/ DoQuantize \/ DoGolden \/ EnsureQuant \/ EnsureImage \/ DoCompile \/ DoWrite
    \/ DoRun \/ DoSave \/ CheckHeader \/ DoReuse \/ DoBaseline \/ DoReport
    \/ DoCheck \/ DoProvenance
    \/ DoGatesim \/ DoSyncTable \/ DoSynth \/ DoWritePage \/ DoRow

Spec == Init /\ [][Next]_vars

-----------------------------------------------------------------------------
(* Properties *)

\* What a demo that is OK has to have been.
OneBuild ==
    LET layout == dir["layout"].is
        b == Build(layout.model, layout.wb, layout.prompt)
    IN /\ layout.prompt # NoPrompt
       /\ \A f \in FILES \ {"layout"} : Whole(dir[f]) /\ dir[f].is = Content(f, b)

RunOfIt ==
    LET layout == dir["layout"].is
        run == perf["run"].is
    IN /\ run.ran = dir["image"].is /\ run.prompt = layout.prompt
       /\ run.outcome \in {"right", "wrong id"}

GoldenOfIt ==
    LET layout == dir["layout"].is
        run == perf["run"].is
        record == expected.is.prompts[Source]
    IN /\ Whole(expected) /\ layout.expected # NoEntry /\ expected.is = layout.expected.sha
       /\ run.ids # <<>> /\ run.ids = First(record, run.max_new)
       /\ record = generate(layout.model, layout.prompt, Len(record)) => run.outcome = "right"

ReuseOfIt ==
    LET run == perf["run"].is
        pre == perf["prefix"].is
        base == perf["baseline"].is
    IN /\ Whole(prefix) /\ Whole(perf["prefix"]) /\ Whole(perf["baseline"])
       /\ base.ran = run.ran /\ base.ids = run.ids /\ base.prompt = run.prompt
       /\ run.restored > 0 /\ pre.prefilled = run.restored /\ pre.ran = run.ran

(* The report a demo script ends with says OK exactly when the compiled files  *)
(* are of one compile, the hardware ran that very image on that compile's      *)
(* prompt to a clean end, and the ids are those of the golden record it was    *)
(* compiled against, which is a right run when the record is of that prompt;   *)
(* for a restored prefix also when that image, on that prompt without reuse,   *)
(* gave the same ids: over stale records, edited prompts, a rebuilt model, a   *)
(* partly written directory, a harness that refuses and leaves an older        *)
(* perf.json (scripts/demo.sh, prefix.run, demo-report).                       *)
DemoReportsItsRun ==
    verdict \in {"demo ok", "demo failed"} /\ measured = OwnRun =>
        (verdict = "demo ok" <=>
            /\ Whole(dir["layout"]) /\ Whole(perf["run"])
            /\ OneBuild /\ RunOfIt /\ GoldenOfIt
            /\ session = "toolcall" => ReuseOfIt)

(* Whatever demo-report is OK of, by hand and over whatever records are there, *)
(* the ids are the golden continuation, by the very model that was compiled, of*)
(* the prompt as it stands or stood when the record was taken, and come from a *)
(* clean run of the compiled prompt.  Of the image that ran it knows no more   *)
(* than the path and the size: another build of that size whose ids are these  *)
(* passes (demo-report, compile's _expected_tokens_entry).                     *)
DemoOkIsGolden ==
    verdict = "demo ok" =>
        LET layout == dir["layout"].is
            run == perf["run"].is
        IN /\ run.ids # <<>>
           /\ \E t \in {0, 1} : run.ids = generate(layout.model, prompt_tokens(t), Len(run.ids))
           /\ run.prompt = layout.prompt /\ run.outcome \in {"right", "wrong id"}
           /\ run.ran.wb = layout.wb /\ run.ran.m.layers = layout.model.layers

(* What a demo report says of a run is so: all of it of the run of its script, *)
(* the ids of any (cli.py demo-report).                                        *)
DemoReportIsTrue == DemoReportsItsRun /\ DemoOkIsGolden

(* quality.json: every row was scored on the ids its own set's record names,   *)
(* by a model calibrated as the file says, under the name of its build; and    *)
(* provenance is OK exactly when those are the ids this clone rebuilds and the *)
(* calibration rows' are the ids the quantiser saw.                            *)
RowsAreScored ==
    Whole(quality) =>
        LET rep == quality.is
            held == rep.heldout # NoHeldout
        IN /\ \A r \in rep.rows : r.scored = rep.protocol.ids /\ r.tokens = rep.protocol.tokens
           /\ held => \A r \in rep.heldout.rows :
                r.scored = rep.heldout.protocol.ids /\ r.tokens = rep.heldout.protocol.tokens
           /\ \A r \in rep.rows \cup rep.heldout.rows :
                 r.model.calib = rep.calib /\ r.config[2] = r.model.smoothing /\ r.ok
           /\ verdict \in {"provenance ok", "provenance failed"} =>
                (verdict = "provenance ok" <=>
                    /\ rep.protocol.ids = calibration_sequences(text) /\ rep.calib = calibration_sequences(text)
                    /\ held => \A r \in rep.heldout.rows : r.scored = heldout_sequences(rep.heldout.source))

(* The table of gatesim: its figures are those of one build; a run is OK only  *)
(* if each netlist gave what its source gave wherever the source is defined,   *)
(* in nine cycles of ten, and a full one only if the table states the cases    *)
(* there are, and on its own build the cell counts of this design.             *)
TableIsMeasured ==
    LET d == gates.design
        t == gates.table.is
        undefined(c) == {i \in DOMAIN c.trace : c.trace[i].src = Undefined}
        agrees(c) == /\ \A i \in DOMAIN c.trace \ undefined(c) : c.trace[i].src = c.trace[i].gate
                     /\ 10 * Cardinality(undefined(c)) <= Len(c.trace)
        states == /\ Whole(gates.table) /\ DOMAIN t.rows = DOMAIN d.cases
                  /\ \A c \in DOMAIN t.rows :
                       /\ t.rows[c].cfg = d.cases[c]
                       /\ t.tool = gates.yosys => t.rows[c].cells = Packed(d, c, d.cases[c], t.tool)
    IN /\ Whole(gates.table) => \A c \in DOMAIN t.rows :
             t.rows[c].cells = Packed([rtl |-> t.rows[c].cells[3]], c, t.rows[c].cfg, t.tool)
       /\ verdict = "gatesim ok" => /\ \A c \in DOMAIN measured.results : agrees(measured.results[c])
                                    /\ measured.all => states
       /\ verdict = "gatesim failed" =>
             (\E c \in DOMAIN measured.results : measured.results[c] # Equivalent) \/ ~ states

(* The synthesis pages and the front page: a run is OK exactly when each page  *)
(* it built states the design, and on its own build the packing above notes    *)
(* that end as they should, when a full check finds no page of a script that is*)
(* gone, and when the front page names the build of the page it quotes and has *)
(* that page's figures.  On another build its packed figures are held to       *)
(* nothing, only the inferred ones are; and a page whose writing was stopped   *)
(* passes when it still states all of them.                                    *)
PagesAreMeasured ==
    LET d == gates.design
        states(b) ==
            /\ Whole(gates.pages[b])
            /\ gates.pages[b].is.facts = <<d.scripts[b], Inferred(d, b)>>
            /\ gates.pages[b].is.tool = gates.yosys =>
                  /\ gates.pages[b].is.packed = Packed(d, b, d.scripts[b], gates.yosys)
                  /\ gates.pages[b].is.notes = Ended
        quotes ==
            LET page == gates.pages[Top].is
            IN /\ gates.row.stated /\ gates.row.build = page.tool /\ gates.row.inferred = page.facts[2]
               /\ page.tool = gates.yosys => gates.row.packed = page.packed
    IN verdict \in {"synth ok", "synth failed"} =>
         (verdict = "synth ok" <=>
             /\ \A b \in measured.scripts : states(b)
             /\ Top \in measured.scripts => quotes
             /\ measured.all /\ measured.check =>
                   \A b \in Blocks \ measured.scripts : gates.pages[b] = Absent)

(* What is published is what a clone would measure: whatever was edited,       *)
(* re-quantised, re-scored, synthesised by another build or interrupted in     *)
(* between (quality check and provenance, gatesim, synth_report).              *)
PublishedIsMeasured == RowsAreScored /\ TableIsMeasured /\ PagesAreMeasured
=============================================================================
