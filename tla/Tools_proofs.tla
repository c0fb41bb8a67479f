---------------------------- MODULE Tools_proofs ----------------------------
(***************************************************************************)
(* Proofs about Tools: the steps of every session keep their order, and     *)
(* what is published is measured, for any number of commands, edits and     *)
(* stops, any blocks, Yosys builds, benches and cuts of the held-out text.  *)
(***************************************************************************)
EXTENDS Tools, Wraps, FiniteSetTheorems

-----------------------------------------------------------------------------
(* Invariants *)

\* The steps a session's commands are made of.
OpsOf == [demo |-> {"calibrate", "quantize", "report", "compile", "golden", "ensure quant", "ensure image", "run", "write"},
          toolcall |-> {"calibrate", "quantize", "report", "compile", "ensure quant", "ensure image", "write",
                        "save", "check header", "reuse", "baseline"},
          quality |-> {"calibrate", "quantize", "provenance", "check"},
          figures |-> {"gatesim", "sync table", "synth", "write page", "row"}]

VerdictsOf == [demo |-> {"demo ok", "demo failed"}, toolcall |-> {"demo ok", "demo failed"},
               quality |-> {"provenance ok", "provenance failed"},
               figures |-> {"gatesim ok", "gatesim failed", "synth ok", "synth failed"}]

Steps == 1 .. Len(todo)
Shape ==
    /\ session \in {"demo", "toolcall", "quality", "figures"}
    /\ IsSeq(todo)
    /\ \A i \in Steps : todo[i].op \in OpsOf[session]
    /\ verdict \in {"none", "error"} \cup VerdictsOf[session]

\* The table and the pages, whoever wrote them: the figures of one build.
IsTable(f) ==
    /\ f = File([tool |-> f.is.tool, rows |-> f.is.rows])
    /\ f.is.rows = [c \in DOMAIN f.is.rows |-> [cfg |-> f.is.rows[c].cfg, cells |-> f.is.rows[c].cells]]
    /\ \A c \in DOMAIN f.is.rows :
          f.is.rows[c].cells = Packed([rtl |-> f.is.rows[c].cells[3]], c, f.is.rows[c].cfg, f.is.tool)
IsPage(f) ==
    /\ f = File([tool |-> f.is.tool, facts |-> f.is.facts, packed |-> f.is.packed, notes |-> f.is.notes])
    /\ f.is.tool \in Builds \/ (f.is.tool = "" /\ f.is.facts = <<>>)
IsGates(g) ==
    /\ g = [design |-> g.design, yosys |-> g.yosys, table |-> g.table, pages |-> g.pages, row |-> g.row]
    /\ g.design = [rtl |-> g.design.rtl, cases |-> g.design.cases, scripts |-> g.design.scripts]
    /\ g.yosys \in Builds /\ DOMAIN g.design.scripts \subseteq Blocks
    /\ g.table = Torn \/ IsTable(g.table)
    /\ g.pages = [b \in Blocks |-> g.pages[b]]
    /\ \A b \in Blocks : IsPage(g.pages[b])
FiguresType == IsGates(gates)

\* What a step that is left relies on: the design and the build it was measured
\* of are the ones there are, and what is measured is what it will write.
Agree(c) ==
    /\ \A i \in DOMAIN c.trace : c.trace[i].src # Undefined => c.trace[i].src = c.trace[i].gate
    /\ 10 * Cardinality({i \in DOMAIN c.trace : c.trace[i].src = Undefined}) <= Len(c.trace)
OfNow(g, b, page) ==
    /\ page = [tool |-> g.yosys, facts |-> <<g.design.scripts[b], Inferred(g.design, b)>>,
               packed |-> Packed(g.design, b, g.design.scripts[b], g.yosys), notes |-> page.notes]
    /\ page.notes = Ended
FrontOf(g) ==
    /\ g.row.stated /\ g.row.build = g.yosys
    /\ g.row.inferred = Inferred(g.design, Top)
    /\ g.row.packed = Packed(g.design, Top, g.design.scripts[Top], g.yosys)
Relies(t, i, g, m) ==
    /\ t[i].op = "synth" => t[i].scripts \subseteq DOMAIN g.design.scripts
    /\ t[i].op = "sync table" =>
          /\ t[i].fresh = table_block(g.design, g.yosys)
          /\ m.all
          /\ \A c \in DOMAIN m.results : Agree(m.results[c])
    /\ t[i].op = "write page" => t[i].script \in Blocks /\ OfNow(g, t[i].script, t[i].page)
    /\ t[i].op = "row" =>
          /\ ~ m.check /\ m.scripts \subseteq Blocks
          /\ t[i].front <=> (Top \in m.scripts => FrontOf(g))
          /\ \A b \in m.scripts :
                \/ Whole(g.pages[b]) /\ OfNow(g, b, g.pages[b].is)
                \/ \E j \in 1 .. i - 1 : t[j].op = "write page" /\ t[j].script = b
FiguresTodo == \A i \in Steps : Relies(todo, i, gates, measured)

FiguresInv == session = "figures" => FiguresTodo /\ TableIsMeasured /\ PagesAreMeasured

-----------------------------------------------------------------------------

\* quality.json: every row is of the ids and the calibration the file names.
IsRow(r, seqs, seen) ==
    /\ r.scored = seqs /\ r.tokens = Tokens(seqs) /\ r.ok
    /\ r.model.calib = seen /\ r.config[2] = r.model.smoothing
IsHeld(h, seen) ==
    /\ h.source \in Cuts
    /\ h = heldout_block(heldout_sequences(h.source), h.rows, h.source)
    /\ \A r \in h.rows : IsRow(r, heldout_sequences(h.source), seen)
IsReport(rep) ==
    /\ rep.protocol = Protocol(rep.protocol.ids)
    /\ \A r \in rep.rows : IsRow(r, rep.protocol.ids, rep.calib)
    /\ rep.heldout = NoHeldout \/ IsHeld(rep.heldout, rep.calib)
IsQuality(q) ==
    /\ q = File([model |-> q.is.model, calib |-> q.is.calib, protocol |-> q.is.protocol,
                 rows |-> q.is.rows, heldout |-> q.is.heldout])
    /\ IsReport(q.is)
QualityType == quality = Absent \/ quality = Torn \/ IsQuality(quality)
QualityTodo == \A i \in Steps : todo[i].op = "check" /\ todo[i].heldout => todo[i].cut \in Cuts
QualityInv == IF session = "quality" THEN QualityType /\ QualityTodo /\ RowsAreScored ELSE quality = Absent

-----------------------------------------------------------------------------

PublishInv == Shape /\ FiguresType /\ FiguresInv /\ QualityInv

-----------------------------------------------------------------------------
(* The steps of a command *)

LEMMA NoSteps == IsSeq(<<>>) /\ Len(<<>>) = 0
<1>1. <<>> \in Seq({}) /\ Len(<<>>) = 0
    BY EmptySeq
<1> QED BY <1>1, SeqIn

LEMMA OneStep ==
    ASSUME NEW x
    PROVE  IsSeq(<<x>>) /\ Len(<<x>>) = 1 /\ <<x>>[1] = x
<1>1. <<x>> \in Seq({x}) /\ Len(<<x>>) = 1 /\ <<x>>[1] = x
    OBVIOUS
<1> QED BY <1>1, SeqIn

LEMMA FourSteps ==
    ASSUME NEW a, NEW b, NEW c, NEW d
    PROVE  LET s == <<a, b, c, d>>
           IN IsSeq(s) /\ Len(s) = 4 /\ s[1] = a /\ s[2] = b /\ s[3] = c /\ s[4] = d
<1>1. <<a, b, c, d>> \in Seq({a, b, c, d})
    OBVIOUS
<1> QED BY <1>1, SeqIn

LEMMA SevenSteps ==
    ASSUME NEW a, NEW b, NEW c, NEW d, NEW e, NEW f, NEW g
    PROVE  LET s == <<a, b, c, d, e, f, g>>
           IN /\ IsSeq(s) /\ Len(s) = 7 /\ s[1] = a /\ s[2] = b /\ s[3] = c /\ s[4] = d
              /\ s[5] = e /\ s[6] = f /\ s[7] = g
<1>1. <<a, b, c, d, e, f, g>> \in Seq({a, b, c, d, e, f, g})
    OBVIOUS
<1> QED BY <1>1, SeqIn

\* What is done first is replaced by what it takes.
LEMMA Prepend ==
    ASSUME NEW s, NEW w, IsSeq(s), s # <<>>, IsSeq(w)
    PROVE  /\ IsSeq(w \o Tail(s)) /\ Len(w \o Tail(s)) = Len(w) + Len(s) - 1
           /\ Len(w) \in Nat /\ Len(s) \in Nat \ {0}
           /\ \A i \in 1 .. Len(w) : (w \o Tail(s))[i] = w[i]
           /\ \A i \in Len(w) + 1 .. Len(w) + Len(s) - 1 : (w \o Tail(s))[i] = s[i - Len(w) + 1]
<1> DEFINE t == Tail(s)
<1>1. /\ IsSeq(t) /\ Len(t) = Len(s) - 1
      /\ \A i \in 1 .. Len(s) - 1 : t[i] = s[i + 1]
    BY SeqTail
<1>2. Len(w) \in Nat /\ Len(s) \in Nat /\ Len(s) # 0 /\ Len(t) \in Nat
    BY <1>1, SeqLen
<1> HIDE DEF t
<1>3. /\ IsSeq(w \o t) /\ Len(w \o t) = Len(w) + Len(t)
      /\ \A i \in 1 .. Len(w) + Len(t) : (w \o t)[i] = IF i <= Len(w) THEN w[i] ELSE t[i - Len(w)]
    BY <1>1, SeqConcat
<1>4. ASSUME NEW i \in Len(w) + 1 .. Len(w) + Len(s) - 1
      PROVE  (w \o t)[i] = s[i - Len(w) + 1]
    <2>1. i \in 1 .. Len(w) + Len(t) /\ ~ (i <= Len(w)) /\ i - Len(w) \in 1 .. Len(s) - 1
        BY <1>1, <1>2
    <2>2. (w \o t)[i] = t[i - Len(w)]
        BY <1>3, <2>1
    <2>3. t[i - Len(w)] = s[(i - Len(w)) + 1]
        BY <1>1, <2>1
    <2> QED BY <2>2, <2>3
<1>5. ASSUME NEW i \in 1 .. Len(w)
      PROVE  (w \o t)[i] = w[i]
    BY <1>1, <1>2, <1>3
<1> QED BY <1>1, <1>2, <1>3, <1>4, <1>5 DEF t

\* The first of the steps is what the guard of an action reads.
LEMMA HeadIs ==
    ASSUME Shape, todo # <<>>
    PROVE  /\ Len(todo) \in Nat \ {0} /\ 1 \in Steps /\ Head(todo) = todo[1]
           /\ IsSeq(Tail(todo)) /\ Len(Tail(todo)) = Len(todo) - 1
           /\ \A i \in 1 .. Len(todo) - 1 : i + 1 \in Steps /\ Tail(todo)[i] = todo[i + 1]
<1>1. IsSeq(todo)
    BY DEF Shape
<1>2. Len(todo) \in Nat /\ Len(todo) # 0
    BY <1>1, SeqLen
<1>3. /\ IsSeq(Tail(todo)) /\ Len(Tail(todo)) = Len(todo) - 1 /\ Head(todo) = todo[1]
      /\ \A i \in 1 .. Len(todo) - 1 : Tail(todo)[i] = todo[i + 1]
    BY <1>1, SeqTail
<1> QED BY <1>2, <1>3 DEF Steps

\* A command with a step less, or none, keeps its shape.
LEMMA ShapeShorter ==
    ASSUME Shape, todo # <<>>, todo' = Tail(todo) \/ todo' = <<>>, session' = session,
           verdict' \in {"none", "error"} \cup VerdictsOf[session]
    PROVE  Shape'
<1>1. CASE todo' = <<>>
    <2>1. IsSeq(todo') /\ Len(todo') = 0
        BY <1>1, NoSteps
    <2>2. \A i \in 1 .. Len(todo') : todo'[i].op \in OpsOf[session']
        BY <2>1
    <2> QED BY <2>1, <2>2 DEF Shape, Steps
<1>2. CASE todo' = Tail(todo)
    <2>1. /\ IsSeq(todo') /\ Len(todo') = Len(todo) - 1
          /\ \A i \in 1 .. Len(todo) - 1 : i + 1 \in Steps /\ todo'[i] = todo[i + 1]
        BY <1>2, HeadIs
    <2>2. \A i \in 1 .. Len(todo') : todo'[i].op \in OpsOf[session']
        BY <2>1 DEF Shape
    <2> QED BY <2>1, <2>2 DEF Shape, Steps
<1> QED BY <1>1, <1>2

\* One step of a kind, or none.
LEMMA OneOf ==
    ASSUME NEW x, NEW S, x.op \in S
    PROVE  IsSeq(<<x>>) /\ \A i \in 1 .. Len(<<x>>) : <<x>>[i].op \in S
<1> DEFINE w == <<x>>
<1>1. IsSeq(w) /\ Len(w) = 1 /\ w[1] = x
    BY OneStep
<1> HIDE DEF w
<1>2. Len(w) = 1
    BY <1>1
<1>3. \A i \in 1 .. Len(w) : i = 1
    BY <1>2
<1>4. \A i \in 1 .. Len(w) : w[i].op \in S
    BY <1>1, <1>3
<1> QED BY <1>1, <1>4 DEF w
LEMMA NoneOf ==
    ASSUME NEW S
    PROVE  IsSeq(<<>>) /\ \A i \in 1 .. Len(<<>>) : <<>>[i].op \in S
<1> DEFINE w == <<>>
<1>1. IsSeq(w) /\ Len(w) = 0
    BY NoSteps
<1> HIDE DEF w
<1>2. Len(w) = 0
    BY <1>1
<1>3. \A i \in 1 .. Len(w) : FALSE
    BY <1>2
<1> QED BY <1>1, <1>3 DEF w

\* The commands of a session, and no others.
LEMMA CommandsAre ==
    /\ session = "demo" => Commands = DemoCommands
    /\ session = "toolcall" => Commands = ToolcallCommands
    /\ session = "quality" => Commands = QualityCommands
    /\ session = "figures" => Commands = FiguresCommands
BY DEF Commands

\* The steps of the scripts of the demos.
IsDemoScript(c, wb, n, f) ==
    /\ IsSeq(c) /\ Len(c) = 4 /\ c[1] = [op |-> "ensure quant", fresh |-> f]
    /\ c[2] = [op |-> "ensure image", wb |-> wb, fresh |-> f]
    /\ c[3] = [op |-> "run", new |-> n] /\ c[4] = Step("report")
    /\ c[1].op = "ensure quant" /\ c[2].op = "ensure image" /\ c[3].op = "run" /\ c[4].op = "report"
    /\ \A i \in 1 .. Len(c) : i = 1 \/ i = 2 \/ i = 3 \/ i = 4
IsToolcallScript(c, wb, n, f) ==
    /\ IsSeq(c) /\ Len(c) = 7 /\ c[1] = [op |-> "ensure quant", fresh |-> f]
    /\ c[2] = [op |-> "ensure image", wb |-> wb, fresh |-> f]
    /\ c[3] = Step("save") /\ c[4] = Step("check header") /\ c[5] = [op |-> "reuse", new |-> n]
    /\ c[6] = [op |-> "baseline", new |-> n] /\ c[7] = Step("report")
    /\ c[1].op = "ensure quant" /\ c[2].op = "ensure image" /\ c[3].op = "save" /\ c[4].op = "check header"
    /\ c[5].op = "reuse" /\ c[6].op = "baseline" /\ c[7].op = "report"
    /\ \A i \in 1 .. Len(c) : i = 1 \/ i = 2 \/ i = 3 \/ i = 4 \/ i = 5 \/ i = 6 \/ i = 7
LEMMA DemoSteps ==
    ASSUME NEW wb, NEW n, NEW f
    PROVE  IsDemoScript(DemoScript(wb, n, f), wb, n, f)
<1> DEFINE c == DemoScript(wb, n, f)
           a == [op |-> "ensure quant", fresh |-> f]
           b == [op |-> "ensure image", wb |-> wb, fresh |-> f]
           r == [op |-> "run", new |-> n]
           z == Step("report")
<1>1. c = <<a, b, r, z>>
    BY DEF DemoScript
<1>2. a.op = "ensure quant" /\ b.op = "ensure image" /\ r.op = "run" /\ z.op = "report"
    BY DEF Step
<1> HIDE DEF a, b, r, z, c
<1>3. IsSeq(c) /\ Len(c) = 4 /\ c[1] = a /\ c[2] = b /\ c[3] = r /\ c[4] = z
    BY <1>1, FourSteps
<1>4. Len(c) = 4
    BY <1>3
<1>5. \A i \in 1 .. Len(c) : i = 1 \/ i = 2 \/ i = 3 \/ i = 4
    BY <1>4
<1>6. c[1].op = "ensure quant" /\ c[2].op = "ensure image" /\ c[3].op = "run" /\ c[4].op = "report"
    BY <1>2, <1>3
<1> QED BY <1>3, <1>5, <1>6 DEF a, b, r, z, c, IsDemoScript
LEMMA ToolcallSteps ==
    ASSUME NEW wb, NEW n, NEW f
    PROVE  IsToolcallScript(ToolcallScript(wb, n, f), wb, n, f)
<1> DEFINE c == ToolcallScript(wb, n, f)
           a == [op |-> "ensure quant", fresh |-> f]
           b == [op |-> "ensure image", wb |-> wb, fresh |-> f]
           x == Step("save")
           y == Step("check header")
           r == [op |-> "reuse", new |-> n]
           s == [op |-> "baseline", new |-> n]
           z == Step("report")
<1>1. c = <<a, b, x, y, r, s, z>>
    BY DEF ToolcallScript
<1>2. /\ a.op = "ensure quant" /\ b.op = "ensure image" /\ x.op = "save" /\ y.op = "check header"
      /\ r.op = "reuse" /\ s.op = "baseline" /\ z.op = "report"
    BY DEF Step
<1> HIDE DEF a, b, x, y, r, s, z, c
<1>3. /\ IsSeq(c) /\ Len(c) = 7 /\ c[1] = a /\ c[2] = b /\ c[3] = x /\ c[4] = y
      /\ c[5] = r /\ c[6] = s /\ c[7] = z
    BY <1>1, SevenSteps
<1>4. Len(c) = 7
    BY <1>3
<1>5. \A i \in 1 .. Len(c) : i = 1 \/ i = 2 \/ i = 3 \/ i = 4 \/ i = 5 \/ i = 6 \/ i = 7
    BY <1>4
<1>6. /\ c[1].op = "ensure quant" /\ c[2].op = "ensure image" /\ c[3].op = "save" /\ c[4].op = "check header"
      /\ c[5].op = "reuse" /\ c[6].op = "baseline" /\ c[7].op = "report"
    BY <1>2, <1>3
<1> QED BY <1>3, <1>5, <1>6 DEF a, b, x, y, r, s, z, c, IsToolcallScript

\* The steps of a new command are its session's.
LEMMA CommandShape ==
    ASSUME Shape, NEW c \in Commands
    PROVE  IsSeq(c) /\ \A i \in 1 .. Len(c) : c[i].op \in OpsOf[session]
<1> DEFINE Of == IsSeq(c) /\ \A i \in 1 .. Len(c) : c[i].op \in OpsOf[session]
<1> SUFFICES Of
    OBVIOUS
<1>1. ASSUME NEW x, c = <<x>>, x.op \in OpsOf[session]
      PROVE  Of
    BY <1>1, OneStep
<1>2. CASE session = "demo"
    <2>1. CASE c \in {<<Step("calibrate")>>, <<Quantize(Few, TRUE)>>, <<Step("report")>>}
        BY <2>1, <1>2, <1>1 DEF Step, Quantize, OpsOf
    <2>2. CASE \E wb \in Widths : c = <<CompileStep(wb, FALSE)>>
        BY <2>2, <1>2, <1>1 DEF CompileStep, OpsOf
    <2>3. CASE \E n \in MaxNews[session] : c = <<[op |-> "golden", new |-> n]>>
        BY <2>3, <1>2, <1>1 DEF OpsOf
    <2>4. ASSUME NEW wb, NEW n, NEW f, c = DemoScript(wb, n, f)
          PROVE  Of
        <3>0. IsDemoScript(c, wb, n, f)
            BY <2>4, DemoSteps
        <3>1. IsSeq(c) /\ \A i \in 1 .. Len(c) : i = 1 \/ i = 2 \/ i = 3 \/ i = 4
            BY <3>0 DEF IsDemoScript
        <3>2. c[1].op = "ensure quant" /\ c[2].op = "ensure image" /\ c[3].op = "run" /\ c[4].op = "report"
            BY <3>0 DEF IsDemoScript
        <3>3. {"ensure quant", "ensure image", "run", "report"} \subseteq OpsOf[session]
            BY <1>2 DEF OpsOf
        <3> QED BY <3>1, <3>2, <3>3 DEF Of
    <2> DEFINE A == {<<Step("calibrate")>>, <<Quantize(Few, TRUE)>>, <<Step("report")>>}
               B == {<<CompileStep(wb, FALSE)>> : wb \in Widths}
               G == {<<[op |-> "golden", new |-> n]>> : n \in MaxNews[session]}
               D == {DemoScript(wb, n, f) : wb \in Widths, n \in MaxNews[session], f \in BOOLEAN}
    <2>5. c \in A \/ c \in B \/ c \in G \/ c \in D
        <3>1. c \in DemoCommands
            BY <1>2, CommandsAre
        <3>2. DemoCommands = A \cup B \cup G \cup D
            BY DEF DemoCommands
        <3> HIDE DEF A, B, G, D
        <3> QED BY <3>1, <3>2
    <2> HIDE DEF Of
    <2>6. CASE c \in D
        <3>1. PICK wb \in Widths, n \in MaxNews[session], f \in BOOLEAN : c = DemoScript(wb, n, f)
            BY <2>6
        <3> QED BY <3>1, <2>4
    <2>7. CASE c \in B
        BY <2>7, <2>2
    <2>8. CASE c \in G
        BY <2>8, <2>3
    <2>9. CASE c \in A
        BY <2>9, <2>1
    <2> HIDE DEF A, B, G, D
    <2> QED BY <2>5, <2>6, <2>7, <2>8, <2>9
<1>3. CASE session = "toolcall"
    <2>1. CASE c \in {<<Step("calibrate")>>, <<Step("report")>>}
        BY <2>1, <1>3, <1>1 DEF Step, OpsOf
    <2>2. ASSUME NEW wb, NEW n, NEW f, c = ToolcallScript(wb, n, f)
          PROVE  Of
        <3>0. IsToolcallScript(c, wb, n, f)
            BY <2>2, ToolcallSteps
        <3>1. IsSeq(c) /\ \A i \in 1 .. Len(c) : i = 1 \/ i = 2 \/ i = 3 \/ i = 4 \/ i = 5 \/ i = 6 \/ i = 7
            BY <3>0 DEF IsToolcallScript
        <3>2. /\ c[1].op = "ensure quant" /\ c[2].op = "ensure image" /\ c[3].op = "save" /\ c[4].op = "check header"
              /\ c[5].op = "reuse" /\ c[6].op = "baseline" /\ c[7].op = "report"
            BY <3>0 DEF IsToolcallScript
        <3>3. {"ensure quant", "ensure image", "save", "check header", "reuse", "baseline", "report"} \subseteq OpsOf[session]
            BY <1>3 DEF OpsOf
        <3> QED BY <3>1, <3>2, <3>3 DEF Of
    <2>3. \/ c \in {<<Step("calibrate")>>, <<Step("report")>>}
          \/ \E wb, n, f : c = ToolcallScript(wb, n, f)
        BY <1>3, CommandsAre DEF ToolcallCommands
    <2> HIDE DEF Of
    <2> QED BY <2>1, <2>2, <2>3
<1>4. CASE session = "quality"
    <2>1. CASE \E l, s : c = <<Quantize(l, s)>>
        BY <2>1, <1>4, <1>1 DEF Quantize, OpsOf
    <2>2. CASE c \in {<<Step("calibrate")>>, <<Step("provenance")>>}
        BY <2>2, <1>4, <1>1 DEF Step, OpsOf
    <2>3. CASE \E s : c = <<[op |-> "check", smoothing |-> s, heldout |-> FALSE]>>
        BY <2>3, <1>4, <1>1 DEF OpsOf
    <2>4. CASE \E s, x : c = <<[op |-> "check", smoothing |-> s, heldout |-> TRUE, cut |-> x]>>
        BY <2>4, <1>4, <1>1 DEF OpsOf
    <2>5. \/ \E l, s : c = <<Quantize(l, s)>>
          \/ c \in {<<Step("calibrate")>>, <<Step("provenance")>>}
          \/ \E s : c = <<[op |-> "check", smoothing |-> s, heldout |-> FALSE]>>
          \/ \E s, x : c = <<[op |-> "check", smoothing |-> s, heldout |-> TRUE, cut |-> x]>>
        BY <1>4, CommandsAre DEF QualityCommands
    <2> HIDE DEF Of
    <2> QED BY <2>1, <2>2, <2>3, <2>4, <2>5
<1>5. CASE session = "figures"
    <2>1. CASE \E o, w : c = <<[op |-> "gatesim", only |-> o, write |-> w]>>
        BY <2>1, <1>5, <1>1 DEF OpsOf
    <2>2. CASE \E s, k : c = <<[op |-> "synth", scripts |-> s, check |-> k]>>
        BY <2>2, <1>5, <1>1 DEF OpsOf
    <2>3. \/ \E o, w : c = <<[op |-> "gatesim", only |-> o, write |-> w]>>
          \/ \E s, k : c = <<[op |-> "synth", scripts |-> s, check |-> k]>>
        BY <1>5, CommandsAre DEF FiguresCommands
    <2> HIDE DEF Of
    <2> QED BY <2>1, <2>2, <2>3
<1> QED BY <1>2, <1>3, <1>4, <1>5 DEF Shape

\* A command whose first step is replaced by others of its session.
LEMMA ShapeLonger ==
    ASSUME Shape, todo # <<>>, NEW w, IsSeq(w), \A i \in 1 .. Len(w) : w[i].op \in OpsOf[session],
           todo' = w \o Tail(todo), session' = session, verdict' = "none"
    PROVE  Shape'
<1>1. /\ IsSeq(todo') /\ Len(todo') = Len(w) + Len(todo) - 1
      /\ Len(w) \in Nat /\ Len(todo) \in Nat \ {0}
      /\ \A i \in 1 .. Len(w) : todo'[i] = w[i]
      /\ \A i \in Len(w) + 1 .. Len(w) + Len(todo) - 1 : todo'[i] = todo[i - Len(w) + 1]
    BY Prepend DEF Shape
<1>2. ASSUME NEW i \in 1 .. Len(todo') PROVE todo'[i].op \in OpsOf[session]
    <2>1. CASE i <= Len(w)
        BY <1>1, <2>1
    <2>2. CASE i > Len(w)
        <3>1. i \in Len(w) + 1 .. Len(w) + Len(todo) - 1 /\ i - Len(w) + 1 \in 1 .. Len(todo)
            BY <1>1, <2>2
        <3>2. todo'[i] = todo[i - Len(w) + 1]
            BY <1>1, <3>1
        <3>3. todo[i - Len(w) + 1].op \in OpsOf[session]
            BY <3>1 DEF Shape, Steps
        <3> QED BY <3>2, <3>3
    <2> QED BY <1>1, <2>1, <2>2
<1> QED BY <1>1, <1>2 DEF Shape, Steps

\* The steps that do one thing and go on, or fail.
Plain ==
    \/ DoCalibrate \/ DoQuantize \/ DoGolden \/ DoWrite \/ DoRun \/ DoSave \/ CheckHeader
    \/ DoReuse \/ DoBaseline \/ DoCheck \/ DoWritePage
LEMMA PlainIs ==
    ASSUME Plain
    PROVE  /\ todo # <<>> /\ session' = session
           /\ \/ todo' = Tail(todo) /\ verdict' = "none"
              \/ todo' = <<>> /\ verdict' = "error"
<1>1. CASE DoCalibrate
    BY <1>1 DEF DoCalibrate, Is, Rest, Same
<1>2. CASE DoQuantize
    BY <1>2 DEF DoQuantize, Is, Rest, Fail, Same
<1>3. CASE DoGolden
    BY <1>3 DEF DoGolden, Is, Rest, Fail, Same
<1>4. CASE DoWrite
    BY <1>4 DEF DoWrite, Is, Rest, Fail, Same
<1>5. CASE DoRun
    BY <1>5 DEF DoRun, Is, Rest, Fail, Same
<1>6. CASE DoSave
    BY <1>6 DEF DoSave, Is, Rest, Fail, Same
<1>7. CASE CheckHeader
    BY <1>7 DEF CheckHeader, Is, Rest, Fail, Same
<1>8. CASE DoReuse
    BY <1>8 DEF DoReuse, RunOrRaise, Is, Rest, Fail, Same
<1>9. CASE DoBaseline
    BY <1>9 DEF DoBaseline, RunOrRaise, Is, Rest, Fail, Same
<1>10. CASE DoCheck
    BY <1>10 DEF DoCheck, Is, Rest, Fail
<1>11. CASE DoWritePage
    BY <1>11 DEF DoWritePage, Is, Rest, Others
<1> QED BY <1>1, <1>2, <1>3, <1>4, <1>5, <1>6, <1>7, <1>8, <1>9, <1>10, <1>11 DEF Plain

\* What a compile writes, one file a step.
LEMMA WritesAre ==
    ASSUME NEW b
    PROVE  LET w == [i \in DOMAIN WriteOrder(b) |-> [op |-> "write", file |-> WriteOrder(b)[i], build |-> b]]
           IN /\ IsSeq(w) /\ Len(w) \in Nat
              /\ \A i \in 1 .. Len(w) : /\ w[i].op = "write" /\ w[i].file \in FILES /\ w[i].build = b
                                        /\ w[i].file = "prompt" => b.prompt # NoPrompt
<1> DEFINE o == WriteOrder(b)
           S == IF b.prompt = NoPrompt THEN FILES \ {"prompt"} ELSE FILES
<1>1. o \in Seq(S)
    <2>1. <<"image", "decode", "prefill", "tokens_bin">> \in Seq(S) /\ <<"dump_plan", "layout">> \in Seq(S)
        <3>1. {"image", "decode", "prefill", "tokens_bin", "dump_plan", "layout"} \subseteq S
            BY DEF FILES
        <3> HIDE DEF S
        <3> QED BY <3>1
    <2>2. (IF b.prompt = NoPrompt THEN <<>> ELSE <<"prompt">>) \in Seq(S)
        <3>1. b.prompt # NoPrompt => "prompt" \in S
            BY DEF FILES
        <3> HIDE DEF S
        <3>2. <<>> \in Seq(S)
            OBVIOUS
        <3> QED BY <3>1, <3>2
    <2> HIDE DEF S
    <2> QED BY <2>1, <2>2 DEF WriteOrder
<1>2. Len(o) \in Nat /\ DOMAIN o = 1 .. Len(o) /\ \A i \in 1 .. Len(o) : o[i] \in S
    BY <1>1, LenProperties
<1> DEFINE w == [i \in DOMAIN o |-> [op |-> "write", file |-> o[i], build |-> b]]
<1> HIDE DEF o
<1>3. /\ w \in Seq({[op |-> "write", file |-> f, build |-> b] : f \in S}) /\ Len(w) = Len(o)
      /\ \A i \in 1 .. Len(w) : w[i] = [op |-> "write", file |-> o[i], build |-> b]
    BY <1>2, SeqDef
<1>4. IsSeq(w)
    BY <1>3, SeqIn
<1>5. \A i \in 1 .. Len(w) : /\ w[i].op = "write" /\ w[i].file \in FILES /\ w[i].build = b
                             /\ w[i].file = "prompt" => b.prompt # NoPrompt
    BY <1>2, <1>3
<1> QED BY <1>2, <1>3, <1>4, <1>5 DEF o
-----------------------------------------------------------------------------
(* Every step of a command is its session's *)

\* The session of the step that is next.
LEMMA SessionOf ==
    ASSUME Shape, todo # <<>>
    PROVE  /\ session \in {"demo", "toolcall", "quality", "figures"}
           /\ Head(todo).op \in OpsOf[session]
           /\ Head(todo).op \in {"gatesim", "sync table", "synth", "write page", "row"} => session = "figures"
           /\ Head(todo).op \in {"provenance", "check"} => session = "quality"
           /\ Head(todo).op \in {"report", "compile", "ensure quant", "ensure image", "write"} => session \in {"demo", "toolcall"}
           /\ Head(todo).op \in {"golden", "run"} => session = "demo"
           /\ Head(todo).op \in {"save", "check header", "reuse", "baseline"} => session = "toolcall"
           /\ Head(todo).op \in {"calibrate", "quantize"} => session \in {"demo", "toolcall", "quality"}
<1>1. Head(todo) = todo[1] /\ 1 \in Steps
    BY HeadIs
<1>2. Head(todo).op \in OpsOf[session] /\ session \in {"demo", "toolcall", "quality", "figures"}
    BY <1>1 DEF Shape
<1> DEFINE op == Head(todo).op
<1> HIDE DEF op
<1>3. op \in OpsOf[session]
    BY <1>2 DEF op
<1>4. CASE session = "demo"
    <2>1. OpsOf[session] = {"calibrate", "quantize", "report", "compile", "golden", "ensure quant", "ensure image", "run", "write"}
        BY <1>4 DEF OpsOf
    <2> QED BY <1>2, <1>3, <1>4, <2>1 DEF op
<1>5. CASE session = "toolcall"
    <2>1. OpsOf[session] = {"calibrate", "quantize", "report", "compile", "ensure quant", "ensure image", "write",
                            "save", "check header", "reuse", "baseline"}
        BY <1>5 DEF OpsOf
    <2> QED BY <1>2, <1>3, <1>5, <2>1 DEF op
<1>6. CASE session = "quality"
    <2>1. OpsOf[session] = {"calibrate", "quantize", "provenance", "check"}
        BY <1>6 DEF OpsOf
    <2> QED BY <1>2, <1>3, <1>6, <2>1 DEF op
<1>7. CASE session = "figures"
    <2>1. OpsOf[session] = {"gatesim", "sync table", "synth", "write page", "row"}
        BY <1>7 DEF OpsOf
    <2> QED BY <1>2, <1>3, <1>7, <2>1 DEF op
<1> QED BY <1>2, <1>4, <1>5, <1>6, <1>7

\* What the session of a step reports, and what it puts in a step's place.
LEMMA VerdictsAre ==
    ASSUME Shape, todo # <<>>
    PROVE  /\ Head(todo).op = "report" => VerdictsOf[session] = {"demo ok", "demo failed"}
           /\ Head(todo).op = "provenance" => VerdictsOf[session] = {"provenance ok", "provenance failed"}
           /\ Head(todo).op \in {"gatesim", "sync table", "synth", "row"} =>
                 VerdictsOf[session] = {"gatesim ok", "gatesim failed", "synth ok", "synth failed"}
           /\ Head(todo).op = "ensure quant" => "quantize" \in OpsOf[session]
           /\ Head(todo).op = "ensure image" => "compile" \in OpsOf[session]
           /\ Head(todo).op = "compile" => "write" \in OpsOf[session]
           /\ Head(todo).op \in {"gatesim", "synth"} => {"sync table", "write page", "row"} \subseteq OpsOf[session]
<1>1. session \in {"demo", "toolcall"} => /\ VerdictsOf[session] = {"demo ok", "demo failed"}
                                          /\ {"quantize", "compile", "write"} \subseteq OpsOf[session]
    <2>1. CASE session = "demo"
        <3>1. VerdictsOf[session] = {"demo ok", "demo failed"}
            BY <2>1 DEF VerdictsOf
        <3>2. {"quantize", "compile", "write"} \subseteq OpsOf[session]
            BY <2>1 DEF OpsOf
        <3> QED BY <3>1, <3>2
    <2>2. CASE session = "toolcall"
        <3>1. VerdictsOf[session] = {"demo ok", "demo failed"}
            BY <2>2 DEF VerdictsOf
        <3>2. {"quantize", "compile", "write"} \subseteq OpsOf[session]
            BY <2>2 DEF OpsOf
        <3> QED BY <3>1, <3>2
    <2> QED BY <2>1, <2>2
<1>2. session = "quality" => VerdictsOf[session] = {"provenance ok", "provenance failed"}
    BY DEF VerdictsOf
<1>3. session = "figures" => /\ VerdictsOf[session] = {"gatesim ok", "gatesim failed", "synth ok", "synth failed"}
                             /\ {"sync table", "write page", "row"} \subseteq OpsOf[session]
    <2>1. session = "figures" => VerdictsOf[session] = {"gatesim ok", "gatesim failed", "synth ok", "synth failed"}
        BY DEF VerdictsOf
    <2>2. session = "figures" => {"sync table", "write page", "row"} \subseteq OpsOf[session]
        BY DEF OpsOf
    <2> QED BY <2>1, <2>2
<1> DEFINE op == Head(todo).op
<1>4. /\ op \in {"gatesim", "synth", "sync table", "row"} => session = "figures"
      /\ op = "provenance" => session = "quality"
      /\ op \in {"report", "compile", "ensure quant", "ensure image"} => session \in {"demo", "toolcall"}
    BY SessionOf
<1> HIDE DEF op
<1>5. op = "report" => VerdictsOf[session] = {"demo ok", "demo failed"}
    BY <1>1, <1>4
<1>6. op = "provenance" => VerdictsOf[session] = {"provenance ok", "provenance failed"}
    BY <1>2, <1>4
<1>7. op \in {"gatesim", "sync table", "synth", "row"} =>
          VerdictsOf[session] = {"gatesim ok", "gatesim failed", "synth ok", "synth failed"}
    BY <1>3, <1>4
<1>8. op \in {"gatesim", "synth"} => {"sync table", "write page", "row"} \subseteq OpsOf[session]
    BY <1>3, <1>4
<1>9. op \in {"compile", "ensure quant", "ensure image"} => {"quantize", "compile", "write"} \subseteq OpsOf[session]
    BY <1>1, <1>4
<1> QED BY <1>5, <1>6, <1>7, <1>8, <1>9 DEF op

\* A command that ends with what its session reports.
LEMMA ShapeDone ==
    ASSUME Shape, todo # <<>>, todo' = <<>>, session' = session,
           verdict' \in {"none", "error"} \cup VerdictsOf[session]
    PROVE  Shape'
BY ShapeShorter

\* What the pages are written by, a step each, and the row behind them.
WritesOf(scripts, built) ==
    [i \in 1 .. Cardinality(scripts) |->
        LET b == SetToSeq(scripts)[i] IN [op |-> "write page", script |-> b, page |-> built[b]]]
IsPageWrites(w, scripts, built, front) ==
    /\ IsSeq(w) /\ Len(w) = Cardinality(scripts) + 1
    /\ \A i \in 1 .. Cardinality(scripts) :
          /\ w[i].op = "write page" /\ w[i].script = SetToSeq(scripts)[i]
          /\ w[i].page = built[SetToSeq(scripts)[i]]
    /\ w[Cardinality(scripts) + 1].op = "row" /\ w[Cardinality(scripts) + 1].front = front
LEMMA PageWrites ==
    ASSUME NEW scripts, Cardinality(scripts) \in Nat, NEW built, NEW front
    PROVE  IsPageWrites(WritesOf(scripts, built) \o <<[op |-> "row", front |-> front]>>, scripts, built, front)
<1> DEFINE n == Cardinality(scripts)
           q == SetToSeq(scripts)
           w == [i \in 1 .. n |-> [op |-> "write page", script |-> q[i], page |-> built[q[i]]]]
           r == [op |-> "row", front |-> front]
<1>0. w = WritesOf(scripts, built)
    BY DEF WritesOf
<1>1. n \in Nat
    OBVIOUS
<1> HIDE DEF n, q, r
<1>2. IsSeq(w) /\ Len(w) = n
    <2> DEFINE S == {[op |-> "write page", script |-> q[i], page |-> built[q[i]]] : i \in 1 .. n}
    <2>1. \A i \in 1 .. n : w[i] \in S
        OBVIOUS
    <2>2. w = [i \in 1 .. n |-> w[i]]
        OBVIOUS
    <2> HIDE DEF S, w
    <2>3. w \in Seq(S) /\ Len(w) = n
        BY <1>1, <2>1, <2>2, SeqDef
    <2> QED BY <2>3, SeqIn
<1>3. \A i \in 1 .. n : w[i] = [op |-> "write page", script |-> q[i], page |-> built[q[i]]]
    OBVIOUS
<1>4. IsSeq(<<r>>) /\ Len(<<r>>) = 1 /\ <<r>>[1] = r
    BY OneStep
<1> HIDE DEF w
<1>5. /\ IsSeq(w \o <<r>>) /\ Len(w \o <<r>>) = n + 1
      /\ \A i \in 1 .. n + 1 : (w \o <<r>>)[i] = IF i <= n THEN w[i] ELSE <<r>>[i - n]
    BY <1>2, <1>4, SeqConcat
<1>6. \A i \in 1 .. n : (w \o <<r>>)[i] = w[i]
    BY <1>1, <1>5
<1>7. (w \o <<r>>)[n + 1] = r
    BY <1>1, <1>4, <1>5
<1>8. r.op = "row" /\ r.front = front
    BY DEF r
<1>9. \A i \in 1 .. n : /\ (w \o <<r>>)[i].op = "write page" /\ (w \o <<r>>)[i].script = q[i]
                        /\ (w \o <<r>>)[i].page = built[q[i]]
    <2>1. ASSUME NEW i \in 1 .. n
          PROVE  w[i].op = "write page" /\ w[i].script = q[i] /\ w[i].page = built[q[i]]
        <3> DEFINE a == q[i]
                   p == built[a]
                   e == [op |-> "write page", script |-> a, page |-> p]
        <3>1. w[i] = e
            BY <1>3
        <3> HIDE DEF a, p
        <3>2. e.op = "write page" /\ e.script = a /\ e.page = p
            OBVIOUS
        <3> HIDE DEF e
        <3> QED BY <3>1, <3>2 DEF a, p
    <2> QED BY <1>6, <2>1
<1> HIDE DEF r
<1> DEFINE v == w \o <<r>>
<1>10. v[n + 1].op = "row" /\ v[n + 1].front = front
    BY <1>7, <1>8
<1>11. v = WritesOf(scripts, built) \o <<[op |-> "row", front |-> front]>>
    BY <1>0 DEF r
<1>12. /\ IsSeq(v) /\ Len(v) = n + 1
       /\ \A i \in 1 .. n : v[i].op = "write page" /\ v[i].script = q[i] /\ v[i].page = built[q[i]]
    BY <1>5, <1>9
<1> HIDE DEF v
<1>13. IsPageWrites(v, scripts, built, front)
    BY <1>10, <1>12 DEF IsPageWrites, n, q
<1> QED BY <1>11, <1>13
\* What a synthesis builds, and is left to write.
ScriptsOf == IF Head(todo).scripts = {} THEN DOMAIN gates.design.scripts ELSE Head(todo).scripts
LEMMA ScriptsAre ==
    ASSUME Shape, FiguresType, FiguresInv, todo # <<>>, Head(todo).op = "synth"
    PROVE  /\ ScriptsOf \subseteq DOMAIN gates.design.scripts /\ ScriptsOf \subseteq Blocks
           /\ IsFiniteSet(ScriptsOf) /\ Cardinality(ScriptsOf) \in Nat
<1>1. Head(todo) = todo[1] /\ 1 \in Steps /\ session = "figures"
    BY HeadIs, SessionOf
<1>2. Head(todo).scripts \subseteq DOMAIN gates.design.scripts
    BY <1>1 DEF FiguresInv, FiguresTodo, Relies
<1>3. DOMAIN gates.design.scripts \subseteq Blocks
    BY DEF FiguresType, IsGates
<1>4. ScriptsOf \subseteq DOMAIN gates.design.scripts
    BY <1>2 DEF ScriptsOf
<1>5. IsFiniteSet(ScriptsOf)
    BY <1>3, <1>4, BlocksAssumption, FS_Subset
<1> QED BY <1>3, <1>4, <1>5, FS_CardinalityType

LEMMA ShapeNext ==
    ASSUME Shape, FiguresType, FiguresInv, [Next]_vars
    PROVE  Shape'
<1>1. CASE Start
    <2>1. todo' \in Commands /\ session' = session /\ verdict' = "none"
        BY <1>1 DEF Start
    <2>2. IsSeq(todo') /\ \A i \in 1 .. Len(todo') : todo'[i].op \in OpsOf[session]
        BY <2>1, CommandShape
    <2> QED BY <2>1, <2>2 DEF Shape, Steps
<1>2. CASE Edit
    BY <1>2 DEF Edit, Shape, Steps
<1>3. CASE Interrupt
    <2>1. todo # <<>> /\ todo' = <<>> /\ session' = session /\ verdict' = "none"
        BY <1>3 DEF Interrupt
    <2> QED BY <2>1, ShapeDone
<1>4. CASE Plain
    <2>1. todo # <<>> /\ session' = session
          /\ (todo' = Tail(todo) \/ todo' = <<>>) /\ verdict' \in {"none", "error"}
        BY <1>4, PlainIs
    <2> QED BY <2>1, ShapeShorter
<1>5. CASE EnsureQuant
    <2> DEFINE w == IF Quant # Absent /\ ~ Head(todo).fresh THEN <<>> ELSE <<Quantize(Full, TRUE)>>
    <2>1. todo # <<>> /\ Head(todo).op = "ensure quant" /\ todo' = w \o Tail(todo)
          /\ session' = session /\ verdict' = "none"
        BY <1>5 DEF EnsureQuant, Is, Same
    <2>2. "quantize" \in OpsOf[session]
        BY <2>1, VerdictsAre
    <2>3. Quantize(Full, TRUE).op = "quantize"
        BY DEF Quantize
    <2>4. IsSeq(w) /\ \A i \in 1 .. Len(w) : w[i].op \in OpsOf[session]
        BY <2>2, <2>3, NoneOf, OneOf
    <2> HIDE DEF w
    <2> QED BY <2>1, <2>4, ShapeLonger
<1>6. CASE EnsureImage
    <2>1. todo # <<>> /\ Head(todo).op = "ensure image" /\ session' = session
        BY <1>6 DEF EnsureImage, Is, Same
    <2>2. "compile" \in OpsOf[session]
        BY <2>1, VerdictsAre
    <2>3. CASE todo' = <<>> /\ verdict' = "error"
        BY <2>1, <2>3, ShapeDone
    <2>4. CASE todo' = <<>> \o Tail(todo) /\ verdict' = "none"
        BY <2>1, <2>4, NoneOf, ShapeLonger
    <2>5. CASE todo' = <<CompileStep(Head(todo).wb, TRUE)>> \o Tail(todo) /\ verdict' = "none"
        <3> DEFINE x == CompileStep(Head(todo).wb, TRUE)
                   w == <<x>>
        <3>1. x.op = "compile"
            BY DEF CompileStep
        <3> HIDE DEF x
        <3>2. IsSeq(w) /\ \A i \in 1 .. Len(w) : w[i].op \in OpsOf[session]
            BY <2>2, <3>1, OneStep
        <3>3. todo' = w \o Tail(todo) /\ verdict' = "none"
            BY <2>5 DEF x
        <3> HIDE DEF w
        <3> QED BY <2>1, <3>2, <3>3, ShapeLonger
    <2> QED BY <1>6, <2>3, <2>4, <2>5 DEF EnsureImage, Fail
<1>7. CASE DoCompile
    <2>1. todo # <<>> /\ Head(todo).op = "compile" /\ session' = session
        BY <1>7 DEF DoCompile, Is, Same
    <2>2. "write" \in OpsOf[session]
        BY <2>1, VerdictsAre
    <2>3. CASE todo' = <<>> /\ verdict' = "error"
        BY <2>1, <2>3, ShapeDone
    <2>4. ASSUME NEW b, todo' = [i \in DOMAIN WriteOrder(b) |->
                                    [op |-> "write", file |-> WriteOrder(b)[i], build |-> b]] \o Tail(todo),
                 verdict' = "none"
          PROVE  Shape'
        <3> DEFINE w == [i \in DOMAIN WriteOrder(b) |-> [op |-> "write", file |-> WriteOrder(b)[i], build |-> b]]
        <3>1. IsSeq(w) /\ \A i \in 1 .. Len(w) : w[i].op = "write"
            BY WritesAre
        <3> HIDE DEF w
        <3>2. \A i \in 1 .. Len(w) : w[i].op \in OpsOf[session]
            BY <2>2, <3>1
        <3>3. todo' = w \o Tail(todo)
            BY <2>4 DEF w
        <3> QED BY <2>1, <2>4, <3>1, <3>2, <3>3, ShapeLonger
    <2> QED BY <1>7, <2>3, <2>4 DEF DoCompile, Fail
<1>8. CASE DoReport \/ DoProvenance \/ DoSyncTable \/ DoRow
    <2>1. CASE DoReport
        <3>1. todo # <<>> /\ Head(todo).op = "report" /\ todo' = <<>> /\ session' = session
              /\ verdict' \in {"demo ok", "demo failed"}
            BY <2>1 DEF DoReport, Is, Same
        <3>2. VerdictsOf[session] = {"demo ok", "demo failed"}
            BY <3>1, VerdictsAre
        <3> QED BY <3>1, <3>2, ShapeDone
    <2>2. CASE DoProvenance
        <3>1. todo # <<>> /\ Head(todo).op = "provenance" /\ todo' = <<>> /\ session' = session
              /\ verdict' \in {"error", "provenance ok", "provenance failed"}
            BY <2>2 DEF DoProvenance, Is, Fail
        <3>2. VerdictsOf[session] = {"provenance ok", "provenance failed"}
            BY <3>1, VerdictsAre
        <3> QED BY <3>1, <3>2, ShapeDone
    <2>3. CASE DoSyncTable
        <3>1. todo # <<>> /\ Head(todo).op = "sync table" /\ todo' = <<>> /\ session' = session
              /\ verdict' \in {"gatesim ok", "gatesim failed"}
            BY <2>3 DEF DoSyncTable, Is, Others, Ends
        <3>2. {"gatesim ok", "gatesim failed"} \subseteq VerdictsOf[session]
            BY <3>1, VerdictsAre
        <3> QED BY <3>1, <3>2, ShapeDone
    <2>4. CASE DoRow
        <3>1. todo # <<>> /\ Head(todo).op = "row" /\ todo' = <<>> /\ session' = session
              /\ verdict' \in {"synth ok", "synth failed"}
            BY <2>4 DEF DoRow, Is, Others, Ends
        <3>2. {"synth ok", "synth failed"} \subseteq VerdictsOf[session]
            BY <3>1, VerdictsAre
        <3> QED BY <3>1, <3>2, ShapeDone
    <2> QED BY <1>8, <2>1, <2>2, <2>3, <2>4
<1>9. CASE DoGatesim
    <2>1. todo # <<>> /\ Head(todo).op = "gatesim" /\ session' = session
        BY <1>9 DEF DoGatesim, Is, Others
    <2>2. session = "figures"
        BY <2>1, SessionOf
    <2>3. CASE todo' = <<>> /\ verdict' \in {"gatesim ok", "gatesim failed"}
        <3>1. {"gatesim ok", "gatesim failed"} \subseteq VerdictsOf[session]
            BY <2>1, VerdictsAre
        <3> QED BY <2>1, <2>3, <3>1, ShapeDone
    <2>4. ASSUME NEW x, todo' = <<x>>, x.op = "sync table", verdict' = "none"
          PROVE  Shape'
        <3>1. "sync table" \in OpsOf[session]
            BY <2>1, VerdictsAre
        <3>2. IsSeq(<<x>>) /\ \A i \in 1 .. Len(<<x>>) : <<x>>[i].op \in OpsOf[session]
            BY <2>4, <3>1, OneOf
        <3> QED BY <2>1, <2>2, <2>4, <3>2 DEF Shape, Steps
    <2> QED BY <1>9, <2>3, <2>4 DEF DoGatesim, Ends
<1>10. CASE DoSynth
    <2>1. todo # <<>> /\ Head(todo).op = "synth" /\ session' = session
        BY <1>10 DEF DoSynth, Is, Others
    <2>2. session = "figures" /\ Cardinality(ScriptsOf) \in Nat
        BY <2>1, SessionOf, ScriptsAre
    <2>3. CASE todo' = <<>> /\ verdict' \in {"error", "synth ok", "synth failed"}
        <3>1. {"synth ok", "synth failed"} \subseteq VerdictsOf[session]
            BY <2>1, VerdictsAre
        <3> QED BY <2>1, <2>3, <3>1, ShapeDone
    <2>4. ASSUME NEW built, NEW front, verdict' = "none",
                 todo' = WritesOf(ScriptsOf, built) \o <<[op |-> "row", front |-> front]>>
          PROVE  Shape'
        <3>1. IsPageWrites(todo', ScriptsOf, built, front)
            BY <2>2, <2>4, PageWrites
        <3>2. {"write page", "row"} \subseteq OpsOf[session]
            BY <2>1, VerdictsAre
        <3>3. ASSUME NEW i \in 1 .. Len(todo') PROVE todo'[i].op \in {"write page", "row"}
            <4> DEFINE n == Cardinality(ScriptsOf)
            <4>1. n \in Nat /\ Len(todo') = n + 1
                BY <2>2, <3>1 DEF IsPageWrites
            <4>2. \A j \in 1 .. n : todo'[j].op = "write page"
                BY <3>1 DEF IsPageWrites
            <4>3. todo'[n + 1].op = "row"
                BY <3>1 DEF IsPageWrites
            <4> HIDE DEF n
            <4>4. i \in 1 .. n \/ i = n + 1
                BY <4>1
            <4> QED BY <4>2, <4>3, <4>4
        <3>4. IsSeq(todo')
            BY <3>1 DEF IsPageWrites
        <3> QED BY <2>1, <2>2, <2>4, <3>2, <3>3, <3>4 DEF Shape, Steps
    <2> QED BY <1>10, <2>3, <2>4 DEF DoSynth, Ends, Fail, ScriptsOf, WritesOf
<1>11. CASE UNCHANGED vars
    BY <1>11 DEF vars, Shape, Steps
<1> QED BY <1>1, <1>2, <1>3, <1>4, <1>5, <1>6, <1>7, <1>8, <1>9, <1>10, <1>11 DEF Next, Plain
-----------------------------------------------------------------------------
(* Figures: a netlist held to its source, and the table and pages as records *)

\* A case that passes gave what its source gave wherever that is defined.
LEMMA BenchAgrees ==
    ASSUME NEW c \in Benches, run_case(c)
    PROVE  Agree(c)
<1> DEFINE t == c.trace
           D == DOMAIN t
           seen == {i \in D : t[i].src # Undefined}
           odd == {i \in seen : t[i].src # t[i].gate}
           un == {i \in D : t[i].src = Undefined}
<1>1. t \in Seq([src : 0 .. 2, gate : 0 .. 2])
    BY BenchesAssumption
<1>2. Len(t) \in Nat /\ D = 1 .. Len(t)
    BY <1>1, LenProperties
<1>3. IsFiniteSet(D) /\ Cardinality(D) = Len(t)
    <2>1. Len(t) \in Int /\ 1 \in Int
        BY <1>2
    <2>2. IsFiniteSet(1 .. Len(t)) /\ Cardinality(1 .. Len(t)) = IF 1 > Len(t) THEN 0 ELSE Len(t) - 1 + 1
        BY <2>1, FS_Interval
    <2> QED BY <1>2, <2>2
<1>4. Cardinality(odd) = 0 /\ 10 * (Len(t) - Cardinality(seen)) <= Cardinality(seen) + (Len(t) - Cardinality(seen))
    BY DEF run_case, gen_bench
<1>5. seen \subseteq D /\ odd \subseteq D /\ un = D \ seen
    OBVIOUS
<1> HIDE DEF D, un
<1>6. IsFiniteSet(seen) /\ IsFiniteSet(odd)
    <2> HIDE DEF seen, odd
    <2> QED BY <1>3, <1>5, FS_Subset
<1>7. Cardinality(un) = Len(t) - Cardinality(seen)
    <2> HIDE DEF seen
    <2>1. Cardinality(D \ seen) = Cardinality(D) - Cardinality(D \cap seen)
        BY <1>3, FS_Difference
    <2>2. D \cap seen = seen
        BY <1>5
    <2> QED BY <1>3, <1>5, <2>1, <2>2
<1>8. odd = {}
    <2> HIDE DEF odd
    <2> QED BY <1>4, <1>6, FS_EmptySet
<1>9. \A i \in D : t[i].src # Undefined => t[i].src = t[i].gate
    BY <1>8
<1>10. 10 * Cardinality(un) <= Len(t)
    <2>1. Cardinality(seen) \in Nat
        <3> HIDE DEF seen
        <3> QED BY <1>6, FS_CardinalityType
    <2> HIDE DEF seen
    <2> QED BY <1>2, <1>4, <1>7, <2>1
<1> QED BY <1>9, <1>10 DEF Agree, D, un

\* Every script has a place in the order they are written in.
LEMMA InOrder ==
    ASSUME NEW S, IsFiniteSet(S)
    PROVE  /\ \A i \in 1 .. Cardinality(S) : SetToSeq(S)[i] \in S
           /\ \A x \in S : \E i \in 1 .. Cardinality(S) : SetToSeq(S)[i] = x
<1> DEFINE n == Cardinality(S)
<1>1. n \in Nat /\ ExistsBijection(1 .. n, S)
    BY FS_CardinalityType
<1>2. PICK g \in [1 .. n -> S] : IsInjective(g)
    BY <1>1 DEF ExistsBijection, Bijection, Injection, IsInjective
<1>3. SetToSeq(S) \in [1 .. n -> S] /\ IsInjective(SetToSeq(S))
    BY <1>2 DEF SetToSeq
<1> DEFINE q == SetToSeq(S)
<1>4. q \in Injection(1 .. n, S)
    BY <1>3 DEF Injection, IsInjective
<1>5. Cardinality(1 .. n) = n
    <2>1. n \in Int /\ 1 \in Int
        BY <1>1
    <2>2. Cardinality(1 .. n) = IF 1 > n THEN 0 ELSE n - 1 + 1
        BY <2>1, FS_Interval
    <2> QED BY <1>1, <2>2
<1>6. q \in Surjection(1 .. n, S)
    <2> HIDE DEF q
    <2> QED BY <1>4, <1>5, FS_Injection
<1> HIDE DEF q
<1>7. \A x \in S : \E i \in 1 .. n : q[i] = x
    BY <1>6 DEF Surjection
<1>8. \A i \in 1 .. n : q[i] \in S
    BY <1>3 DEF q
<1> QED BY <1>7, <1>8 DEF q

\* One field of the figures replaced.
LEMMA GatesExcept ==
    ASSUME NEW g, g = [design |-> g.design, yosys |-> g.yosys, table |-> g.table, pages |-> g.pages, row |-> g.row],
           NEW x
    PROVE  /\ [g EXCEPT !.design = x] = [design |-> x, yosys |-> g.yosys, table |-> g.table, pages |-> g.pages, row |-> g.row]
           /\ [g EXCEPT !.yosys = x] = [design |-> g.design, yosys |-> x, table |-> g.table, pages |-> g.pages, row |-> g.row]
           /\ [g EXCEPT !.table = x] = [design |-> g.design, yosys |-> g.yosys, table |-> x, pages |-> g.pages, row |-> g.row]
           /\ [g EXCEPT !.pages = x] = [design |-> g.design, yosys |-> g.yosys, table |-> g.table, pages |-> x, row |-> g.row]
           /\ [g EXCEPT !.row = x] = [design |-> g.design, yosys |-> g.yosys, table |-> g.table, pages |-> g.pages, row |-> x]
OBVIOUS
LEMMA DesignExcept ==
    ASSUME NEW d, d = [rtl |-> d.rtl, cases |-> d.cases, scripts |-> d.scripts], NEW x
    PROVE  /\ [d EXCEPT !.rtl = x] = [rtl |-> x, cases |-> d.cases, scripts |-> d.scripts]
           /\ [d EXCEPT !.cases = x] = [rtl |-> d.rtl, cases |-> x, scripts |-> d.scripts]
           /\ [d EXCEPT !.scripts = x] = [rtl |-> d.rtl, cases |-> d.cases, scripts |-> x]
OBVIOUS

\* What a step puts in a field is what the field has to hold.
LEMMA GatesKept ==
    ASSUME NEW g, IsGates(g), NEW x
    PROVE  /\ x = [rtl |-> x.rtl, cases |-> x.cases, scripts |-> x.scripts] /\ DOMAIN x.scripts \subseteq Blocks
                 => IsGates([g EXCEPT !.design = x])
           /\ x \in Builds => IsGates([g EXCEPT !.yosys = x])
           /\ x = Torn \/ IsTable(x) => IsGates([g EXCEPT !.table = x])
           /\ x = [b \in Blocks |-> x[b]] /\ (\A b \in Blocks : IsPage(x[b])) => IsGates([g EXCEPT !.pages = x])
           /\ IsGates([g EXCEPT !.row = x])
<1>0. g = [design |-> g.design, yosys |-> g.yosys, table |-> g.table, pages |-> g.pages, row |-> g.row]
    BY DEF IsGates
<1>1. ASSUME x = [rtl |-> x.rtl, cases |-> x.cases, scripts |-> x.scripts], DOMAIN x.scripts \subseteq Blocks
      PROVE  IsGates([g EXCEPT !.design = x])
    <2> DEFINE h == [design |-> x, yosys |-> g.yosys, table |-> g.table, pages |-> g.pages, row |-> g.row]
    <2>1. [g EXCEPT !.design = x] = h
        BY <1>0, GatesExcept
    <2>2. h.design = x /\ h.yosys = g.yosys /\ h.table = g.table /\ h.pages = g.pages /\ h.row = g.row
        OBVIOUS
    <2>3. h = [design |-> h.design, yosys |-> h.yosys, table |-> h.table, pages |-> h.pages, row |-> h.row]
        OBVIOUS
    <2> HIDE DEF h
    <2>4. IsGates(h)
        BY <1>1, <2>2, <2>3 DEF IsGates
    <2> QED BY <2>1, <2>4
<1>2. ASSUME x \in Builds PROVE IsGates([g EXCEPT !.yosys = x])
    <2> DEFINE h == [design |-> g.design, yosys |-> x, table |-> g.table, pages |-> g.pages, row |-> g.row]
    <2>1. [g EXCEPT !.yosys = x] = h
        BY <1>0, GatesExcept
    <2>2. h.design = g.design /\ h.yosys = x /\ h.table = g.table /\ h.pages = g.pages /\ h.row = g.row
        OBVIOUS
    <2>3. h = [design |-> h.design, yosys |-> h.yosys, table |-> h.table, pages |-> h.pages, row |-> h.row]
        OBVIOUS
    <2> HIDE DEF h
    <2>4. IsGates(h)
        BY <1>2, <2>2, <2>3 DEF IsGates
    <2> QED BY <2>1, <2>4
<1>3. ASSUME x = Torn \/ IsTable(x) PROVE IsGates([g EXCEPT !.table = x])
    <2> DEFINE h == [design |-> g.design, yosys |-> g.yosys, table |-> x, pages |-> g.pages, row |-> g.row]
    <2>1. [g EXCEPT !.table = x] = h
        BY <1>0, GatesExcept
    <2>2. h.design = g.design /\ h.yosys = g.yosys /\ h.table = x /\ h.pages = g.pages /\ h.row = g.row
        OBVIOUS
    <2>3. h = [design |-> h.design, yosys |-> h.yosys, table |-> h.table, pages |-> h.pages, row |-> h.row]
        OBVIOUS
    <2> HIDE DEF h
    <2>4. IsGates(h)
        BY <1>3, <2>2, <2>3 DEF IsGates
    <2> QED BY <2>1, <2>4
<1>4. ASSUME x = [b \in Blocks |-> x[b]], \A b \in Blocks : IsPage(x[b])
      PROVE  IsGates([g EXCEPT !.pages = x])
    <2> DEFINE h == [design |-> g.design, yosys |-> g.yosys, table |-> g.table, pages |-> x, row |-> g.row]
    <2>1. [g EXCEPT !.pages = x] = h
        BY <1>0, GatesExcept
    <2>2. h.design = g.design /\ h.yosys = g.yosys /\ h.table = g.table /\ h.pages = x /\ h.row = g.row
        OBVIOUS
    <2>3. h = [design |-> h.design, yosys |-> h.yosys, table |-> h.table, pages |-> h.pages, row |-> h.row]
        OBVIOUS
    <2> HIDE DEF h
    <2>4. IsGates(h)
        BY <1>4, <2>2, <2>3 DEF IsGates
    <2> QED BY <2>1, <2>4
<1>5. IsGates([g EXCEPT !.row = x])
    <2> DEFINE h == [design |-> g.design, yosys |-> g.yosys, table |-> g.table, pages |-> g.pages, row |-> x]
    <2>1. [g EXCEPT !.row = x] = h
        BY <1>0, GatesExcept
    <2>2. h.design = g.design /\ h.yosys = g.yosys /\ h.table = g.table /\ h.pages = g.pages /\ h.row = x
        OBVIOUS
    <2>3. h = [design |-> h.design, yosys |-> h.yosys, table |-> h.table, pages |-> h.pages, row |-> h.row]
        OBVIOUS
    <2> HIDE DEF h
    <2>4. IsGates(h)
        BY <2>2, <2>3 DEF IsGates
    <2> QED BY <2>1, <2>4
<1> QED BY <1>1, <1>2, <1>3, <1>4, <1>5

\* An edit leaves the table and the pages records of what some build measured.
LEMMA EditedKeeps ==
    ASSUME NEW g, IsGates(g), NEW h \in Edited(g)
    PROVE  IsGates(h)
<1> DEFINE d == g.design
<1>0. d = [rtl |-> d.rtl, cases |-> d.cases, scripts |-> d.scripts] /\ DOMAIN d.scripts \subseteq Blocks
    BY DEF IsGates
<1>1. ASSUME NEW r, h = [g EXCEPT !.design.rtl = r] PROVE IsGates(h)
    <2> DEFINE x == [d EXCEPT !.rtl = r]
    <2>1. x = [rtl |-> x.rtl, cases |-> x.cases, scripts |-> x.scripts] /\ x.scripts = d.scripts
        BY <1>0, DesignExcept
    <2>2. h = [g EXCEPT !.design = x]
        BY <1>1
    <2> HIDE DEF x
    <2> QED BY <1>0, <2>1, <2>2, GatesKept
<1>2. ASSUME NEW c, h = [g EXCEPT !.design.cases = c] PROVE IsGates(h)
    <2> DEFINE x == [d EXCEPT !.cases = c]
    <2>1. x = [rtl |-> x.rtl, cases |-> x.cases, scripts |-> x.scripts] /\ x.scripts = d.scripts
        BY <1>0, DesignExcept
    <2>2. h = [g EXCEPT !.design = x]
        BY <1>2
    <2> HIDE DEF x
    <2> QED BY <1>0, <2>1, <2>2, GatesKept
<1>3. ASSUME NEW c, h = [g EXCEPT !.design.scripts = c], DOMAIN c \subseteq Blocks PROVE IsGates(h)
    <2> DEFINE x == [d EXCEPT !.scripts = c]
    <2>1. x = [rtl |-> x.rtl, cases |-> x.cases, scripts |-> x.scripts] /\ x.scripts = c
        BY <1>0, DesignExcept
    <2>2. h = [g EXCEPT !.design = x]
        BY <1>3
    <2>3. DOMAIN x.scripts \subseteq Blocks
        BY <1>3, <2>1
    <2> HIDE DEF x
    <2> QED BY <2>1, <2>2, <2>3, GatesKept
<1>4. CASE \/ \E b \in Blocks : h = [g EXCEPT !.design.rtl[b].inferred = 1 - @]
           \/ \E b \in Blocks : h = [g EXCEPT !.design.rtl[b].logic = 1 - @]
    <2>1. \E r : h = [g EXCEPT !.design.rtl = r]
        BY <1>4
    <2> QED BY <2>1, <1>1
<1>5. CASE \/ \E b \in DOMAIN d.cases : h = [g EXCEPT !.design.cases[b] = 1 - @]
           \/ \E b \in DOMAIN d.cases : h = [g EXCEPT !.design.cases = Drop(@, b)]
    <2>1. \E c : h = [g EXCEPT !.design.cases = c]
        BY <1>5
    <2> QED BY <2>1, <1>2
<1>6. CASE \/ \E b \in DOMAIN d.scripts : h = [g EXCEPT !.design.scripts[b] = 1 - @]
           \/ \E b \in DOMAIN d.scripts \ {Top} : h = [g EXCEPT !.design.scripts = Drop(@, b)]
    <2>1. ASSUME NEW b, h = [g EXCEPT !.design.scripts[b] = 1 - @] PROVE IsGates(h)
        <3> DEFINE c == [d.scripts EXCEPT ![b] = 1 - @]
        <3>1. h = [g EXCEPT !.design.scripts = c] /\ DOMAIN c = DOMAIN d.scripts
            BY <2>1
        <3> HIDE DEF c
        <3> QED BY <3>1, <1>0, <1>3
    <2>2. ASSUME NEW b, h = [g EXCEPT !.design.scripts = Drop(@, b)] PROVE IsGates(h)
        <3> DEFINE c == Drop(d.scripts, b)
        <3>1. h = [g EXCEPT !.design.scripts = c] /\ DOMAIN c \subseteq DOMAIN d.scripts
            BY <2>2 DEF Drop
        <3> HIDE DEF c
        <3> QED BY <3>1, <1>0, <1>3
    <2> QED BY <1>6, <2>1, <2>2
<1>7. CASE \E t \in Builds \ {g.yosys} : h = [g EXCEPT !.yosys = t]
    <2>1. PICK t \in Builds : h = [g EXCEPT !.yosys = t]
        BY <1>7
    <2> QED BY <2>1, GatesKept
<1>8. ASSUME NEW x, h = [g EXCEPT !.row = x] PROVE IsGates(h)
    BY <1>8, GatesKept
<1>9. CASE \/ h \in {[g EXCEPT !.row = Quote(g.pages[b].is)] : b \in {x \in {Top} : design_facts(g.pages[x]) # <<>>}}
           \/ h \in {[g EXCEPT !.row.packed = <<"mistyped">>], [g EXCEPT !.row.inferred = [x \in Blocks |-> 2]],
                     [g EXCEPT !.row.stated = FALSE]}
    <2>1. \E x : h = [g EXCEPT !.row = x]
        BY <1>9
    <2> QED BY <2>1, <1>8
<1> QED BY <1>4, <1>5, <1>6, <1>7, <1>9 DEF Edited
\* What gatesim measures is the table of one build.
LEMMA BlockIs ==
    ASSUME NEW d, NEW tool
    PROVE  LET t == table_block(d, tool)
           IN /\ t = [tool |-> t.tool, rows |-> t.rows] /\ t.tool = tool
              /\ t.rows = [c \in DOMAIN d.cases |-> [cfg |-> d.cases[c], cells |-> Packed(d, c, d.cases[c], tool)]]
BY DEF table_block
LEMMA FileIs ==
    ASSUME NEW x
    PROVE  File(x).is = x /\ File(x).kind = "file" /\ Whole(File(x)) /\ ~ Whole(Torn) /\ ~ Whole(Absent)
           /\ Torn # Absent /\ File(x) # Torn /\ File(x) # Absent
BY DEF File, Whole, Torn, Absent
LEMMA TableIs ==
    ASSUME NEW d, NEW tool
    PROVE  IsTable(File(table_block(d, tool)))
<1> DEFINE t == table_block(d, tool)
           R(c) == [cfg |-> d.cases[c], cells |-> Packed(d, c, d.cases[c], tool)]
           f == File(t)
<1>1. t = [tool |-> t.tool, rows |-> t.rows] /\ t.tool = tool /\ t.rows = [c \in DOMAIN d.cases |-> R(c)]
    BY BlockIs
<1>2. \A c : R(c).cfg = d.cases[c] /\ R(c).cells = Packed(d, c, d.cases[c], tool)
             /\ R(c) = [cfg |-> R(c).cfg, cells |-> R(c).cells]
    OBVIOUS
<1> HIDE DEF t, R
<1>3. f.is = t
    BY FileIs
<1> HIDE DEF f
<1>4. DOMAIN t.rows = DOMAIN d.cases /\ \A c \in DOMAIN t.rows : t.rows[c] = R(c)
    BY <1>1
<1>5. t.rows = [c \in DOMAIN t.rows |-> [cfg |-> t.rows[c].cfg, cells |-> t.rows[c].cells]]
    BY <1>1, <1>2, <1>4
<1>6. ASSUME NEW c \in DOMAIN t.rows
      PROVE  t.rows[c].cells = Packed([rtl |-> t.rows[c].cells[3]], c, t.rows[c].cfg, t.tool)
    <2> DEFINE cells == Packed(d, c, d.cases[c], tool)
               m == [x \in Under(c) |-> d.rtl[x]]
    <2>1. t.rows[c].cells = cells /\ t.rows[c].cfg = d.cases[c]
        BY <1>2, <1>4
    <2>2. cells = <<tool, d.cases[c], m>> /\ cells[3] = m
        BY DEF Packed
    <2>3. Packed([rtl |-> m], c, d.cases[c], tool) = <<tool, d.cases[c], [x \in Under(c) |-> m[x]]>>
        BY DEF Packed
    <2>4. m = [x \in Under(c) |-> m[x]]
        OBVIOUS
    <2> HIDE DEF m, cells
    <2> QED BY <1>1, <2>1, <2>2, <2>3, <2>4
<1>7. f = File([tool |-> f.is.tool, rows |-> f.is.rows])
    BY <1>1, <1>3 DEF f
<1> QED BY <1>3, <1>5, <1>6, <1>7 DEF IsTable, f, t

\* A page of now is the page of some build.
LEMMA PageIs ==
    ASSUME NEW b, NEW p, OfNow(gates, b, p), gates.yosys \in Builds
    PROVE  /\ IsPage(File(p)) /\ p.tool = gates.yosys /\ p.notes = Ended
           /\ p.facts = <<gates.design.scripts[b], Inferred(gates.design, b)>>
           /\ p.packed = Packed(gates.design, b, gates.design.scripts[b], gates.yosys)
<1> DEFINE x == <<gates.design.scripts[b], Inferred(gates.design, b)>>
           y == Packed(gates.design, b, gates.design.scripts[b], gates.yosys)
<1>1. p = [tool |-> gates.yosys, facts |-> x, packed |-> y, notes |-> p.notes] /\ p.notes = Ended
    BY DEF OfNow
<1> HIDE DEF x, y
<1>2. p.tool = gates.yosys /\ p.facts = x /\ p.packed = y
    BY <1>1
<1>3. p = [tool |-> p.tool, facts |-> p.facts, packed |-> p.packed, notes |-> p.notes]
    BY <1>1, <1>2
<1>4. IsPage(File(p))
    BY <1>2, <1>3, FileIs DEF IsPage
<1> QED BY <1>1, <1>2, <1>4 DEF x, y

\* What is left of a page of now is a page of the same build, or says nothing.
LEMMA CutPageIs ==
    ASSUME NEW b, NEW p, OfNow(gates, b, p), gates.yosys \in Builds, NEW q \in CutShort(p)
    PROVE  IsPage(File(q))
<1>1. p = [tool |-> p.tool, facts |-> p.facts, packed |-> p.packed, notes |-> p.notes] /\ p.tool \in Builds
    <2>1. IsPage(File(p)) /\ p.tool = gates.yosys
        BY PageIs
    <2> QED BY <2>1, FileIs DEF IsPage
<1>2. ASSUME NEW t, NEW x, NEW y, NEW n, q = [tool |-> t, facts |-> x, packed |-> y, notes |-> n],
             t \in Builds \/ (t = "" /\ x = <<>>)
      PROVE  IsPage(File(q))
    <2>1. q.tool = t /\ q.facts = x /\ q = [tool |-> q.tool, facts |-> q.facts, packed |-> q.packed, notes |-> q.notes]
        BY <1>2
    <2> QED BY <1>2, <2>1, FileIs DEF IsPage
<1>3. CASE q = [tool |-> "", facts |-> <<>>, packed |-> <<>>, notes |-> Lacking]
    BY <1>2, <1>3
<1>4. CASE q = [p EXCEPT !.facts = <<>>, !.packed = <<>>, !.notes = Lacking]
    <2>1. q = [tool |-> p.tool, facts |-> <<>>, packed |-> <<>>, notes |-> Lacking]
        BY <1>1, <1>4
    <2> QED BY <1>1, <1>2, <2>1
<1>5. CASE \E n : q = [p EXCEPT !.notes = n]
    <2>1. PICK n : q = [p EXCEPT !.notes = n]
        BY <1>5
    <2>2. q = [tool |-> p.tool, facts |-> p.facts, packed |-> p.packed, notes |-> n]
        BY <1>1, <2>1
    <2> QED BY <1>1, <1>2, <2>2
<1> QED BY <1>3, <1>4, <1>5 DEF CutShort

-----------------------------------------------------------------------------
(* Figures: what each step leaves *)

\* Without a verdict there is only the table and the pages to hold.
Quiet == verdict \in {"none", "error"}
LEMMA QuietFigures == FiguresType /\ Quiet => TableIsMeasured /\ PagesAreMeasured
<1> SUFFICES ASSUME FiguresType, Quiet PROVE TableIsMeasured /\ PagesAreMeasured
    OBVIOUS
<1>1. Whole(gates.table) => \A c \in DOMAIN gates.table.is.rows :
             gates.table.is.rows[c].cells =
                Packed([rtl |-> gates.table.is.rows[c].cells[3]], c, gates.table.is.rows[c].cfg, gates.table.is.tool)
    BY FileIs DEF FiguresType, IsGates, IsTable
<1>2. verdict # "gatesim ok" /\ verdict # "gatesim failed" /\ verdict # "synth ok" /\ verdict # "synth failed"
    BY DEF Quiet
<1>3. PagesAreMeasured
    BY <1>2 DEF PagesAreMeasured
<1>4. TableIsMeasured
    BY <1>1, <1>2 DEF TableIsMeasured
<1> QED BY <1>3, <1>4

\* A session other than figures leaves them alone.
Elsewhere ==
    \/ DoCalibrate \/ DoQuantize \/ DoGolden \/ EnsureQuant \/ EnsureImage \/ DoCompile \/ DoWrite
    \/ DoRun \/ DoSave \/ CheckHeader \/ DoReuse \/ DoBaseline \/ DoReport \/ DoCheck \/ DoProvenance
LEMMA ElsewhereIs ==
    ASSUME Shape, Elsewhere
    PROVE  todo # <<>> /\ session # "figures" /\ gates' = gates /\ measured' = measured /\ session' = session
<1> DEFINE Ops == {"calibrate", "quantize", "golden", "ensure quant", "ensure image", "compile", "write",
                   "run", "save", "check header", "reuse", "baseline", "report", "check", "provenance"}
<1>1. todo # <<>> /\ Head(todo).op \in Ops /\ gates' = gates /\ measured' = measured /\ session' = session
    <2>1. CASE DoCalibrate
        BY <2>1 DEF DoCalibrate, Is, Same, figures
    <2>2. CASE DoQuantize
        BY <2>2 DEF DoQuantize, Is, Same, figures
    <2>3. CASE DoGolden
        BY <2>3 DEF DoGolden, Is, Same, figures
    <2>4. CASE EnsureQuant
        BY <2>4 DEF EnsureQuant, Is, Same, figures
    <2>5. CASE EnsureImage
        BY <2>5 DEF EnsureImage, Is, Same, figures
    <2>6. CASE DoCompile
        BY <2>6 DEF DoCompile, Is, Same, figures
    <2>7. CASE DoWrite
        BY <2>7 DEF DoWrite, Is, Same, figures
    <2>8. CASE DoRun
        BY <2>8 DEF DoRun, Is, Same, figures
    <2>9. CASE DoSave
        BY <2>9 DEF DoSave, Is, Same, figures
    <2>10. CASE CheckHeader
        BY <2>10 DEF CheckHeader, Is, Same, figures
    <2>11. CASE DoReuse
        BY <2>11 DEF DoReuse, Is, Same, figures
    <2>12. CASE DoBaseline
        BY <2>12 DEF DoBaseline, Is, Same, figures
    <2>13. CASE DoReport
        BY <2>13 DEF DoReport, Is, Same, figures
    <2>14. CASE DoCheck
        BY <2>14 DEF DoCheck, Is, figures
    <2>15. CASE DoProvenance
        BY <2>15 DEF DoProvenance, Is, figures
    <2> HIDE DEF Ops
    <2> QED BY <2>1, <2>2, <2>3, <2>4, <2>5, <2>6, <2>7, <2>8, <2>9, <2>10, <2>11, <2>12, <2>13, <2>14, <2>15 DEF Elsewhere
<1>2. session # "figures"
    <2>1. CASE session # "figures"
        BY <2>1
    <2>2. CASE session = "figures"
        <3>1. OpsOf[session] = {"gatesim", "sync table", "synth", "write page", "row"}
            BY <2>2 DEF OpsOf
        <3>2. Head(todo).op \in OpsOf[session]
            BY <1>1, SessionOf
        <3> QED BY <1>1, <3>1, <3>2
    <2> QED BY <2>1, <2>2
<1> QED BY <1>1, <1>2
LEMMA QuietNext == (FiguresType /\ Quiet)' => (TableIsMeasured /\ PagesAreMeasured)'
BY QuietFigures, PTL
LEMMA NothingLeft ==
    ASSUME todo' = <<>>
    PROVE  FiguresTodo' /\ Steps' = {}
<1>1. Len(todo') = 0
    BY NoSteps
<1>2. Steps' = {}
    BY <1>1 DEF Steps
<1> QED BY <1>2 DEF FiguresTodo, Relies

\* A step that writes nothing but the table or a page, or nothing, and stops.
LEMMA FiguresStop ==
    ASSUME FiguresType', todo' = <<>>, verdict' \in {"none", "error"}
    PROVE  FiguresInv'
<1>1. Quiet'
    BY DEF Quiet
<1> QED BY <1>1, NothingLeft, QuietNext DEF FiguresInv

LEMMA FiguresEdit ==
    ASSUME Shape, FiguresType, Edit
    PROVE  FiguresType' /\ FiguresInv'
<1>1. todo' = <<>> /\ verdict' = "none" /\ (gates' = gates \/ gates' \in Edited(gates))
    BY DEF Edit
<1>2. IsGates(gates')
    BY <1>1, EditedKeeps DEF FiguresType
<1>3. FiguresType'
    BY <1>2 DEF FiguresType
<1> QED BY <1>1, <1>3, FiguresStop

LEMMA FiguresInterrupt ==
    ASSUME Shape, FiguresType, FiguresInv, Interrupt
    PROVE  FiguresType' /\ FiguresInv'
<1>1. todo # <<>> /\ todo' = <<>> /\ verdict' = "none" /\ session' = session
    BY DEF Interrupt
<1>2. PICK t \in Target \cup {"nothing"} :
          \/ t = "table" /\ gates' = [gates EXCEPT !.table = Torn]
          \/ t = "page" /\ \E page \in CutShort(Head(todo).page) :
                               gates' = [gates EXCEPT !.pages[Head(todo).script] = File(page)]
          \/ t \notin {"table", "page"} /\ gates' = gates
    BY DEF Interrupt
<1>3. ASSUME t = "table" PROVE FiguresType'
    <2>1. gates' = [gates EXCEPT !.table = Torn]
        BY <1>2, <1>3
    <2>2. IsGates(gates')
        BY <2>1, GatesKept DEF FiguresType
    <2> QED BY <2>2 DEF FiguresType
<1>4. ASSUME t = "page" PROVE FiguresType'
    <2> DEFINE b == Head(todo).script
               ps(page) == [gates.pages EXCEPT ![b] = File(page)]
    <2>0. PICK page \in CutShort(Head(todo).page) : gates' = [gates EXCEPT !.pages = ps(page)]
        BY <1>2, <1>4
    <2> DEFINE now == ps(page)
    <2>1. gates' = [gates EXCEPT !.pages = now]
        BY <2>0
    <2>2. gates.pages = [x \in Blocks |-> gates.pages[x]] /\ \A x \in Blocks : IsPage(gates.pages[x])
        BY DEF FiguresType, IsGates
    <2>3. now = [x \in Blocks |-> now[x]] /\ \A x \in Blocks : IsPage(now[x])
        <3>1. Is("write page")
            BY <1>1, <1>4 DEF Target, Is
        <3>2. session = "figures" /\ Head(todo) = todo[1] /\ 1 \in Steps
            BY <3>1, SessionOf, HeadIs DEF Is
        <3>3. OfNow(gates, b, Head(todo).page) /\ gates.yosys \in Builds
            BY <3>1, <3>2 DEF Is, FiguresInv, FiguresTodo, Relies, FiguresType, IsGates
        <3>4. IsPage(File(page))
            BY <2>0, <3>3, CutPageIs
        <3> DEFINE f == File(page)
        <3> HIDE DEF f
        <3>5. now = [gates.pages EXCEPT ![b] = f] /\ IsPage(f)
            BY <3>4 DEF f
        <3> HIDE DEF b, now
        <3> QED BY <2>2, <3>5
    <2> HIDE DEF now
    <2>4. IsGates(gates')
        BY <2>1, <2>3, GatesKept DEF FiguresType
    <2> QED BY <2>4 DEF FiguresType
<1>5. ASSUME t # "table" /\ t # "page" PROVE FiguresType'
    <2>1. gates' = gates
        BY <1>2, <1>5
    <2> QED BY <2>1 DEF FiguresType
<1>6. FiguresType'
    BY <1>3, <1>4, <1>5
<1> QED BY <1>1, <1>6, FiguresStop

\* A new figures command measures nothing yet.
LEMMA FiguresStart ==
    ASSUME Shape, FiguresType, Start
    PROVE  FiguresType' /\ FiguresInv'
<1>1. gates' = gates /\ session' = session /\ verdict' = "none" /\ todo' \in Commands
    BY DEF Start
<1>2. FiguresType'
    BY <1>1 DEF FiguresType
<1>3. Quiet'
    BY <1>1 DEF Quiet
<1>4. ASSUME session = "figures" PROVE FiguresTodo'
    <2>1. todo' \in FiguresCommands
        BY <1>1, <1>4, CommandsAre
    <2>2. ASSUME NEW x, todo' = <<x>>, x.op \in {"gatesim", "synth"},
                 x.op = "synth" => x.scripts \subseteq DOMAIN gates.design.scripts
          PROVE  FiguresTodo'
        <3>1. Len(todo') = 1 /\ todo'[1] = x
            BY <2>2, OneStep
        <3>2. Len(todo') = 1
            BY <3>1
        <3>3. \A i \in 1 .. Len(todo') : i = 1
            BY <3>2
        <3>4. \A i \in Steps' : todo'[i] = x
            BY <3>1, <3>3 DEF Steps
        <3>5. x.op # "sync table" /\ x.op # "write page" /\ x.op # "row"
            BY <2>2
        <3> QED BY <1>1, <2>2, <3>4, <3>5 DEF FiguresTodo, Relies
    <2>3. CASE \E o, w : todo' = <<[op |-> "gatesim", only |-> o, write |-> w]>>
        <3>1. PICK o, w : todo' = <<[op |-> "gatesim", only |-> o, write |-> w]>>
            BY <2>3
        <3> DEFINE x == [op |-> "gatesim", only |-> o, write |-> w]
        <3>2. x.op = "gatesim" /\ todo' = <<x>>
            BY <3>1
        <3> HIDE DEF x
        <3> QED BY <3>2, <2>2
    <2>4. CASE \E s, c : /\ todo' = <<[op |-> "synth", scripts |-> s, check |-> c]>>
                         /\ s \subseteq DOMAIN gates.design.scripts
        <3>1. PICK s, c : /\ todo' = <<[op |-> "synth", scripts |-> s, check |-> c]>>
                          /\ s \subseteq DOMAIN gates.design.scripts
            BY <2>4
        <3> DEFINE x == [op |-> "synth", scripts |-> s, check |-> c]
        <3>2. x.op = "synth" /\ x.scripts = s /\ todo' = <<x>>
            BY <3>1
        <3> HIDE DEF x
        <3> QED BY <3>1, <3>2, <2>2
    <2> QED BY <2>1, <2>3, <2>4 DEF FiguresCommands
<1> QED BY <1>1, <1>2, <1>3, <1>4, QuietNext DEF FiguresInv
\* The parts of what the tables and the pages state.
TableStates ==
    LET d == gates.design
        t == gates.table.is
    IN /\ Whole(gates.table) /\ DOMAIN t.rows = DOMAIN d.cases
       /\ \A c \in DOMAIN t.rows :
             /\ t.rows[c].cfg = d.cases[c]
             /\ t.tool = gates.yosys => t.rows[c].cells = Packed(d, c, d.cases[c], t.tool)
TableVerdict ==
    /\ verdict = "gatesim ok" => /\ \A c \in DOMAIN measured.results : Agree(measured.results[c])
                                 /\ measured.all => TableStates
    /\ verdict = "gatesim failed" =>
          (\E c \in DOMAIN measured.results : measured.results[c] # Equivalent) \/ ~ TableStates
LEMMA TableParts == FiguresType /\ TableVerdict => TableIsMeasured
<1> SUFFICES ASSUME FiguresType, TableVerdict PROVE TableIsMeasured
    OBVIOUS
<1>1. Whole(gates.table) => \A c \in DOMAIN gates.table.is.rows :
             gates.table.is.rows[c].cells =
                Packed([rtl |-> gates.table.is.rows[c].cells[3]], c, gates.table.is.rows[c].cfg, gates.table.is.tool)
    BY FileIs DEF FiguresType, IsGates, IsTable
<1>2. ASSUME NEW c, Agree(c)
      PROVE  LET un == {i \in DOMAIN c.trace : c.trace[i].src = Undefined}
             IN /\ \A i \in DOMAIN c.trace \ un : c.trace[i].src = c.trace[i].gate
                /\ 10 * Cardinality(un) <= Len(c.trace)
    BY <1>2 DEF Agree
<1> QED BY <1>1, <1>2 DEF TableIsMeasured, TableVerdict, TableStates
LEMMA TablePartsNext == (FiguresType /\ TableVerdict)' => TableIsMeasured'
BY TableParts, PTL

PageStates(b) ==
    /\ Whole(gates.pages[b])
    /\ gates.pages[b].is.facts = <<gates.design.scripts[b], Inferred(gates.design, b)>>
    /\ gates.pages[b].is.tool = gates.yosys =>
          /\ gates.pages[b].is.packed = Packed(gates.design, b, gates.design.scripts[b], gates.yosys)
          /\ gates.pages[b].is.notes = Ended
FrontQuotes ==
    LET page == gates.pages[Top].is
    IN /\ gates.row.stated /\ gates.row.build = page.tool /\ gates.row.inferred = page.facts[2]
       /\ page.tool = gates.yosys => gates.row.packed = page.packed
PagesVerdict ==
    verdict \in {"synth ok", "synth failed"} =>
        (verdict = "synth ok" <=>
            /\ \A b \in measured.scripts : PageStates(b)
            /\ Top \in measured.scripts => FrontQuotes
            /\ measured.all /\ measured.check => \A b \in Blocks \ measured.scripts : gates.pages[b] = Absent)
LEMMA PagesParts == PagesVerdict => PagesAreMeasured
BY DEF PagesVerdict, PagesAreMeasured, PageStates, FrontQuotes
LEMMA PagesPartsNext == PagesVerdict' => PagesAreMeasured'
BY PagesParts, PTL

\* gatesim: what it measured either ends in a verdict or is what is left to sync.
LEMMA FiguresGatesim ==
    ASSUME Shape, FiguresType, DoGatesim
    PROVE  FiguresType' /\ FiguresInv'
<1> DEFINE c == Head(todo)
           cases == IF c.only = {} THEN DOMAIN gates.design.cases ELSE c.only
           fresh == table_block(gates.design, gates.yosys)
           R(odd, bench) == [x \in cases |-> IF x = odd THEN bench ELSE Equivalent]
           M(results) == [of |-> "cases", results |-> results, all |-> c.only = {}]
<1>1. /\ gates' = gates
      /\ \E odd \in cases, bench \in Benches :
            /\ measured' = M(R(odd, bench))
            /\ IF (\E x \in cases : ~ run_case(R(odd, bench)[x])) \/ c.only # {}
               THEN Ends(\A x \in cases : run_case(R(odd, bench)[x]), "gatesim ok", "gatesim failed")
               ELSE /\ todo' = <<[op |-> "sync table", write |-> c.write, fresh |-> fresh]>>
                    /\ verdict' = "none"
    BY DEF DoGatesim
<1>2. PICK odd \in cases, bench \in Benches :
            /\ measured' = M(R(odd, bench))
            /\ IF (\E x \in cases : ~ run_case(R(odd, bench)[x])) \/ c.only # {}
               THEN Ends(\A x \in cases : run_case(R(odd, bench)[x]), "gatesim ok", "gatesim failed")
               ELSE /\ todo' = <<[op |-> "sync table", write |-> c.write, fresh |-> fresh]>>
                    /\ verdict' = "none"
    BY <1>1
<1> DEFINE r == R(odd, bench)
<1>3. measured'.results = r /\ measured'.all = (c.only = {})
    BY <1>2
<1>4. DOMAIN r = cases /\ \A x \in cases : r[x] \in Benches
    BY BenchesAssumption
<1>5. /\ (\E x \in cases : ~ run_case(r[x])) \/ c.only # {} =>
            Ends(\A x \in cases : run_case(r[x]), "gatesim ok", "gatesim failed")
      /\ (\A x \in cases : run_case(r[x])) /\ c.only = {} =>
            /\ todo' = <<[op |-> "sync table", write |-> c.write, fresh |-> fresh]>>
            /\ verdict' = "none"
    BY <1>2
<1>6. FiguresType'
    BY <1>1 DEF FiguresType
<1> HIDE DEF cases, r
<1>7. DOMAIN measured'.results = cases /\ \A x \in cases : run_case(r[x]) => Agree(measured'.results[x])
    BY <1>3, <1>4, BenchAgrees
<1>8. CASE (\A x \in cases : run_case(r[x])) /\ c.only = {}
    <2> DEFINE s == [op |-> "sync table", write |-> c.write, fresh |-> fresh]
    <2>1. todo' = <<s>> /\ verdict' = "none"
        BY <1>5, <1>8
    <2>2. s.op = "sync table" /\ s.fresh = fresh
        OBVIOUS
    <2> HIDE DEF s
    <2>3. Len(todo') = 1 /\ todo'[1] = s
        BY <2>1, OneStep
    <2>4. Len(todo') = 1
        BY <2>3
    <2>5. \A i \in 1 .. Len(todo') : i = 1
        BY <2>4
    <2>6. \A i \in Steps' : todo'[i] = s
        BY <2>3, <2>5 DEF Steps
    <2>7. s.op # "synth" /\ s.op # "write page" /\ s.op # "row"
        BY <2>2
    <2>8. measured'.all /\ \A x \in DOMAIN measured'.results : Agree(measured'.results[x])
        BY <1>3, <1>7, <1>8
    <2>9. s.fresh = table_block(gates'.design, gates'.yosys)
        BY <1>1, <2>2
    <2>10. FiguresTodo'
        <3> HIDE DEF c, fresh, R, M
        <3> QED BY <2>2, <2>6, <2>7, <2>8, <2>9 DEF FiguresTodo, Relies
    <2>11. Quiet'
        BY <2>1 DEF Quiet
    <2> QED BY <1>6, <2>10, <2>11, QuietNext DEF FiguresInv
<1>9. CASE ~ ((\A x \in cases : run_case(r[x])) /\ c.only = {})
    <2>1. Ends(\A x \in cases : run_case(r[x]), "gatesim ok", "gatesim failed")
        BY <1>5, <1>9
    <2>2. todo' = <<>> /\ verdict' = IF \A x \in cases : run_case(r[x]) THEN "gatesim ok" ELSE "gatesim failed"
        BY <2>1 DEF Ends
    <2>3. CASE \A x \in cases : run_case(r[x])
        <3>1. verdict' = "gatesim ok" /\ ~ measured'.all
            BY <1>3, <1>9, <2>2, <2>3
        <3>2. \A x \in DOMAIN measured'.results : Agree(measured'.results[x])
            BY <1>7, <2>3
        <3>3. TableVerdict'
            BY <3>1, <3>2 DEF TableVerdict
        <3>4. PagesVerdict'
            BY <3>1 DEF PagesVerdict
        <3> QED BY <1>6, <2>2, <3>3, <3>4, NothingLeft, TablePartsNext, PagesPartsNext DEF FiguresInv
    <2>4. CASE \E x \in cases : ~ run_case(r[x])
        <3>1. verdict' = "gatesim failed"
            BY <2>2, <2>4
        <3>2. \E x \in DOMAIN measured'.results : measured'.results[x] # Equivalent
            BY <1>3, <1>4, <2>4, BenchesAssumption
        <3>3. TableVerdict'
            BY <3>1, <3>2 DEF TableVerdict
        <3>4. PagesVerdict'
            BY <3>1 DEF PagesVerdict
        <3> QED BY <1>6, <2>2, <3>3, <3>4, NothingLeft, TablePartsNext, PagesPartsNext DEF FiguresInv
    <2> QED BY <2>3, <2>4
<1> QED BY <1>8, <1>9
\* The table carries what was just measured when it states this design, and on
\* this build its cell counts.
LEMMA SyncIs ==
    ASSUME FiguresType
    PROVE  sync_table(gates.table, table_block(gates.design, gates.yosys)) <=> TableStates
<1> DEFINE F == table_block(gates.design, gates.yosys)
           cs == gates.design.cases
           t == gates.table.is
           P(c) == Packed(gates.design, c, cs[c], gates.yosys)
           R(c) == [cfg |-> cs[c], cells |-> P(c)]
<1>1. F = [tool |-> F.tool, rows |-> F.rows] /\ F.tool = gates.yosys /\ F.rows = [c \in DOMAIN cs |-> R(c)]
    BY BlockIs
<1>2. \A c : R(c).cfg = cs[c] /\ R(c).cells = P(c)
    OBVIOUS
<1>3. CASE gates.table = Torn
    BY <1>3, FileIs DEF sync_table, TableStates
<1>4. CASE IsTable(gates.table)
    <2>1. Whole(gates.table) /\ t = [tool |-> t.tool, rows |-> t.rows]
        BY <1>4, FileIs DEF IsTable
    <2>2. t.rows = [c \in DOMAIN t.rows |-> [cfg |-> t.rows[c].cfg, cells |-> t.rows[c].cells]]
        BY <1>4 DEF IsTable
    <2>3. DOMAIN F.rows = DOMAIN cs /\ \A c \in DOMAIN cs : F.rows[c] = R(c)
        BY <1>1
    <2> DEFINE Same2 == /\ DOMAIN t.rows = DOMAIN cs
                        /\ \A c \in DOMAIN t.rows : t.rows[c].cfg = cs[c] /\ t.rows[c].cells = P(c)
    <2> HIDE DEF F, P
    <2>4. t.rows = F.rows <=> Same2
        <3>1. ASSUME t.rows = F.rows PROVE Same2
            <4> HIDE DEF R
            <4> QED BY <3>1, <2>3, <1>2
        <3>2. ASSUME Same2 PROVE t.rows = F.rows
            <4>1. \A c \in DOMAIN t.rows : [cfg |-> t.rows[c].cfg, cells |-> t.rows[c].cells] = R(c)
                BY <3>2
            <4>2. DOMAIN t.rows = DOMAIN cs
                BY <3>2
            <4> HIDE DEF R, Same2
            <4> QED BY <4>1, <4>2, <2>2, <1>1
        <3> QED BY <3>1, <3>2
    <2>5. CASE t.tool = gates.yosys
        <3>1. sync_table(gates.table, F) <=> t = F
            BY <2>1, <2>5, <1>1 DEF sync_table
        <3>2. t = F <=> t.rows = F.rows
            BY <2>1, <2>5, <1>1
        <3>3. TableStates <=> Same2
            BY <2>1, <2>5 DEF TableStates, P
        <3> QED BY <3>1, <3>2, <3>3, <2>4 DEF F
    <2>6. CASE t.tool # gates.yosys
        <3>1. sync_table(gates.table, F) <=> design_rows(t) = design_rows(F)
            BY <2>1, <2>6, <1>1 DEF sync_table
        <3>2. design_rows(F) = [c \in DOMAIN cs |-> cs[c]]
            BY <2>3, <1>2 DEF design_rows
        <3>3. design_rows(t) = [c \in DOMAIN t.rows |-> t.rows[c].cfg]
            BY DEF design_rows
        <3> DEFINE Cfg == DOMAIN t.rows = DOMAIN cs /\ \A c \in DOMAIN t.rows : t.rows[c].cfg = cs[c]
        <3>4. TableStates <=> Cfg
            BY <2>1, <2>6 DEF TableStates
        <3>5. [c \in DOMAIN t.rows |-> t.rows[c].cfg] = [c \in DOMAIN cs |-> cs[c]] <=> Cfg
            <4>1. ASSUME [c \in DOMAIN t.rows |-> t.rows[c].cfg] = [c \in DOMAIN cs |-> cs[c]] PROVE Cfg
                <5> DEFINE a == [c \in DOMAIN t.rows |-> t.rows[c].cfg]
                           b == [c \in DOMAIN cs |-> cs[c]]
                <5>1. DOMAIN a = DOMAIN t.rows /\ \A c \in DOMAIN t.rows : a[c] = t.rows[c].cfg
                    OBVIOUS
                <5>2. DOMAIN b = DOMAIN cs /\ \A c \in DOMAIN cs : b[c] = cs[c]
                    OBVIOUS
                <5>3. a = b
                    BY <4>1
                <5> HIDE DEF a, b
                <5> QED BY <5>1, <5>2, <5>3
            <4>2. ASSUME Cfg PROVE [c \in DOMAIN t.rows |-> t.rows[c].cfg] = [c \in DOMAIN cs |-> cs[c]]
                BY <4>2
            <4> QED BY <4>1, <4>2
        <3> HIDE DEF Cfg
        <3> QED BY <3>1, <3>2, <3>3, <3>4, <3>5 DEF F
    <2> QED BY <2>5, <2>6
<1> QED BY <1>3, <1>4 DEF FiguresType, IsGates

LEMMA FiguresSync ==
    ASSUME Shape, FiguresType, FiguresInv, DoSyncTable
    PROVE  FiguresType' /\ FiguresInv'
<1> DEFINE c == Head(todo)
<1>1. todo # <<>> /\ c.op = "sync table" /\ measured' = measured /\ session' = session /\ todo' = <<>>
    BY DEF DoSyncTable, Is, Others, Ends
<1>2. session = "figures" /\ c = todo[1] /\ 1 \in Steps
    BY <1>1, SessionOf, HeadIs
<1>3. /\ c.fresh = table_block(gates.design, gates.yosys) /\ measured.all
      /\ \A x \in DOMAIN measured.results : Agree(measured.results[x])
    BY <1>1, <1>2 DEF FiguresInv, FiguresTodo, Relies
<1>4. CASE c.write /\ Whole(gates.table)
    <2>1. gates' = [gates EXCEPT !.table = File(c.fresh)] /\ verdict' = "gatesim ok"
        BY <1>1, <1>4 DEF DoSyncTable, Ends
    <2>2. IsTable(File(c.fresh))
        BY <1>3, TableIs
    <2>3. IsGates(gates')
        BY <2>1, <2>2, GatesKept DEF FiguresType
    <2>4. FiguresType'
        BY <2>3 DEF FiguresType
    <2>5. gates'.design = gates.design /\ gates'.yosys = gates.yosys /\ gates'.table = File(c.fresh)
        <3>1. gates = [design |-> gates.design, yosys |-> gates.yosys, table |-> gates.table,
                       pages |-> gates.pages, row |-> gates.row]
            BY DEF FiguresType, IsGates
        <3> DEFINE f == File(c.fresh)
        <3> HIDE DEF f
        <3>2. gates' = [design |-> gates.design, yosys |-> gates.yosys, table |-> f,
                        pages |-> gates.pages, row |-> gates.row]
            BY <2>1, <3>1, GatesExcept DEF f
        <3>3. gates'.design = gates.design /\ gates'.yosys = gates.yosys /\ gates'.table = f
            BY <3>2
        <3> QED BY <3>3 DEF f
    <2>6. TableStates'
        <3> DEFINE F == table_block(gates.design, gates.yosys)
                   cs == gates.design.cases
                   P(x) == Packed(gates.design, x, cs[x], gates.yosys)
                   R(x) == [cfg |-> cs[x], cells |-> P(x)]
        <3>1. F.tool = gates.yosys /\ F.rows = [x \in DOMAIN cs |-> R(x)]
            BY BlockIs
        <3>2. \A x : R(x).cfg = cs[x] /\ R(x).cells = P(x)
            OBVIOUS
        <3> HIDE DEF R
        <3>3. DOMAIN F.rows = DOMAIN cs /\ \A x \in DOMAIN cs : F.rows[x].cfg = cs[x] /\ F.rows[x].cells = P(x)
            BY <3>1, <3>2
        <3>4. Whole(gates'.table) /\ gates'.table.is = F
            BY <1>3, <2>5, FileIs
        <3> HIDE DEF F
        <3> QED BY <2>5, <3>1, <3>3, <3>4 DEF TableStates
    <2>7. TableVerdict'
        BY <1>1, <1>3, <2>1, <2>6 DEF TableVerdict
    <2>8. PagesVerdict'
        BY <2>1 DEF PagesVerdict
    <2> QED BY <1>1, <2>4, <2>7, <2>8, NothingLeft, TablePartsNext, PagesPartsNext DEF FiguresInv
<1>5. CASE ~ (c.write /\ Whole(gates.table))
    <2>1. gates' = gates /\ verdict' = IF sync_table(gates.table, c.fresh) THEN "gatesim ok" ELSE "gatesim failed"
        BY <1>1, <1>5 DEF DoSyncTable, Ends
    <2>2. FiguresType'
        BY <2>1 DEF FiguresType
    <2>3. verdict' = IF TableStates THEN "gatesim ok" ELSE "gatesim failed"
        BY <1>3, <2>1, SyncIs
    <2>4. TableStates' <=> TableStates
        BY <2>1 DEF TableStates
    <2>5. TableVerdict'
        BY <1>1, <1>3, <2>3, <2>4 DEF TableVerdict
    <2>6. PagesVerdict'
        BY <2>3 DEF PagesVerdict
    <2> QED BY <1>1, <2>2, <2>5, <2>6, NothingLeft, TablePartsNext, PagesPartsNext DEF FiguresInv
<1> QED BY <1>4, <1>5
\* A page written leaves the other steps what they relied on.
LEMMA FiguresPage ==
    ASSUME Shape, FiguresType, FiguresInv, DoWritePage
    PROVE  FiguresType' /\ FiguresInv'
<1> DEFINE b == Head(todo).script
           p == Head(todo).page
           f == File(p)
           ps == [gates.pages EXCEPT ![b] = f]
<1>1. /\ todo # <<>> /\ Head(todo).op = "write page" /\ measured' = measured /\ session' = session
      /\ todo' = Tail(todo) /\ verdict' = "none" /\ gates' = [gates EXCEPT !.pages = ps]
    BY DEF DoWritePage, Is, Others, Rest
<1>2. /\ session = "figures" /\ Head(todo) = todo[1] /\ 1 \in Steps /\ Len(todo) \in Nat \ {0}
      /\ Len(todo') = Len(todo) - 1
      /\ \A i \in 1 .. Len(todo) - 1 : i + 1 \in Steps /\ todo'[i] = todo[i + 1]
    BY <1>1, SessionOf, HeadIs
<1>3. FiguresTodo
    BY <1>2 DEF FiguresInv
<1>4. b \in Blocks /\ OfNow(gates, b, p)
    BY <1>1, <1>2, <1>3 DEF FiguresTodo, Relies
<1>5. gates.yosys \in Builds
    BY DEF FiguresType, IsGates
<1>6. IsPage(f)
    BY <1>4, <1>5, PageIs
<1>7. /\ gates.pages = [x \in Blocks |-> gates.pages[x]]
      /\ \A x \in Blocks : IsPage(gates.pages[x])
    BY DEF FiguresType, IsGates
<1> HIDE DEF f
<1>8. /\ ps = [x \in Blocks |-> ps[x]] /\ \A x \in Blocks : IsPage(ps[x])
      /\ ps[b] = f /\ \A x \in Blocks : x # b => ps[x] = gates.pages[x]
    BY <1>4, <1>6, <1>7
<1> HIDE DEF ps
<1>9. IsGates(gates')
    BY <1>1, <1>8, GatesKept DEF FiguresType
<1>10. FiguresType'
    BY <1>9 DEF FiguresType
<1>11. /\ gates'.design = gates.design /\ gates'.yosys = gates.yosys /\ gates'.pages = ps /\ gates'.row = gates.row
       /\ gates'.table = gates.table
    <2>1. gates = [design |-> gates.design, yosys |-> gates.yosys, table |-> gates.table,
                   pages |-> gates.pages, row |-> gates.row]
        BY DEF FiguresType, IsGates
    <2>2. gates' = [design |-> gates.design, yosys |-> gates.yosys, table |-> gates.table,
                    pages |-> ps, row |-> gates.row]
        BY <1>1, <2>1, GatesExcept
    <2> QED BY <2>2
<1>12. Whole(f) /\ f.is = p
    BY FileIs DEF f
<1>13. \A x, y : OfNow(gates, x, y) => OfNow(gates', x, y)
    BY <1>11 DEF OfNow
<1>14. ASSUME NEW i \in Steps'
       PROVE  Relies(todo', i, gates', measured')
    <2>1. i \in 1 .. Len(todo) - 1
        BY <1>2 DEF Steps
    <2> DEFINE k == i + 1
               s == todo[k]
    <2>2. k \in Steps /\ todo'[i] = s
        BY <1>2, <2>1
    <2>3. i \in Nat /\ k = i + 1
        BY <2>1
    <2> HIDE DEF k
    <2>4. Relies(todo, k, gates, measured)
        BY <2>2, <1>3 DEF FiguresTodo
    <2>5. ASSUME s.op = "row"
          PROVE  /\ ~ measured'.check /\ measured'.scripts \subseteq Blocks
                 /\ s.front <=> (Top \in measured'.scripts => FrontOf(gates'))
                 /\ \A x \in measured'.scripts :
                       \/ Whole(gates'.pages[x]) /\ OfNow(gates', x, gates'.pages[x].is)
                       \/ \E j \in 1 .. i - 1 : todo'[j].op = "write page" /\ todo'[j].script = x
        <3>1. /\ ~ measured.check /\ measured.scripts \subseteq Blocks
              /\ s.front <=> (Top \in measured.scripts => FrontOf(gates))
              /\ \A x \in measured.scripts :
                    \/ Whole(gates.pages[x]) /\ OfNow(gates, x, gates.pages[x].is)
                    \/ \E j \in 1 .. k - 1 : todo[j].op = "write page" /\ todo[j].script = x
            BY <2>4, <2>5 DEF Relies
        <3>2. FrontOf(gates') <=> FrontOf(gates)
            BY <1>11 DEF FrontOf
        <3>3. ASSUME NEW x \in measured.scripts
              PROVE  \/ Whole(gates'.pages[x]) /\ OfNow(gates', x, gates'.pages[x].is)
                     \/ \E j \in 1 .. i - 1 : todo'[j].op = "write page" /\ todo'[j].script = x
            <4>1. CASE x = b
                <5>1. gates'.pages[x] = f
                    BY <4>1, <1>8, <1>11
                <5>2. OfNow(gates', x, p)
                    BY <4>1, <1>4, <1>13
                <5> QED BY <5>1, <5>2, <1>12
            <4>2. CASE x # b /\ Whole(gates.pages[x]) /\ OfNow(gates, x, gates.pages[x].is)
                <5>1. gates'.pages[x] = gates.pages[x]
                    BY <3>1, <4>2, <1>8, <1>11
                <5>2. OfNow(gates', x, gates'.pages[x].is)
                    BY <4>2, <5>1, <1>13
                <5> QED BY <4>2, <5>1, <5>2
            <4>3. CASE x # b /\ \E j \in 1 .. k - 1 : todo[j].op = "write page" /\ todo[j].script = x
                <5>1. PICK j \in 1 .. k - 1 : todo[j].op = "write page" /\ todo[j].script = x
                    BY <4>3
                <5>2. j # 1
                    BY <1>2, <4>3, <5>1
                <5>3. j - 1 \in 1 .. i - 1 /\ j - 1 \in 1 .. Len(todo) - 1 /\ (j - 1) + 1 = j
                    BY <2>1, <2>3, <5>2, <1>2
                <5>4. todo'[j - 1] = todo[j]
                    BY <1>2, <5>3
                <5> QED BY <5>1, <5>3, <5>4
            <4> QED BY <3>1, <4>1, <4>2, <4>3
        <3> QED BY <3>1, <3>2, <3>3, <1>1
    <2>6. /\ s.op = "synth" => s.scripts \subseteq DOMAIN gates'.design.scripts
          /\ s.op = "sync table" =>
                /\ s.fresh = table_block(gates'.design, gates'.yosys)
                /\ measured'.all
                /\ \A c \in DOMAIN measured'.results : Agree(measured'.results[c])
          /\ s.op = "write page" => s.script \in Blocks /\ OfNow(gates', s.script, s.page)
        BY <2>4, <1>1, <1>11, <1>13 DEF Relies
    <2> HIDE DEF s
    <2> QED BY <2>2, <2>5, <2>6 DEF Relies
<1>15. FiguresTodo'
    BY <1>14 DEF FiguresTodo
<1>16. Quiet'
    BY <1>1 DEF Quiet
<1> QED BY <1>10, <1>15, <1>16, QuietNext DEF FiguresInv
\* A page of now states the design, and the front page quotes it when it states
\* what the build and the design give.
LEMMA NowStates ==
    ASSUME NEW b, Whole(gates.pages[b]), OfNow(gates, b, gates.pages[b].is), gates.yosys \in Builds
    PROVE  PageStates(b) /\ (b = Top => (FrontQuotes <=> FrontOf(gates)))
<1> DEFINE p == gates.pages[b].is
           x == gates.design.scripts[b]
           y == Inferred(gates.design, b)
           z == Packed(gates.design, b, x, gates.yosys)
<1>1. p.tool = gates.yosys /\ p.facts = <<x, y>> /\ p.packed = z /\ p.notes = Ended
    BY PageIs
<1>2. PageStates(b)
    BY <1>1 DEF PageStates
<1>3. p.facts[2] = y
    <2> HIDE DEF p, x, y
    <2> QED BY <1>1
<1>4. ASSUME b = Top PROVE FrontQuotes <=> FrontOf(gates)
    BY <1>1, <1>3, <1>4 DEF FrontQuotes, FrontOf
<1> QED BY <1>2, <1>4

LEMMA FiguresRow ==
    ASSUME Shape, FiguresType, FiguresInv, DoRow
    PROVE  FiguresType' /\ FiguresInv'
<1> DEFINE s == Head(todo)
<1>1. /\ todo # <<>> /\ s.op = "row" /\ gates' = gates /\ measured' = measured /\ session' = session
      /\ todo' = <<>> /\ verdict' = IF s.front THEN "synth ok" ELSE "synth failed"
    BY DEF DoRow, Is, Others, Ends, figures
<1>2. session = "figures" /\ s = todo[1] /\ 1 \in Steps
    BY <1>1, SessionOf, HeadIs
<1>3. Relies(todo, 1, gates, measured)
    BY <1>2 DEF FiguresInv, FiguresTodo
<1>4. /\ ~ measured.check
      /\ s.front <=> (Top \in measured.scripts => FrontOf(gates))
      /\ \A b \in measured.scripts : Whole(gates.pages[b]) /\ OfNow(gates, b, gates.pages[b].is)
    <2>1. todo[1].op = "row" /\ todo[1].front = s.front
        BY <1>1, <1>2
    <2>2. /\ ~ measured.check
          /\ s.front <=> (Top \in measured.scripts => FrontOf(gates))
          /\ \A b \in measured.scripts :
                \/ Whole(gates.pages[b]) /\ OfNow(gates, b, gates.pages[b].is)
                \/ \E j \in 1 .. 1 - 1 : todo[j].op = "write page" /\ todo[j].script = b
        <3> HIDE DEF s
        <3> QED BY <2>1, <1>3 DEF Relies
    <2>3. \A j \in 1 .. 1 - 1 : FALSE
        OBVIOUS
    <2> HIDE DEF s
    <2> QED BY <2>2, <2>3
<1>5. gates.yosys \in Builds
    BY DEF FiguresType, IsGates
<1>6. (\A b \in measured.scripts : PageStates(b)) /\ (Top \in measured.scripts => (FrontQuotes <=> FrontOf(gates)))
    BY <1>4, <1>5, NowStates
<1>7. /\ (\A b \in measured.scripts : PageStates(b))' <=> \A b \in measured.scripts : PageStates(b)
      /\ FrontQuotes' <=> FrontQuotes
    BY <1>1 DEF PageStates, FrontQuotes
<1>8. PagesVerdict'
    BY <1>1, <1>4, <1>6, <1>7 DEF PagesVerdict
<1>9. TableVerdict'
    BY <1>1 DEF TableVerdict
<1>10. FiguresType'
    BY <1>1 DEF FiguresType
<1> QED BY <1>1, <1>8, <1>9, <1>10, NothingLeft, TablePartsNext, PagesPartsNext DEF FiguresInv

\* What synth_report builds is a page of now.
LEMMA BuiltIs ==
    ASSUME NEW b
    PROVE  LET p == build_page(gates.design, b, gates.yosys)
           IN /\ OfNow(gates, b, p) /\ p.notes = Ended
              /\ p = [tool |-> p.tool, facts |-> p.facts, packed |-> p.packed, notes |-> p.notes]
              /\ p.tool = gates.yosys /\ p.facts = <<gates.design.scripts[b], Inferred(gates.design, b)>>
              /\ p.packed = Packed(gates.design, b, gates.design.scripts[b], gates.yosys)
              /\ p.facts[2] = Inferred(gates.design, b)
<1> DEFINE p == build_page(gates.design, b, gates.yosys)
           x == gates.design.scripts[b]
           y == Inferred(gates.design, b)
           z == Packed(gates.design, b, x, gates.yosys)
<1>1. p = [tool |-> gates.yosys, facts |-> <<x, y>>, packed |-> z, notes |-> Ended]
    BY DEF build_page
<1> HIDE DEF p, x, y, z
<1>2. /\ p.tool = gates.yosys /\ p.facts = <<x, y>> /\ p.packed = z /\ p.notes = Ended
      /\ p = [tool |-> p.tool, facts |-> p.facts, packed |-> p.packed, notes |-> p.notes]
    BY <1>1
<1>3. p.facts[2] = y
    BY <1>2
<1>4. OfNow(gates, b, p)
    BY <1>1, <1>2 DEF OfNow, x, y, z
<1> QED BY <1>2, <1>3, <1>4 DEF p, x, y, z

\* synth_report --check of one page: the recorded page is the one it built, or
\* states the design and is of another build.
LEMMA CheckIs ==
    ASSUME FiguresType, NEW b \in Blocks
    PROVE  LET p == build_page(gates.design, b, gates.yosys)
           IN (/\ gates.pages[b] # Absent
               /\ IF recorded_tool(gates.pages[b]) = p.tool THEN gates.pages[b].is = p
                  ELSE design_facts(gates.pages[b]) = p.facts)
              <=> PageStates(b)
<1> DEFINE p == build_page(gates.design, b, gates.yosys)
           g == gates.pages[b]
           x == gates.design.scripts[b]
           y == Inferred(gates.design, b)
           z == Packed(gates.design, b, x, gates.yosys)
           Held == /\ g # Absent
                   /\ IF recorded_tool(g) = p.tool THEN g.is = p ELSE design_facts(g) = p.facts
<1>1. /\ p = [tool |-> p.tool, facts |-> p.facts, packed |-> p.packed, notes |-> p.notes]
      /\ p.tool = gates.yosys /\ p.facts = <<x, y>> /\ p.packed = z /\ p.notes = Ended
    BY BuiltIs
<1>2. IsPage(g)
    BY DEF FiguresType, IsGates
<1>3. gates.yosys \in Builds /\ "" \notin Builds
    BY BuildsAssumption DEF FiguresType, IsGates
<1>4. PageStates(b) <=> Whole(g) /\ g.is.facts = <<x, y>> /\ (g.is.tool = gates.yosys => g.is.packed = z /\ g.is.notes = Ended)
    BY DEF PageStates
<1> SUFFICES Held <=> PageStates(b)
    OBVIOUS
<1> HIDE DEF p, g, z
<1>6. Held <=> PageStates(b)
    <2>1. /\ g.is = [tool |-> g.is.tool, facts |-> g.is.facts, packed |-> g.is.packed, notes |-> g.is.notes]
          /\ Whole(g) /\ g # Absent
        BY <1>2, FileIs DEF IsPage
    <2>2. recorded_tool(g) = g.is.tool /\ design_facts(g) = g.is.facts
        BY DEF recorded_tool, design_facts
    <2> HIDE DEF x, y
    <2>3. CASE g.is.tool = gates.yosys
        <3>1. g.is = p <=> g.is.facts = <<x, y>> /\ g.is.packed = z /\ g.is.notes = Ended
            BY <2>1, <2>2, <2>3, <1>1
        <3> QED BY <2>1, <2>2, <2>3, <3>1, <1>1, <1>4
    <2>4. CASE g.is.tool # gates.yosys
        BY <2>1, <2>2, <2>4, <1>1, <1>4
    <2> QED BY <2>3, <2>4
<1> QED BY <1>6
\* The front page is held to the page the run built, on the build the quoted page
\* names; on the build installed that is to state what the build gives.
LEMMA FrontIs ==
    ASSUME FiguresType, NEW quoted, quoted # ""
    PROVE  LET p == build_page(gates.design, Top, gates.yosys)
           IN /\ check_front_page(gates.row, p, quoted) <=>
                    /\ gates.row.stated /\ gates.row.build = quoted
                    /\ gates.row.inferred = Inferred(gates.design, Top)
                    /\ gates.row.build = gates.yosys =>
                          gates.row.packed = Packed(gates.design, Top, gates.design.scripts[Top], gates.yosys)
              /\ quoted = gates.yosys => (check_front_page(gates.row, p, quoted) <=> FrontOf(gates))
<1> DEFINE p == build_page(gates.design, Top, gates.yosys)
           x == gates.design.scripts[Top]
           y == Inferred(gates.design, Top)
           z == Packed(gates.design, Top, x, gates.yosys)
           run == [inferred |-> p.facts[2], packed |-> p.packed]
           Row == /\ gates.row.stated /\ gates.row.build = quoted /\ gates.row.inferred = y
                  /\ gates.row.build = gates.yosys => gates.row.packed = z
<1>1. p.tool = gates.yosys /\ p.facts[2] = y /\ p.packed = z
    BY BuiltIs
<1> HIDE DEF p, y, z
<1>2. report_figures(p) = run /\ run.inferred = y /\ run.packed = z
    BY <1>1 DEF report_figures
<1> HIDE DEF run
<1>3. check_front_page(gates.row, p, quoted) <=> Row
    BY <1>1, <1>2 DEF check_front_page, build_matches
<1>4. quoted = gates.yosys => (Row <=> FrontOf(gates))
    BY DEF FrontOf, y, z
<1> QED BY <1>3, <1>4 DEF p, y, z

LEMMA FiguresSynth ==
    ASSUME Shape, FiguresType, FiguresInv, DoSynth
    PROVE  FiguresType' /\ FiguresInv'
<1> DEFINE c == Head(todo)
           scripts == ScriptsOf
           B(b) == build_page(gates.design, b, gates.yosys)
           built == [b \in scripts |-> B(b)]
           quoted == IF c.check /\ gates.pages[Top] # Absent THEN recorded_tool(gates.pages[Top]) ELSE gates.yosys
           front == Top \in scripts => check_front_page(gates.row, built[Top], quoted)
           M == [of |-> "scripts", scripts |-> scripts, all |-> c.scripts = {}, check |-> c.check]
<1>1. /\ todo # <<>> /\ c.op = "synth" /\ gates' = gates /\ session' = session /\ measured' = M
      /\ \/ Fail
         \/ c.check /\ Ends(front /\ check_pages(gates.pages, built, c.scripts = {}), "synth ok", "synth failed")
         \/ /\ ~ c.check /\ verdict' = "none"
            /\ todo' = WritesOf(scripts, built) \o <<[op |-> "row", front |-> front]>>
    BY DEF DoSynth, Is, Others, ScriptsOf, WritesOf
<1>2. /\ session = "figures" /\ scripts \subseteq Blocks /\ IsFiniteSet(scripts)
      /\ Cardinality(scripts) \in Nat
    BY <1>1, SessionOf, ScriptsAre
<1>3. measured'.scripts = scripts /\ (measured'.all = (c.scripts = {})) /\ (measured'.check = c.check)
    BY <1>1
<1>4. FiguresType'
    BY <1>1 DEF FiguresType
<1>5. DOMAIN built = scripts /\ \A b \in scripts : built[b] = B(b)
    OBVIOUS
<1>6. gates.yosys \in Builds /\ gates.yosys # "" /\ DOMAIN gates.pages = Blocks
    <2>1. gates.yosys \in Builds /\ gates.pages = [b \in Blocks |-> gates.pages[b]]
        BY DEF FiguresType, IsGates
    <2> QED BY <2>1, BuildsAssumption
<1> HIDE DEF scripts, B, built, M
<1>7. CASE Fail
    BY <1>4, <1>7, FiguresStop DEF Fail
<1>8. CASE c.check /\ Ends(front /\ check_pages(gates.pages, built, c.scripts = {}), "synth ok", "synth failed")
    <2> DEFINE One(b) == /\ gates.pages[b] # Absent
                         /\ IF recorded_tool(gates.pages[b]) = built[b].tool THEN gates.pages[b].is = built[b]
                            ELSE design_facts(gates.pages[b]) = built[b].facts
               All == c.scripts = {} => \A b \in Blocks : gates.pages[b] # Absent => b \in scripts
    <2>1. /\ todo' = <<>> /\ verdict' \in {"synth ok", "synth failed"}
          /\ verdict' = "synth ok" <=> front /\ check_pages(gates.pages, built, c.scripts = {})
        BY <1>8 DEF Ends
    <2>2. check_pages(gates.pages, built, c.scripts = {}) <=> (\A b \in scripts : One(b)) /\ All
        BY <1>5, <1>6 DEF check_pages
    <2>3. ASSUME NEW b \in scripts PROVE One(b) <=> PageStates(b)
        BY <1>2, <1>5, CheckIs DEF B
    <2> HIDE DEF One
    <2>4. (\A b \in scripts : One(b)) <=> \A b \in scripts : PageStates(b)
        BY <2>3
    <2>5. All <=> (measured'.all /\ measured'.check => \A b \in Blocks \ scripts : gates.pages[b] = Absent)
        BY <1>3, <1>8
    <2>6. ASSUME Top \in scripts, PageStates(Top) PROVE front <=> FrontQuotes
        <3> DEFINE p == gates.pages[Top]
                   x == gates.design.scripts[Top]
                   y == Inferred(gates.design, Top)
                   z == Packed(gates.design, Top, x, gates.yosys)
        <3>1. Whole(p) /\ p.is.facts = <<x, y>> /\ (p.is.tool = gates.yosys => p.is.packed = z) /\ <<x, y>> # <<>>
            BY <2>6 DEF PageStates
        <3>2. p.is.facts[2] = y
            <4> HIDE DEF p, x, y
            <4> QED BY <3>1
        <3>3. IsPage(p)
            BY <1>2, <2>6, <3>1, FileIs DEF FiguresType, IsGates
        <3>4. p.is.tool \in Builds /\ p # Absent
            BY <3>1, <3>3, FileIs DEF IsPage
        <3>5. quoted = p.is.tool /\ quoted # ""
            BY <1>8, <3>1, <3>4, BuildsAssumption DEF recorded_tool
        <3> HIDE DEF quoted
        <3>6. front <=> check_front_page(gates.row, B(Top), quoted)
            BY <1>5, <2>6
        <3>7. front <=> /\ gates.row.stated /\ gates.row.build = quoted /\ gates.row.inferred = y
                        /\ gates.row.build = gates.yosys => gates.row.packed = z
            BY <3>5, <3>6, FrontIs DEF B
        <3>8. FrontQuotes <=> /\ gates.row.stated /\ gates.row.build = p.is.tool /\ gates.row.inferred = y
                              /\ p.is.tool = gates.yosys => gates.row.packed = p.is.packed
            BY <3>2 DEF FrontQuotes
        <3> HIDE DEF front, p, y, z
        <3> QED BY <3>1, <3>5, <3>7, <3>8
    <2>7. /\ (\A b \in measured.scripts : PageStates(b))' <=> \A b \in scripts : PageStates(b)
          /\ FrontQuotes' <=> FrontQuotes
        BY <1>1, <1>3 DEF PageStates, FrontQuotes
    <2>8. verdict' = "synth ok" <=>
              /\ \A b \in scripts : PageStates(b)
              /\ Top \in scripts => FrontQuotes
              /\ measured'.all /\ measured'.check => \A b \in Blocks \ scripts : gates.pages[b] = Absent
        <3>1. Top \notin scripts => front
            OBVIOUS
        <3> HIDE DEF front, All
        <3> QED BY <2>1, <2>2, <2>4, <2>5, <2>6, <3>1
    <2>9. PagesVerdict'
        BY <1>1, <1>3, <2>7, <2>8 DEF PagesVerdict
    <2>10. TableVerdict'
        BY <2>1 DEF TableVerdict
    <2> QED BY <1>4, <2>1, <2>9, <2>10, NothingLeft, TablePartsNext, PagesPartsNext DEF FiguresInv
<1>9. CASE /\ ~ c.check /\ verdict' = "none"
           /\ todo' = WritesOf(scripts, built) \o <<[op |-> "row", front |-> front]>>
    <2> DEFINE n == Cardinality(scripts)
               q == SetToSeq(scripts)
    <2>1. IsPageWrites(todo', scripts, built, front)
        BY <1>2, <1>9, PageWrites
    <2>2. /\ Len(todo') = n + 1
          /\ \A i \in 1 .. n : todo'[i].op = "write page" /\ todo'[i].script = q[i] /\ todo'[i].page = built[q[i]]
          /\ todo'[n + 1].op = "row" /\ todo'[n + 1].front = front
        BY <2>1 DEF IsPageWrites
    <2>3. (\A i \in 1 .. n : q[i] \in scripts) /\ \A x \in scripts : \E i \in 1 .. n : q[i] = x
        BY <1>2, InOrder
    <2>4. n \in Nat
        BY <1>2
    <2>5. \A b \in scripts : OfNow(gates, b, built[b])
        BY <1>5, BuiltIs DEF B
    <2>6. front <=> (Top \in scripts => FrontOf(gates))
        <3>1. quoted = gates.yosys
            BY <1>9
        <3>2. Top \in scripts => (check_front_page(gates.row, built[Top], quoted) <=> FrontOf(gates))
            BY <1>5, <1>6, <3>1, FrontIs DEF B
        <3> HIDE DEF quoted
        <3> QED BY <3>2
    <2> HIDE DEF front, n, q
    <2>7. ASSUME NEW i \in Steps' PROVE Relies(todo', i, gates', measured')
        <3>0. Steps' = 1 .. n + 1
            <4>1. Len(todo') = n + 1
                BY <2>2
            <4> QED BY <4>1 DEF Steps
        <3>1. i \in 1 .. n \/ i = n + 1
            BY <3>0, <2>4
        <3>2. CASE i \in 1 .. n
            <4>1. q[i] \in Blocks /\ OfNow(gates, q[i], built[q[i]])
                BY <1>2, <2>3, <2>5, <3>2
            <4>2. todo'[i].op = "write page" /\ todo'[i].script = q[i] /\ todo'[i].page = built[q[i]]
                BY <2>2, <3>2
            <4> QED BY <1>1, <4>1, <4>2 DEF Relies
        <3>3. CASE i = n + 1
            <4>1. ASSUME NEW b \in scripts
                  PROVE  \E j \in 1 .. i - 1 : todo'[j].op = "write page" /\ todo'[j].script = b
                <5>1. PICK j \in 1 .. n : q[j] = b
                    BY <2>3
                <5>2. j \in 1 .. i - 1
                    BY <2>4, <3>3, <5>1
                <5> QED BY <2>2, <5>1, <5>2
            <4>2. todo'[i].op = "row" /\ (todo'[i].front <=> (Top \in measured'.scripts => FrontOf(gates')))
                BY <1>1, <1>3, <2>2, <2>6, <3>3
            <4>3. ~ measured'.check /\ measured'.scripts \subseteq Blocks
                BY <1>2, <1>3, <1>9
            <4> QED BY <1>3, <4>1, <4>2, <4>3 DEF Relies
        <3> QED BY <3>1, <3>2, <3>3
    <2>8. FiguresTodo'
        BY <2>7 DEF FiguresTodo
    <2>9. Quiet'
        BY <1>9 DEF Quiet
    <2> QED BY <1>4, <2>8, <2>9, QuietNext DEF FiguresInv
<1> QED BY <1>1, <1>7, <1>8, <1>9
LEMMA FiguresNext ==
    ASSUME Shape, FiguresType, FiguresInv, [Next]_vars
    PROVE  FiguresType' /\ FiguresInv'
<1>1. CASE Elsewhere
    <2>1. session' # "figures" /\ gates' = gates
        BY <1>1, ElsewhereIs
    <2> QED BY <2>1 DEF FiguresType, FiguresInv
<1>2. CASE UNCHANGED vars
    <2>1. gates' = gates /\ todo' = todo /\ measured' = measured /\ session' = session /\ verdict' = verdict
        BY <1>2 DEF vars
    <2>2. FiguresTodo' <=> FiguresTodo
        BY <2>1 DEF FiguresTodo, Steps
    <2>3. TableIsMeasured' <=> TableIsMeasured
        BY <2>1 DEF TableIsMeasured
    <2>4. PagesAreMeasured' <=> PagesAreMeasured
        BY <2>1 DEF PagesAreMeasured
    <2> QED BY <2>1, <2>2, <2>3, <2>4 DEF FiguresType, FiguresInv
<1> QED BY <1>1, <1>2, FiguresStart, FiguresEdit, FiguresInterrupt, FiguresGatesim, FiguresSync, FiguresSynth,
           FiguresPage, FiguresRow DEF Next, Elsewhere

\* What a clone has is one build's.
LEMMA FiguresInit ==
    ASSUME Init
    PROVE  FiguresType /\ FiguresInv
<1> DEFINE tool == CHOOSE t \in Builds : TRUE
           P(b) == build_page(Design, b, tool)
           page == [b \in Blocks |-> File(P(b))]
           table == File(table_block(Design, tool))
           row == Quote(page[Top].is)
<1>1. gates = [design |-> Design, yosys |-> tool, table |-> table, pages |-> page, row |-> row]
    BY DEF Init, Clone
<1>2. tool \in Builds
    BY BuildsAssumption
<1>3. IsTable(table)
    BY TableIs
<1>4. ASSUME NEW b PROVE IsPage(File(P(b)))
    <2> DEFINE x == <<Design.scripts[b], Inferred(Design, b)>>
               z == Packed(Design, b, Design.scripts[b], tool)
               q == P(b)
    <2>1. q = [tool |-> tool, facts |-> x, packed |-> z, notes |-> Ended]
        BY DEF build_page
    <2> HIDE DEF q, x, z, tool
    <2>2. q = [tool |-> q.tool, facts |-> q.facts, packed |-> q.packed, notes |-> q.notes] /\ q.tool = tool
        BY <2>1
    <2>3. IsPage(File(q))
        BY <2>2, <1>2, FileIs DEF IsPage
    <2> QED BY <2>3 DEF q
<1> HIDE DEF P, table, row, tool
<1>5. page = [b \in Blocks |-> page[b]] /\ \A b \in Blocks : IsPage(page[b])
    BY <1>4
<1> HIDE DEF page
<1>6. /\ gates.design = Design /\ gates.yosys = tool /\ gates.table = table /\ gates.pages = page /\ gates.row = row
      /\ gates = [design |-> gates.design, yosys |-> gates.yosys, table |-> gates.table,
                  pages |-> gates.pages, row |-> gates.row]
    BY <1>1
<1>7. Design = [rtl |-> Design.rtl, cases |-> Design.cases, scripts |-> Design.scripts] /\ DOMAIN Design.scripts = Blocks
    BY DEF Design
<1>8. FiguresType
    BY <1>2, <1>3, <1>5, <1>6, <1>7 DEF FiguresType, IsGates
<1>9. Quiet /\ todo = <<>>
    BY DEF Init, Quiet
<1>10. Steps = {}
    <2>1. Len(todo) = 0
        BY <1>9, NoSteps
    <2> QED BY <2>1 DEF Steps
<1> QED BY <1>8, <1>9, <1>10, QuietFigures DEF FiguresInv, FiguresTodo
-----------------------------------------------------------------------------
(* Quality: a row, a report, a merge *)

\* A row is of the ids it was scored on and of the build it came from.
LEMMA RowIs ==
    ASSUME NEW m, NEW seqs, seqs = [i \in DOMAIN seqs |-> seqs[i]], NEW b
    PROVE  IsRow(evaluate(m, seqs, b), seqs, m.calib)
<1> DEFINE S(i) == score_sequence(reference_logits(seqs[i], m.layers), forward_tokens(m, seqs[i], b))
           parts == [i \in DOMAIN seqs |-> S(i)]
           p == Pooled(parts)
           r == evaluate(m, seqs, b)
<1>1. ASSUME NEW i PROVE S(i).n = Len(seqs[i]) - 1 /\ S(i).of = seqs[i] /\ S(i).ok = TRUE
    <2> DEFINE got == forward_tokens(m, seqs[i], b)
               ref == reference_logits(seqs[i], m.layers)
    <2>1. got.of = seqs[i] /\ got.layers = m.layers
        BY DEF forward_tokens
    <2> HIDE DEF got
    <2>2. ref = reference_logits(got.of, got.layers)
        BY <2>1
    <2>3. S(i) = [n |-> Len(got.of) - 1, of |-> got.of, ok |-> ref = reference_logits(got.of, got.layers)]
        BY DEF score_sequence, got
    <2> HIDE DEF S, ref
    <2>4. S(i).n = Len(got.of) - 1 /\ S(i).of = got.of /\ S(i).ok = (ref = reference_logits(got.of, got.layers))
        BY <2>3
    <2> QED BY <2>1, <2>2, <2>4
<1>2. r = _row(m, b, parts)
    BY DEF evaluate
<1> HIDE DEF S
<1>3. DOMAIN parts = DOMAIN seqs /\ \A i \in DOMAIN seqs : parts[i] = S(i)
    OBVIOUS
<1> HIDE DEF parts
<1>4. [i \in DOMAIN parts |-> parts[i].n] = [i \in DOMAIN seqs |-> Len(seqs[i]) - 1]
    BY <1>1, <1>3
<1>5. [i \in DOMAIN parts |-> parts[i].of] = seqs
    BY <1>1, <1>3
<1>6. \A i \in DOMAIN parts : parts[i].ok
    BY <1>1, <1>3
<1>7. p.tokens = Tokens(seqs) /\ p.scored = seqs /\ p.ok
    BY <1>4, <1>5, <1>6 DEF Pooled, Tokens
<1>8. r = [config |-> config_name(m, b), model |-> m, tokens |-> p.tokens, scored |-> p.scored, ok |-> p.ok]
    BY <1>2 DEF _row
<1> HIDE DEF p, r
<1>9. /\ r.config = config_name(m, b) /\ r.model = m /\ r.tokens = p.tokens /\ r.scored = p.scored
      /\ r.ok = p.ok
    BY <1>8
<1>10. config_name(m, b)[2] = m.smoothing
    BY DEF config_name
<1>11. IsRow(r, seqs, m.calib)
    BY <1>7, <1>9, <1>10 DEF IsRow
<1> QED BY <1>11 DEF r
LEMMA RowsAre ==
    ASSUME NEW m, NEW seqs, seqs = [i \in DOMAIN seqs |-> seqs[i]]
    PROVE  \A r \in evaluate_multi(m, seqs) : IsRow(r, seqs, m.calib)
BY RowIs DEF evaluate_multi

\* A protocol names its ids.
LEMMA ProtocolIs ==
    ASSUME NEW seqs
    PROVE  Protocol(seqs).ids = seqs /\ Protocol(seqs).tokens = Tokens(seqs)
BY DEF Protocol
LEMMA BlockOf ==
    ASSUME NEW seqs, NEW rows, NEW source
    PROVE  LET h == heldout_block(seqs, rows, source)
           IN /\ h.rows = rows /\ h.source = source /\ h.protocol = Protocol(seqs)
              /\ h = [protocol |-> h.protocol, source |-> h.source, rows |-> h.rows] /\ h # NoHeldout
<1> DEFINE p == Protocol(seqs)
           h == heldout_block(seqs, rows, source)
<1>1. h = [protocol |-> p, source |-> source, rows |-> rows]
    BY DEF heldout_block
<1> HIDE DEF p, h
<1>2. h.rows = rows /\ h.source = source /\ h.protocol = p
    BY <1>1
<1>3. h # NoHeldout
    <2>1. "source" \in DOMAIN h
        BY <1>1
    <2>2. "source" \notin DOMAIN NoHeldout
        BY DEF NoHeldout
    <2> QED BY <2>1, <2>2
<1> QED BY <1>1, <1>2, <1>3 DEF p, h

\* Rows over rows of the same ids and calibration are such rows.
LEMMA OverIs ==
    ASSUME NEW stored, NEW fresh, NEW seqs, NEW seen,
           \A r \in stored : IsRow(r, seqs, seen), \A r \in fresh : IsRow(r, seqs, seen)
    PROVE  \A r \in Over(stored, fresh) : IsRow(r, seqs, seen)
BY DEF Over

\* A held-out block merged over the stored one keeps only rows of its own ids.
LEMMA HeldMerge ==
    ASSUME NEW stored, NEW fresh, NEW seen,
           stored = NoHeldout \/ IsHeld(stored, seen), fresh = NoHeldout \/ IsHeld(fresh, seen)
    PROVE  LET h == _merge_heldout(stored, fresh) IN h = NoHeldout \/ IsHeld(h, seen)
<1> DEFINE h == _merge_heldout(stored, fresh)
<1>1. CASE fresh = NoHeldout
    BY <1>1 DEF _merge_heldout
<1>2. CASE fresh # NoHeldout /\ (stored = NoHeldout \/ stored.protocol # fresh.protocol \/ stored.source # fresh.source)
    BY <1>2 DEF _merge_heldout
<1>3. CASE /\ fresh # NoHeldout /\ stored # NoHeldout
           /\ stored.protocol = fresh.protocol /\ stored.source = fresh.source
    <2> DEFINE x == Over(stored.rows, fresh.rows)
               seqs == heldout_sequences(fresh.source)
    <2>1. h = [fresh EXCEPT !.rows = x]
        BY <1>3 DEF _merge_heldout
    <2>2. IsHeld(stored, seen) /\ IsHeld(fresh, seen)
        BY <1>3
    <2>3. \A r \in x : IsRow(r, seqs, seen)
        <3>1. (\A r \in stored.rows : IsRow(r, seqs, seen)) /\ \A r \in fresh.rows : IsRow(r, seqs, seen)
            BY <1>3, <2>2 DEF IsHeld
        <3> HIDE DEF seqs
        <3> QED BY <3>1, OverIs
    <2>4. fresh = [protocol |-> fresh.protocol, source |-> fresh.source, rows |-> fresh.rows]
          /\ fresh.protocol = Protocol(seqs) /\ fresh.source \in Cuts
        <3>1. fresh = heldout_block(seqs, fresh.rows, fresh.source) /\ fresh.source \in Cuts
            BY <2>2 DEF IsHeld
        <3> HIDE DEF seqs
        <3> QED BY <3>1, BlockOf
    <2> HIDE DEF x, h
    <2>5. h = [protocol |-> fresh.protocol, source |-> fresh.source, rows |-> x]
        BY <2>1, <2>4
    <2>6. h.source = fresh.source /\ h.rows = x
        BY <2>5
    <2>7. h = heldout_block(seqs, h.rows, h.source)
        BY <2>4, <2>5, <2>6 DEF heldout_block
    <2>8. IsHeld(h, seen)
        BY <2>3, <2>4, <2>6, <2>7 DEF IsHeld
    <2> QED BY <2>8 DEF h
<1> QED BY <1>1, <1>2, <1>3
Fields(rep) ==
    rep = [model |-> rep.model, calib |-> rep.calib, protocol |-> rep.protocol, rows |-> rep.rows, heldout |-> rep.heldout]
LEMMA ReportIs ==
    ASSUME NEW m, NEW seqs, NEW rows, NEW held,
           \A r \in rows : IsRow(r, seqs, m.calib), held = NoHeldout \/ IsHeld(held, m.calib)
    PROVE  LET rep == report(m, seqs, rows, held) IN Fields(rep) /\ IsReport(rep)
<1> DEFINE p == Protocol(seqs)
           rep == report(m, seqs, rows, held)
<1>1. rep = [model |-> m.layers, calib |-> m.calib, protocol |-> p, rows |-> rows, heldout |-> held]
    BY DEF report
<1>2. p.ids = seqs
    BY ProtocolIs
<1> HIDE DEF p, rep
<1>3. rep.model = m.layers /\ rep.calib = m.calib /\ rep.protocol = p /\ rep.rows = rows /\ rep.heldout = held
    BY <1>1
<1>4. Fields(rep)
    BY <1>1, <1>3 DEF Fields
<1>5. rep.protocol = Protocol(rep.protocol.ids)
    BY <1>2, <1>3 DEF p
<1>6. IsReport(rep)
    BY <1>2, <1>3, <1>5 DEF IsReport
<1> QED BY <1>4, <1>6 DEF rep

\* A report merged over the stored one carries forward only what is still of its
\* model, its calibration and its ids.
LEMMA MergeIs ==
    ASSUME NEW rep, Fields(rep), IsReport(rep), NEW stored, stored = Absent \/ IsQuality(stored)
    PROVE  IsQuality(File(merge_quality(rep, stored)))
<1> DEFINE q == merge_quality(rep, stored)
<1>1. ASSUME NEW x, Fields(x), IsReport(x) PROVE IsQuality(File(x))
    BY <1>1, FileIs DEF IsQuality, Fields
<1>2. CASE q = rep
    BY <1>1, <1>2
<1>3. CASE q # rep
    <2> DEFINE x == Over(stored.is.rows, rep.rows)
               h == _merge_heldout(stored.is.heldout, rep.heldout)
    <2>1. /\ stored # Absent /\ \A k \in IDENTITY_KEYS : stored.is[k] = rep[k]
          /\ q = [rep EXCEPT !.rows = x, !.heldout = h]
        BY <1>3 DEF merge_quality
    <2>2. stored.is.calib = rep.calib /\ stored.is.protocol = rep.protocol
        BY <2>1 DEF IDENTITY_KEYS
    <2>3. IsReport(stored.is)
        BY <2>1 DEF IsQuality
    <2>4. \A r \in x : IsRow(r, rep.protocol.ids, rep.calib)
        <3>1. /\ \A r \in stored.is.rows : IsRow(r, rep.protocol.ids, rep.calib)
              /\ \A r \in rep.rows : IsRow(r, rep.protocol.ids, rep.calib)
            BY <2>2, <2>3 DEF IsReport
        <3> QED BY <3>1, OverIs
    <2>5. h = NoHeldout \/ IsHeld(h, rep.calib)
        <3>1. /\ stored.is.heldout = NoHeldout \/ IsHeld(stored.is.heldout, rep.calib)
              /\ rep.heldout = NoHeldout \/ IsHeld(rep.heldout, rep.calib)
            BY <2>2, <2>3 DEF IsReport
        <3> QED BY <3>1, HeldMerge
    <2> HIDE DEF x, h, q
    <2>6. q = [model |-> rep.model, calib |-> rep.calib, protocol |-> rep.protocol, rows |-> x, heldout |-> h]
        BY <2>1 DEF Fields
    <2>7. /\ q.model = rep.model /\ q.calib = rep.calib /\ q.protocol = rep.protocol
          /\ q.rows = x /\ q.heldout = h
        BY <2>6
    <2>8. Fields(q)
        BY <2>6, <2>7 DEF Fields
    <2>9. IsReport(q)
        BY <2>4, <2>5, <2>7 DEF IsReport
    <2> QED BY <1>1, <2>8, <2>9 DEF q
<1> QED BY <1>2, <1>3

\* Held-out ids are never the calibration ids: the second window names itself.
LEMMA OtherIds ==
    ASSUME NEW source, NEW t
    PROVE  heldout_sequences(source) # calibration_sequences(t)
<1> DEFINE h == heldout_sequences(source)
           c == calibration_sequences(t)
           p == prompt_tokens(t)
<1> SUFFICES ASSUME h = c PROVE FALSE
    OBVIOUS
<1>1. c = <<p, <<7, 8>>>>
    BY DEF calibration_sequences
<1> HIDE DEF p
<1>2. DOMAIN c = 1 .. 2 /\ c[2] = <<7, 8>>
    BY <1>1
<1>3. DOMAIN h = 1 .. source.windows /\ \A i \in 1 .. source.windows : h[i] = <<source.split, i>>
    BY DEF heldout_sequences
<1> HIDE DEF h, c
<1>4. 2 \in DOMAIN h
    BY <1>2
<1>5. h[2] = <<source.split, 2>>
    BY <1>3, <1>4
<1>6. <<source.split, 2>> = <<7, 8>>
    BY <1>2, <1>5
<1> QED BY <1>6

\* provenance holds the calibration rows to the ids this clone rebuilds.
LEMMA ProvenanceIs ==
    ASSUME NEW rep, IsReport(rep), NEW t
    PROVE  provenance(rep, t) <=> rep.protocol.ids = calibration_sequences(t) /\ rep.calib = calibration_sequences(t)
<1> DEFINE Calib == calibration_sequences(t)
           s == scored_sets(rep)
           Sets == /\ rep.protocol = Protocol(Calib) /\ rep.calib = rep.protocol.ids
           Held == /\ _heldout_checks(rep.heldout.source)
                   /\ rep.heldout.protocol = Protocol(heldout_sequences(rep.heldout.source))
                   /\ rep.heldout.protocol.ids # Calib
           Goal == rep.protocol.ids = Calib /\ rep.calib = Calib
           One(i) == IF s[i] = "heldout" THEN Held ELSE Sets
<1>1. provenance(rep, t) <=> \A i \in DOMAIN s : One(i)
    BY DEF provenance
<1>2. Sets <=> Goal
    <2>1. rep.protocol = Protocol(rep.protocol.ids)
        BY DEF IsReport
    <2>2. Protocol(Calib).ids = Calib
        BY ProtocolIs
    <2> HIDE DEF Calib
    <2> QED BY <2>1, <2>2
<1>3. CASE rep.heldout = NoHeldout
    <2>1. s = <<"calib">>
        BY <1>3 DEF scored_sets
    <2> HIDE DEF s
    <2>2. DOMAIN s = {1} /\ s[1] = "calib"
        BY <2>1
    <2>3. One(1) <=> Sets
        BY <2>2
    <2> HIDE DEF One, Sets, Goal
    <2> QED BY <1>1, <1>2, <2>2, <2>3 DEF Goal
<1>4. CASE rep.heldout # NoHeldout
    <2>2. IsHeld(rep.heldout, rep.calib)
        BY <1>4 DEF IsReport
    <2>3. Held
        <3> DEFINE h == rep.heldout
                   seqs == heldout_sequences(h.source)
        <3>1. h.source \in Cuts /\ h.protocol = Protocol(seqs)
            <4>1. h.source \in Cuts /\ h = heldout_block(seqs, h.rows, h.source)
                BY <2>2 DEF IsHeld
            <4> HIDE DEF h, seqs
            <4> QED BY <4>1, BlockOf
        <3>2. _heldout_checks(h.source)
            BY <3>1, CutsAssumption DEF _heldout_checks
        <3>3. h.protocol.ids = seqs
            BY <3>1, ProtocolIs
        <3>4. seqs # Calib
            BY OtherIds
        <3> QED BY <3>1, <3>2, <3>3, <3>4
    <2> HIDE DEF s
    <2>4. DOMAIN s = 1 .. 2 /\ s[1] = "heldout" /\ s[2] = "calib"
        <3> DEFINE a == <<"heldout">>
                   b == <<"calib">>
        <3>1. s = a \o b
            BY <1>4 DEF scored_sets, s
        <3>2. IsSeq(a) /\ Len(a) = 1 /\ a[1] = "heldout" /\ IsSeq(b) /\ Len(b) = 1 /\ b[1] = "calib"
            BY OneStep
        <3> HIDE DEF a, b
        <3>3. /\ IsSeq(a \o b) /\ Len(a \o b) = Len(a) + Len(b)
              /\ \A i \in 1 .. Len(a) + Len(b) : (a \o b)[i] = IF i <= Len(a) THEN a[i] ELSE b[i - Len(a)]
            BY <3>2, SeqConcat
        <3>4. Len(a \o b) = 2 /\ (a \o b)[1] = "heldout" /\ (a \o b)[2] = "calib"
            BY <3>2, <3>3
        <3>5. DOMAIN (a \o b) = 1 .. 2
            BY <3>3, <3>4, SeqLen
        <3> QED BY <3>1, <3>4, <3>5
    <2>5. One(1) /\ (One(2) <=> Sets)
        BY <2>3, <2>4
    <2>6. 1 \in DOMAIN s /\ 2 \in DOMAIN s /\ \A i \in DOMAIN s : i = 1 \/ i = 2
        BY <2>4
    <2> HIDE DEF One, Sets, Goal
    <2> QED BY <1>1, <1>2, <2>5, <2>6 DEF Goal
<1> QED BY <1>3, <1>4
-----------------------------------------------------------------------------
(* Quality: what each step leaves *)

\* Without a verdict of provenance there are only the rows to hold.
Unproved == verdict \notin {"provenance ok", "provenance failed"}
ProvenanceVerdict ==
    Whole(quality) => LET rep == quality.is
                      IN verdict = "provenance ok" <=> /\ rep.protocol.ids = calibration_sequences(text)
                                                       /\ rep.calib = calibration_sequences(text)
LEMMA QualityParts == QualityType /\ (Unproved \/ ProvenanceVerdict) => RowsAreScored
<1> SUFFICES ASSUME QualityType, Unproved \/ ProvenanceVerdict, Whole(quality) PROVE RowsAreScored
    BY DEF RowsAreScored
<1> DEFINE rep == quality.is
           ids == rep.protocol.ids
           held == rep.heldout # NoHeldout
<1>1. IsReport(rep)
    BY FileIs DEF QualityType, IsQuality
<1>2. /\ rep.protocol.tokens = Tokens(ids)
      /\ \A r \in rep.rows : IsRow(r, ids, rep.calib)
    BY <1>1, ProtocolIs DEF IsReport
<1>3. \A r \in rep.rows : r.scored = ids /\ r.tokens = rep.protocol.tokens
    BY <1>2 DEF IsRow
<1>4. ASSUME held
      PROVE  \A r \in rep.heldout.rows : /\ IsRow(r, heldout_sequences(rep.heldout.source), rep.calib)
                                         /\ r.scored = heldout_sequences(rep.heldout.source)
                                         /\ r.scored = rep.heldout.protocol.ids
                                         /\ r.tokens = rep.heldout.protocol.tokens
    <2> DEFINE h == rep.heldout
               seqs == heldout_sequences(h.source)
    <2>1. h = heldout_block(seqs, h.rows, h.source) /\ \A r \in h.rows : IsRow(r, seqs, rep.calib)
        BY <1>1, <1>4 DEF IsReport, IsHeld
    <2> HIDE DEF h, seqs
    <2>2. h.protocol.ids = seqs /\ h.protocol.tokens = Tokens(seqs)
        BY <2>1, BlockOf, ProtocolIs
    <2>3. \A r \in h.rows : r.scored = seqs /\ r.tokens = Tokens(seqs)
        BY <2>1 DEF IsRow
    <2> QED BY <2>1, <2>2, <2>3 DEF h, seqs
<1>5. ~ held => rep.heldout.rows = {}
    BY DEF NoHeldout
<1>6. \A r \in rep.rows \cup rep.heldout.rows : r.model.calib = rep.calib /\ r.config[2] = r.model.smoothing /\ r.ok
    BY <1>2, <1>4, <1>5 DEF IsRow
<1>7. verdict \in {"provenance ok", "provenance failed"} =>
          (verdict = "provenance ok" <=>
              /\ ids = calibration_sequences(text) /\ rep.calib = calibration_sequences(text)
              /\ held => \A r \in rep.heldout.rows : r.scored = heldout_sequences(rep.heldout.source))
    BY <1>4 DEF Unproved, ProvenanceVerdict
<1> HIDE DEF ids, held
<1> QED BY <1>3, <1>4, <1>6, <1>7 DEF RowsAreScored, ids, held
LEMMA QualityPartsNext == (QualityType /\ (Unproved \/ ProvenanceVerdict))' => RowsAreScored'
BY QualityParts, PTL

\* What is left of a command keeps the cuts it names.
LEMMA QualityShorter ==
    ASSUME Shape, QualityTodo, todo # <<>>, todo' = Tail(todo) \/ todo' = <<>>
    PROVE  QualityTodo'
<1>1. CASE todo' = <<>>
    BY <1>1, NothingLeft DEF QualityTodo
<1>2. CASE todo' = Tail(todo)
    <2>1. /\ Len(todo') = Len(todo) - 1
          /\ \A i \in 1 .. Len(todo) - 1 : i + 1 \in Steps /\ todo'[i] = todo[i + 1]
        BY <1>2, HeadIs
    <2> QED BY <2>1 DEF QualityTodo, Steps
<1> QED BY <1>1, <1>2

LEMMA QualityCheck ==
    ASSUME Shape, QualityType, QualityTodo, DoCheck
    PROVE  QualityType' /\ Unproved' /\ QualityTodo'
<1> DEFINE c == Head(todo)
           m == quants[c.smoothing].is
           seqs == calibration_sequences(text)
           held == heldout_sequences(c.cut)
           block == heldout_block(held, evaluate_multi(m, held), c.cut)
           rep == IF c.heldout
                  THEN report(m, seqs, {}, block)
                  ELSE report(m, seqs, evaluate_multi(m, seqs), NoHeldout)
<1>1. /\ todo # <<>> /\ c.op = "check" /\ session' = session
      /\ \/ Fail /\ quality' = quality
         \/ Rest /\ quality # Torn /\ quality' = File(merge_quality(rep, quality))
    BY DEF DoCheck, Is
<1>2. Unproved' /\ QualityTodo'
    <2>1. verdict' \in {"none", "error"} /\ (todo' = Tail(todo) \/ todo' = <<>>)
        BY <1>1 DEF Rest, Fail
    <2> QED BY <1>1, <2>1, QualityShorter DEF Unproved
<1>3. c.heldout => c.cut \in Cuts
    <2>1. c = todo[1] /\ 1 \in Steps
        BY <1>1, HeadIs
    <2> QED BY <1>1, <2>1 DEF QualityTodo
<1>4. seqs = [i \in DOMAIN seqs |-> seqs[i]]
    <2> DEFINE a == prompt_tokens(text)
    <2>1. seqs = <<a, <<7, 8>>>>
        BY DEF calibration_sequences
    <2> HIDE DEF a, seqs
    <2> QED BY <2>1
<1>5. held = [i \in DOMAIN held |-> held[i]]
    BY DEF heldout_sequences
<1>6. Fields(rep) /\ IsReport(rep)
    <2> HIDE DEF m, seqs
    <2>1. CASE ~ c.heldout
        <3>1. \A r \in evaluate_multi(m, seqs) : IsRow(r, seqs, m.calib)
            BY <1>4, RowsAre
        <3>2. rep = report(m, seqs, evaluate_multi(m, seqs), NoHeldout)
            BY <2>1
        <3> HIDE DEF rep
        <3> QED BY <3>1, <3>2, ReportIs
    <2>2. CASE c.heldout
        <3> DEFINE rows == evaluate_multi(m, held)
        <3>1. \A r \in rows : IsRow(r, held, m.calib)
            BY <1>5, RowsAre
        <3>2. block = heldout_block(held, rows, c.cut)
            OBVIOUS
        <3> HIDE DEF rows, block
        <3>3. block.rows = rows /\ block.source = c.cut
            BY <3>2, BlockOf
        <3>4. IsHeld(block, m.calib)
            BY <1>3, <2>2, <3>1, <3>2, <3>3 DEF IsHeld
        <3>5. rep = report(m, seqs, {}, block)
            BY <2>2 DEF block, rows
        <3>6. \A r \in {} : IsRow(r, seqs, m.calib)
            OBVIOUS
        <3> HIDE DEF rep
        <3> QED BY <3>4, <3>5, <3>6, ReportIs
    <2> QED BY <2>1, <2>2
<1> HIDE DEF rep
<1>7. CASE quality # Torn /\ quality' = File(merge_quality(rep, quality))
    <2>1. IsQuality(quality')
        BY <1>6, <1>7, MergeIs DEF QualityType
    <2> QED BY <1>2, <2>1 DEF QualityType
<1>8. CASE quality' = quality
    BY <1>2, <1>8 DEF QualityType
<1> QED BY <1>1, <1>7, <1>8
LEMMA QualityProvenance ==
    ASSUME Shape, QualityType, QualityTodo, DoProvenance
    PROVE  QualityType' /\ QualityTodo' /\ RowsAreScored'
<1>1. /\ todo # <<>> /\ quality' = quality /\ text' = text /\ todo' = <<>>
      /\ \/ verdict' = "error"
         \/ Whole(quality) /\ verdict' = IF provenance(quality.is, text) THEN "provenance ok" ELSE "provenance failed"
    BY DEF DoProvenance, Fail, files, Is
<1>2. QualityType' /\ QualityTodo'
    BY <1>1, QualityShorter DEF QualityType
<1>3. CASE verdict' = "error"
    BY <1>2, <1>3, QualityPartsNext DEF Unproved
<1>4. CASE Whole(quality) /\ verdict' = IF provenance(quality.is, text) THEN "provenance ok" ELSE "provenance failed"
    <2>1. IsReport(quality.is)
        BY <1>4, FileIs DEF QualityType, IsQuality
    <2>2. provenance(quality.is, text) <=> /\ quality.is.protocol.ids = calibration_sequences(text)
                                           /\ quality.is.calib = calibration_sequences(text)
        BY <2>1, ProvenanceIs
    <2>3. ProvenanceVerdict'
        BY <1>1, <1>4, <2>2 DEF ProvenanceVerdict
    <2> QED BY <1>2, <2>3, QualityPartsNext
<1> QED BY <1>1, <1>3, <1>4

LEMMA QualityStart ==
    ASSUME Shape, session = "quality", Start
    PROVE  QualityTodo'
<1>1. todo' \in QualityCommands
    <2>1. todo' \in Commands
        BY DEF Start
    <2> QED BY <2>1, CommandsAre
<1>2. ASSUME NEW x, todo' = <<x>>, x.op = "check" /\ x.heldout => x.cut \in Cuts
      PROVE  QualityTodo'
    <2>1. Len(todo') = 1 /\ todo'[1] = x
        BY <1>2, OneStep
    <2>2. Len(todo') = 1
        BY <2>1
    <2>3. \A i \in 1 .. Len(todo') : i = 1
        BY <2>2
    <2>4. \A i \in Steps' : todo'[i] = x
        BY <2>1, <2>3 DEF Steps
    <2> QED BY <1>2, <2>4 DEF QualityTodo
<1>3. CASE \E l, s : todo' = <<Quantize(l, s)>>
    <2>1. PICK l, s : todo' = <<Quantize(l, s)>>
        BY <1>3
    <2> DEFINE x == Quantize(l, s)
    <2>2. x.op = "quantize" /\ todo' = <<x>>
        BY <2>1 DEF Quantize
    <2> HIDE DEF x
    <2> QED BY <2>2, <1>2
<1>4. CASE todo' = <<Step("calibrate")>> \/ todo' = <<Step("provenance")>>
    <2>1. PICK x \in {Step("calibrate"), Step("provenance")} : todo' = <<x>>
        BY <1>4
    <2>2. x.op # "check"
        BY DEF Step
    <2> QED BY <2>1, <2>2, <1>2
<1>5. CASE \E s : todo' = <<[op |-> "check", smoothing |-> s, heldout |-> FALSE]>>
    <2>1. PICK s : todo' = <<[op |-> "check", smoothing |-> s, heldout |-> FALSE]>>
        BY <1>5
    <2> DEFINE x == [op |-> "check", smoothing |-> s, heldout |-> FALSE]
    <2>2. ~ x.heldout /\ todo' = <<x>>
        BY <2>1
    <2> HIDE DEF x
    <2> QED BY <2>2, <1>2
<1>6. CASE \E s : \E k \in Cuts : todo' = <<[op |-> "check", smoothing |-> s, heldout |-> TRUE, cut |-> k]>>
    <2>1. PICK s : \E k \in Cuts : todo' = <<[op |-> "check", smoothing |-> s, heldout |-> TRUE, cut |-> k]>>
        BY <1>6
    <2>2. PICK k \in Cuts : todo' = <<[op |-> "check", smoothing |-> s, heldout |-> TRUE, cut |-> k]>>
        BY <2>1
    <2> DEFINE x == [op |-> "check", smoothing |-> s, heldout |-> TRUE, cut |-> k]
    <2>3. x.cut = k /\ todo' = <<x>>
        BY <2>2
    <2> HIDE DEF x
    <2> QED BY <2>3, <1>2
<1> QED BY <1>1, <1>3, <1>4, <1>5, <1>6 DEF QualityCommands

\* A session other than quality has no report.
LEMMA QualityNext ==
    ASSUME Shape, QualityInv, [Next]_vars
    PROVE  QualityInv'
<1>0. session' = session
    BY ElsewhereIs DEF Next, Elsewhere, Start, Edit, Interrupt, DoGatesim, DoSyncTable, DoSynth, DoWritePage, DoRow,
                       Others, vars
<1>1. CASE session # "quality"
    <2>1. ~ DoCheck
        <3>1. DoCheck => todo # <<>> /\ Head(todo).op = "check"
            BY DEF DoCheck, Is
        <3> QED BY <1>1, <3>1, SessionOf
    <2>2. quality' = quality
        <3>1. CASE Interrupt
            <4>1. todo # <<>> /\ ~ Is("check")
                <5>1. todo # <<>>
                    BY <3>1 DEF Interrupt
                <5> QED BY <1>1, <5>1, SessionOf DEF Is
            <4>2. "quality" \notin Target
                BY <4>1 DEF Target
            <4> QED BY <3>1, <4>2 DEF Interrupt
        <3>2. CASE Start \/ Edit \/ EnsureQuant \/ EnsureImage \/ DoCompile \/ CheckHeader \/ DoReport \/ DoProvenance
            BY <3>2 DEF Start, Edit, EnsureQuant, EnsureImage, DoCompile, CheckHeader, DoReport, DoProvenance, files
        <3>3. CASE DoCalibrate \/ DoQuantize \/ DoGolden \/ DoWrite \/ DoRun \/ DoSave \/ DoReuse \/ DoBaseline
            BY <3>3 DEF DoCalibrate, DoQuantize, DoGolden, DoWrite, DoRun, DoSave, DoReuse, DoBaseline
        <3>4. CASE DoGatesim \/ DoSyncTable \/ DoSynth \/ DoWritePage \/ DoRow
            BY <3>4 DEF DoGatesim, DoSyncTable, DoSynth, DoWritePage, DoRow, Others, files
        <3>5. CASE UNCHANGED vars
            BY <3>5 DEF vars
        <3> QED BY <2>1, <3>1, <3>2, <3>3, <3>4, <3>5 DEF Next
    <2> QED BY <1>0, <1>1, <2>2 DEF QualityInv
<1>2. CASE session = "quality"
    <2>0. QualityType /\ QualityTodo /\ RowsAreScored
        BY <1>2 DEF QualityInv
    <2>1. ASSUME QualityType', QualityTodo', Unproved' PROVE QualityInv'
        BY <1>0, <1>2, <2>1, QualityPartsNext DEF QualityInv
    <2>2. ASSUME quality' = quality \/ quality' = Torn, QualityTodo', verdict' \in {"none", "error"}
          PROVE  QualityInv'
        <3>1. QualityType' /\ Unproved'
            BY <2>0, <2>2 DEF QualityType, Unproved
        <3> QED BY <2>1, <2>2, <3>1
    <2>3. CASE Start
        <3>1. quality' = quality /\ verdict' = "none"
            BY <2>3 DEF Start, files
        <3> QED BY <1>2, <2>2, <2>3, <3>1, QualityStart
    <2>4. CASE Edit
        <3>1. quality' = quality /\ verdict' = "none" /\ todo' = <<>>
            BY <2>4 DEF Edit, files
        <3> QED BY <2>2, <3>1, NothingLeft DEF QualityTodo
    <2>5. CASE Interrupt
        <3>1. quality' \in {quality, Torn} /\ verdict' = "none" /\ todo' = <<>>
            BY <2>5 DEF Interrupt
        <3> QED BY <2>2, <3>1, NothingLeft DEF QualityTodo
    <2>6. CASE DoCheck
        BY <1>2, <2>0, <2>1, <2>6, QualityCheck
    <2>7. CASE DoProvenance
        BY <1>0, <1>2, <2>0, <2>7, QualityProvenance DEF QualityInv
    <2>8. CASE DoCalibrate \/ DoQuantize
        <3>1. Plain
            BY <2>8 DEF Plain
        <3>2. todo # <<>> /\ verdict' \in {"none", "error"} /\ (todo' = Tail(todo) \/ todo' = <<>>)
            BY <3>1, PlainIs
        <3>3. quality' = quality
            BY <2>8 DEF DoCalibrate, DoQuantize
        <3> QED BY <2>0, <2>2, <3>2, <3>3, QualityShorter
    <2>9. CASE UNCHANGED vars
        <3>1. QualityTodo' <=> QualityTodo
            BY <2>9 DEF vars, QualityTodo, Steps
        <3>2. RowsAreScored' <=> RowsAreScored
            BY <2>9 DEF vars, RowsAreScored
        <3>3. QualityType' <=> QualityType
            BY <2>9 DEF vars, QualityType
        <3> QED BY <1>0, <1>2, <2>0, <3>1, <3>2, <3>3 DEF QualityInv
    <2>10. ~ (DoGolden \/ EnsureQuant \/ EnsureImage \/ DoCompile \/ DoWrite \/ DoRun \/ DoSave \/ CheckHeader
              \/ DoReuse \/ DoBaseline \/ DoReport \/ DoGatesim \/ DoSyncTable \/ DoSynth \/ DoWritePage \/ DoRow)
        <3> DEFINE Ops == {"golden", "ensure quant", "ensure image", "compile", "write", "run", "save", "check header",
                           "reuse", "baseline", "report", "gatesim", "sync table", "synth", "write page", "row"}
        <3>1. todo # <<>> => Head(todo).op \notin Ops
            <4> SUFFICES ASSUME todo # <<>> PROVE Head(todo).op \notin Ops
                OBVIOUS
            <4>1. OpsOf[session] = {"calibrate", "quantize", "provenance", "check"}
                BY <1>2 DEF OpsOf
            <4>2. Head(todo).op \in OpsOf[session]
                BY SessionOf
            <4> QED BY <4>1, <4>2
        <3>2. \A op \in Ops : ~ Is(op)
            BY <3>1 DEF Is
        <3> HIDE DEF Ops
        <3>3. /\ "golden" \in Ops /\ "ensure quant" \in Ops /\ "ensure image" \in Ops /\ "compile" \in Ops
              /\ "write" \in Ops /\ "run" \in Ops /\ "save" \in Ops /\ "check header" \in Ops
              /\ "reuse" \in Ops /\ "baseline" \in Ops /\ "report" \in Ops /\ "gatesim" \in Ops
              /\ "sync table" \in Ops /\ "synth" \in Ops /\ "write page" \in Ops /\ "row" \in Ops
            BY DEF Ops
        <3>4. ~ DoGolden /\ ~ EnsureQuant /\ ~ EnsureImage /\ ~ DoCompile /\ ~ DoWrite /\ ~ DoRun
            BY <3>2, <3>3 DEF DoGolden, EnsureQuant, EnsureImage, DoCompile, DoWrite, DoRun
        <3>5. ~ DoSave /\ ~ CheckHeader /\ ~ DoReuse /\ ~ DoBaseline /\ ~ DoReport
            BY <3>2, <3>3 DEF DoSave, CheckHeader, DoReuse, DoBaseline, DoReport
        <3>6. ~ DoGatesim /\ ~ DoSyncTable /\ ~ DoSynth /\ ~ DoWritePage /\ ~ DoRow
            BY <3>2, <3>3 DEF DoGatesim, DoSyncTable, DoSynth, DoWritePage, DoRow
        <3> QED BY <3>4, <3>5, <3>6
    <2> QED BY <2>3, <2>4, <2>5, <2>6, <2>7, <2>8, <2>9, <2>10 DEF Next
<1> QED BY <1>1, <1>2

LEMMA QualityInit ==
    ASSUME Init
    PROVE  QualityInv
<1>1. quality = Absent /\ todo = <<>>
    BY DEF Init
<1>2. QualityType /\ Unproved
    BY <1>1 DEF QualityType, Init, Unproved
<1>3. Len(todo) = 0
    BY <1>1, NoSteps
<1>4. QualityTodo
    BY <1>3 DEF QualityTodo, Steps
<1> QED BY <1>1, <1>2, <1>4, QualityParts DEF QualityInv
-----------------------------------------------------------------------------
(* What is published is measured *)

\* In any other session than its own a property has no verdict to hold.
LEMMA PublishedHolds == PublishInv => PublishedIsMeasured
<1> SUFFICES ASSUME PublishInv PROVE PublishedIsMeasured
    OBVIOUS
<1>0. Shape /\ FiguresType /\ FiguresInv /\ QualityInv
    BY DEF PublishInv
<1>1. RowsAreScored
    <2>1. CASE session = "quality"
        BY <1>0, <2>1 DEF QualityInv
    <2>2. CASE session # "quality"
        <3>1. ~ Whole(quality)
            BY <1>0, <2>2, FileIs DEF QualityInv
        <3> QED BY <3>1 DEF RowsAreScored
    <2> QED BY <2>1, <2>2
<1>2. TableIsMeasured /\ PagesAreMeasured
    <2>1. CASE session = "figures"
        BY <1>0, <2>1 DEF FiguresInv
    <2>2. CASE session # "figures"
        <3>1. verdict \notin {"gatesim ok", "gatesim failed", "synth ok", "synth failed"}
            <4> DEFINE V == VerdictsOf[session]
            <4>1. V \subseteq {"demo ok", "demo failed", "provenance ok", "provenance failed"}
                <5>1. CASE session = "demo"
                    BY <5>1 DEF VerdictsOf
                <5>2. CASE session = "toolcall"
                    BY <5>2 DEF VerdictsOf
                <5>3. CASE session = "quality"
                    BY <5>3 DEF VerdictsOf
                <5> QED BY <1>0, <2>2, <5>1, <5>2, <5>3 DEF Shape
            <4>2. verdict \in {"none", "error"} \cup V
                BY <1>0 DEF Shape
            <4> HIDE DEF V
            <4> QED BY <4>1, <4>2
        <3>2. TableVerdict /\ PagesVerdict
            BY <3>1 DEF TableVerdict, PagesVerdict
        <3> QED BY <1>0, <3>2, TableParts, PagesParts
    <2> QED BY <2>1, <2>2
<1> QED BY <1>1, <1>2 DEF PublishedIsMeasured

LEMMA PublishInit == Init => PublishInv
<1> SUFFICES ASSUME Init PROVE PublishInv
    OBVIOUS
<1>1. todo = <<>> /\ verdict = "none" /\ session \in {"demo", "toolcall", "quality", "figures"}
    BY DEF Init
<1>2. IsSeq(todo) /\ Len(todo) = 0
    BY <1>1, NoSteps
<1>3. Len(todo) = 0
    BY <1>2
<1>4. Steps = {}
    BY <1>3 DEF Steps
<1>5. Shape
    BY <1>1, <1>2, <1>4 DEF Shape
<1> QED BY <1>5, FiguresInit, QualityInit DEF PublishInv

LEMMA PublishNext == PublishInv /\ [Next]_vars => PublishInv'
<1> SUFFICES ASSUME PublishInv, [Next]_vars PROVE PublishInv'
    OBVIOUS
<1>1. Shape /\ FiguresType /\ FiguresInv /\ QualityInv
    BY DEF PublishInv
<1>2. Shape'
    BY <1>1, ShapeNext
<1>3. FiguresType' /\ FiguresInv'
    BY <1>1, FiguresNext
<1>4. QualityInv'
    BY <1>1, QualityNext
<1> QED BY <1>2, <1>3, <1>4 DEF PublishInv

\* The steps a command has left are its session's, a step that writes a figure
\* writes what this design and this build give, and the report on disk is one of
\* the ids, the calibration and the builds it names: cli, gatesim, synth_report.
THEOREM PublishInvariant == Spec => []PublishInv
BY PublishInit, PublishNext, PTL DEF Spec

\* What is published is what a clone would measure, whatever was edited, rebuilt,
\* scored again or stopped before (quality.py, gatesim.py, synth_report.py).
THEOREM Published == Spec => []PublishedIsMeasured
<1>1. PublishInv => PublishedIsMeasured
    BY PublishedHolds
<1> QED BY <1>1, PublishInvariant, PTL
=============================================================================
