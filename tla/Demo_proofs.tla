---------------------------- MODULE Demo_proofs ----------------------------
(***************************************************************************)
(* Proofs about the demos of Tools: what an OK of demo-report is of, over   *)
(* any files earlier commands left, any number of commands, edits and stops,*)
(* any widths, any lengths, and any ids the models continue a prompt with,  *)
(* those of two models or of two prompts alike or not.                      *)
(***************************************************************************)
EXTENDS Tools_proofs

-----------------------------------------------------------------------------
(* Invariants *)

\* What a file of the two demos may hold.
Texts == {0, 1}
Turns == {prompt_tokens(t) : t \in Texts}
Prompts == Turns \cup {<<EosId>>, <<0>>}
Compiles == {Build(m, wb, p) : m \in Models, wb \in Widths, p \in {NoPrompt} \cup Turns}
Images == {[m |-> m, wb |-> wb] : m \in Models, wb \in Widths}

Lost(f) == f = Absent \/ f = Torn
IsRecord(e) == \E m \in Models, t \in Texts : \E n \in Nat \ {0} : e = expected_tokens(m, t, n)
IsLayout(l) ==
    \E b \in Compiles :
        \/ l = Layout(b, Absent)
        \/ \E m \in Models, t \in Texts : \E n \in Nat \ {0} : l = Layout(b, File(expected_tokens(m, t, n)))

\* What a record says of the image that ran and of how the run ended.
IsRun(r) ==
    /\ r.image_bytes = <<r.ran.wb, r.ran.m.layers>> /\ r.max_new \in Nat /\ r.outcome \in Outcomes
    /\ r.status = "ok" => r.outcome # "stopped"
    /\ r.events = 0 => r.outcome # "event"

DemoCalib == Lost(calib) \/ \E t \in Texts : calib = File(write_calib(t))
DemoQuant ==
    /\ quants = [s \in BOOLEAN |-> quants[s]]
    /\ Lost(Quant) \/ \E m \in Models : Quant = File(m)
DemoExpected == Lost(expected) \/ (expected = File(expected.is) /\ IsRecord(expected.is))
IsDir(d) ==
    /\ d = [f \in FILES |-> d[f]]
    /\ Lost(d["image"]) \/ \E i \in Images : d["image"] = File(i)
    /\ Lost(d["prompt"]) \/ \E p \in Turns : d["prompt"] = File(p)
    /\ Lost(d["layout"]) \/ (d["layout"] = File(d["layout"].is) /\ IsLayout(d["layout"].is))
Kinds == {"run", "prefix", "baseline"}
IsPerf(p) ==
    /\ p = [r \in Kinds |-> p[r]]
    /\ Lost(p["run"]) \/ (p["run"] = File(p["run"].is) /\ IsRun(p["run"].is))
DemoType == text \in Texts /\ DemoCalib /\ DemoQuant /\ DemoExpected /\ IsDir(dir) /\ IsPerf(perf)

\* What a step names, and which steps may have so many behind them: a script ends
\* with its runs and the report, a command by hand runs nothing.
Fits(s) ==
    /\ s.op = "quantize" => s.layers \in {Full, Few} /\ s.smoothing = TRUE
    /\ s.op \in {"compile", "ensure image"} => s.wb \in Widths
    /\ s.op \in {"golden", "run", "reuse", "baseline"} => s.new \in Nat \ {0}
    /\ s.op = "write" => s.file \in FILES /\ s.build \in Compiles /\ (s.file = "prompt" => s.build.prompt # NoPrompt)
Building == {"calibrate", "quantize", "golden", "ensure quant", "ensure image", "compile", "write"}
DemoOps(back) ==
    CASE back = 0 -> {"report"} [] back = 1 -> {"run"} [] OTHER -> Building
ToolcallOps(back) ==
    CASE back = 0 -> {"report"} [] back = 1 -> {"baseline"} [] back = 2 -> {"reuse"}
      [] back = 3 -> {"check header"} [] back = 4 -> {"save"} [] OTHER -> Building
OpsBefore(m, s, back) ==
    IF m # OwnRun THEN Building \cup {"report"}
    ELSE IF s = "demo" THEN DemoOps(back) ELSE ToolcallOps(back)
DemoTodo == \A i \in Steps : Fits(todo[i]) /\ todo[i].op \in OpsBefore(measured, session, Len(todo) - i)

\* What the steps of a script have left when so many are still to come: the cache
\* of the first turn, the restored run, the run without reuse, all of this image.
Cut == Len(prefix.is.ids)
Ran(r, restored) == \E n \in Nat \ {0} : \E record \in Runs(restored, n) : perf[r] = File(record)
SavedTurn ==
    /\ Starts(dir) /\ Whole(prefix) /\ Cut \in 1 .. Len(Prompt)
    /\ perf["prefix"] = File(Perf(dir, SubSeq(Prompt, 1, Cut), 0, Cut, 0, "right", <<>>))
DemoDone ==
    measured = OwnRun /\ todo # <<>> =>
        /\ session = "demo" /\ Len(todo) = 1 /\ Starts(dir) => Ran("run", 0)
        /\ session = "toolcall" =>
              /\ Len(todo) <= 4 => SavedTurn
              /\ Len(todo) <= 3 => Cut < Len(Prompt)
              /\ Len(todo) <= 2 => Ran("run", Cut)
              /\ Len(todo) = 1 => Ran("baseline", 0)

\* A demo report that says OK, and what it says OK of.
Reported ==
    /\ _demo_report(dir, expected, perf["run"])
    /\ session = "toolcall" => _demo_prefix(perf["run"], perf["prefix"], perf["baseline"], prefix)
Exact ==
    /\ Whole(dir["layout"]) /\ Whole(perf["run"])
    /\ OneBuild /\ RunOfIt /\ GoldenOfIt
    /\ session = "toolcall" => ReuseOfIt

DemoInv ==
    session \in {"demo", "toolcall"} => DemoType /\ DemoTodo /\ DemoDone /\ DemoReportsItsRun /\ DemoOkIsGolden

-----------------------------------------------------------------------------
(* Models, prompts and the ids of a run *)

LEMMA ModelIs ==
    ASSUME NEW m \in Models
    PROVE  \E t \in Texts, l \in {Full, Few} : m = [layers |-> l, smoothing |-> TRUE, calib |-> write_calib(t)]
BY DEF Models, Texts, build_quant_model

\* A model is known by its layers and its calibration.
LEMMA SameModel ==
    ASSUME NEW m \in Models, NEW n \in Models, m.layers = n.layers, m.calib = n.calib
    PROVE  m = n
<1>1. PICK t \in Texts, l \in {Full, Few} : m = [layers |-> l, smoothing |-> TRUE, calib |-> write_calib(t)]
    BY ModelIs
<1>2. PICK u \in Texts, k \in {Full, Few} : n = [layers |-> k, smoothing |-> TRUE, calib |-> write_calib(u)]
    BY ModelIs
<1> QED BY <1>1, <1>2

LEMMA TurnIs ==
    ASSUME NEW p \in Turns
    PROVE  /\ p \in Seq(Nat) /\ IsSeq(p) /\ Len(p) = 4 /\ p[1] \in Texts /\ p[2] = EosId /\ p[3] = 2 /\ p[4] = 3
           /\ p = prompt_tokens(p[1]) /\ p # NoPrompt
<1>1. PICK t \in Texts : p = prompt_tokens(t)
    BY DEF Turns
<1>2. p = <<t, 9, 2, 3>> /\ t \in {0, 1}
    BY <1>1 DEF prompt_tokens, EosId, Texts
<1>3. p \in Seq(Nat) /\ Len(p) = 4 /\ p[1] = t /\ p[2] = 9 /\ p[3] = 2 /\ p[4] = 3
    BY <1>2
<1>4. IsSeq(p)
    BY <1>3, SeqIn
<1>5. p # <<>>
    <2>1. Len(p) # 0
        BY <1>3
    <2> QED BY <1>4, <2>1, SeqLen
<1> QED BY <1>1, <1>3, <1>4, <1>5 DEF EosId, NoPrompt

LEMMA PromptIs ==
    ASSUME NEW p \in Prompts
    PROVE  /\ p \in Seq(Nat) /\ IsSeq(p) /\ Len(p) \in {1, 4}
           /\ p \in Turns <=> Len(p) = 4
           /\ p \notin Turns => p = <<EosId>> \/ p = <<0>>
<1>1. CASE p \in Turns
    BY <1>1, TurnIs
<1>2. ASSUME NEW x \in Nat, p = <<x>>
      PROVE  p \in Seq(Nat) /\ IsSeq(p) /\ Len(p) = 1
    <2>1. p \in Seq(Nat) /\ Len(p) = 1
        BY <1>2
    <2> QED BY <2>1, SeqIn
<1>3. CASE p \in {<<EosId>>, <<0>>}
    <2>1. p \in Seq(Nat) /\ IsSeq(p) /\ Len(p) = 1
        BY <1>2, <1>3 DEF EosId
    <2>2. p \notin Turns
        BY <2>1, TurnIs
    <2> QED BY <1>3, <2>1, <2>2
<1> QED BY <1>1, <1>3 DEF Prompts

\* The first so many of a sequence.
LEMMA FirstOf ==
    ASSUME NEW s, IsSeq(s), NEW n \in 0 .. Len(s)
    PROVE  /\ IsSeq(SubSeq(s, 1, n)) /\ Len(SubSeq(s, 1, n)) = n
           /\ \A i \in 1 .. n : SubSeq(s, 1, n)[i] = s[i]
<1> DEFINE S == {s[i] : i \in DOMAIN s}
<1>1. s \in Seq(S)
    BY DEF IsSeq
<1> HIDE DEF S
<1>2. Len(s) \in Nat
    BY SeqLen
<1>3. SubSeq(s, 1, n) \in Seq(S) /\ Len(SubSeq(s, 1, n)) = n /\ \A i \in 1 .. n : SubSeq(s, 1, n)[i] = s[i]
    BY <1>1, <1>2, SubSeqProperties
<1> QED BY <1>3, SeqIn

\* Sequences of one length with the same elements are one.
LEMMA SameSeq ==
    ASSUME NEW s, NEW t, IsSeq(s), IsSeq(t), Len(s) = Len(t), \A i \in 1 .. Len(s) : s[i] = t[i]
    PROVE  s = t
<1> DEFINE S == {s[i] : i \in DOMAIN s}
           T == {t[i] : i \in DOMAIN t}
<1>1. s \in Seq(S) /\ t \in Seq(T)
    BY DEF IsSeq
<1> HIDE DEF S, T
<1>2. s \in Seq(S \cup T) /\ t \in Seq(S \cup T)
    BY <1>1, SeqMonotonic
<1> QED BY <1>2, SeqEqual

Least(a, b) == IF a < b THEN a ELSE b
LEMMA FirstIs ==
    ASSUME NEW s, IsSeq(s), NEW n \in Nat
    PROVE  /\ First(s, n) = SubSeq(s, 1, Least(n, Len(s))) /\ Least(n, Len(s)) \in 0 .. Len(s)
           /\ IsSeq(First(s, n)) /\ Len(First(s, n)) = Least(n, Len(s))
           /\ \A i \in 1 .. Least(n, Len(s)) : First(s, n)[i] = s[i]
<1>1. Len(s) \in Nat
    BY SeqLen
<1>2. Least(n, Len(s)) \in 0 .. Len(s)
    BY <1>1 DEF Least
<1>3. First(s, n) = SubSeq(s, 1, Least(n, Len(s)))
    BY DEF First, Least
<1> QED BY <1>2, <1>3, FirstOf

\* The first of the first are the first.
LEMMA FirstFirst ==
    ASSUME NEW s, IsSeq(s), NEW n \in Nat, NEW k \in Nat
    PROVE  First(First(s, n), k) = First(s, Len(First(First(s, n), k)))
<1> DEFINE f == First(s, n)
           g == First(f, k)
           h == First(s, Len(g))
<1>1. Len(s) \in Nat
    BY SeqLen
<1>2. IsSeq(f) /\ Len(f) = Least(n, Len(s)) /\ \A i \in 1 .. Len(f) : f[i] = s[i]
    BY FirstIs
<1> HIDE DEF f
<1>3. IsSeq(g) /\ Len(g) = Least(k, Len(f)) /\ \A i \in 1 .. Len(g) : g[i] = f[i]
    BY <1>2, FirstIs
<1>4. Len(f) \in 0 .. Len(s) /\ Len(g) \in 0 .. Len(f)
    BY <1>1, <1>2, <1>3 DEF Least
<1> HIDE DEF g
<1>5. IsSeq(h) /\ Len(h) = Least(Len(g), Len(s)) /\ \A i \in 1 .. Len(h) : h[i] = s[i]
    BY <1>4, FirstIs
<1>6. Len(h) = Len(g)
    BY <1>1, <1>4, <1>5 DEF Least
<1> HIDE DEF h
<1>7. \A i \in 1 .. Len(g) : g[i] = h[i]
    BY <1>1, <1>2, <1>3, <1>4, <1>5, <1>6
<1>8. g = h
    BY <1>3, <1>5, <1>6, <1>7, SameSeq
<1> QED BY <1>8 DEF f, g, h

\* A continuation ends where its end of sequence is.
LEMMA GreedyIs ==
    ASSUME NEW m \in Models, NEW p \in Prompts
    PROVE  /\ IsSeq(Greedy(m, p)) /\ Len(Greedy(m, p)) \in Nat \ {0}
           /\ \A i \in 1 .. Len(Greedy(m, p)) : Greedy(m, p)[i] = EosId <=> i = Len(Greedy(m, p))
<1>1. p \in {prompt_tokens(0), prompt_tokens(1), <<EosId>>, <<0>>}
    BY DEF Prompts, Turns, Texts
<1>2. /\ Greedy(m, p) \in Seq(Vocab) /\ Greedy(m, p) # <<>>
      /\ \A i \in 1 .. Len(Greedy(m, p)) : Greedy(m, p)[i] = EosId <=> i = Len(Greedy(m, p))
    BY <1>1, GreedyAssumption
<1>3. IsSeq(Greedy(m, p))
    BY <1>2, SeqIn
<1>4. Len(Greedy(m, p)) \in Nat /\ Len(Greedy(m, p)) # 0
    BY <1>2, <1>3, SeqLen
<1> QED BY <1>2, <1>3, <1>4

\* Ids that end where a decode may end, and are the first of a continuation, are
\* all a decode of that many gives.
LEMMA EndsIs ==
    ASSUME NEW s, IsSeq(s), Len(s) \in Nat, \A i \in 1 .. Len(s) : s[i] = EosId <=> i = Len(s),
           NEW n \in Nat, NEW l \in Nat, NEW ids, ids = First(First(s, l), n), ids # <<>>,
           Len(ids) = n \/ ids[Len(ids)] = EosId
    PROVE  ids = First(s, n)
<1>1. ids = First(s, Len(ids))
    BY FirstFirst
<1>2. CASE Len(ids) = n
    BY <1>1, <1>2
<1>3. CASE ids[Len(ids)] = EosId
    <2>1. IsSeq(First(s, l)) /\ Len(First(s, l)) = Least(l, Len(s))
        BY FirstIs
    <2>2. IsSeq(ids) /\ Len(ids) = Least(n, Len(First(s, l)))
        BY <2>1, FirstIs
    <2>3. Len(First(s, l)) \in 0 .. Len(s)
        BY <2>1 DEF Least
    <2>4. Len(ids) \in 0 .. Len(s) /\ Len(ids) <= n
        BY <2>2, <2>3 DEF Least
    <2>5. Len(ids) # 0
        BY <2>2, SeqLen
    <2>6. ids[Len(ids)] = s[Len(ids)]
        <3>1. Len(ids) \in Nat /\ Len(ids) \in 1 .. Least(Len(ids), Len(s))
            BY <2>4, <2>5 DEF Least
        <3>2. First(s, Len(ids))[Len(ids)] = s[Len(ids)]
            BY <3>1, FirstIs
        <3> QED BY <1>1, <3>2
    <2>7. Len(ids) = Len(s)
        BY <1>3, <2>4, <2>5, <2>6
    <2>8. Least(n, Len(s)) = Len(s) /\ Least(Len(s), Len(s)) = Len(s)
        BY <2>4, <2>7 DEF Least
    <2>9. First(s, n) = First(s, Len(s))
        <3>1. First(s, n) = SubSeq(s, 1, Least(n, Len(s)))
            BY FirstIs
        <3>2. First(s, Len(s)) = SubSeq(s, 1, Least(Len(s), Len(s)))
            BY FirstIs
        <3> QED BY <2>8, <3>1, <3>2
    <2>10. First(s, Len(ids)) = First(s, n)
        BY <2>7, <2>9
    <2> QED BY <1>1, <2>10
<1> QED BY <1>2, <1>3

\* A run that ended well and gave the ids of its own model was a right one.
LEMMA RightIs ==
    ASSUME NEW m \in Models, NEW p \in Prompts, NEW n \in Nat \ {0}, NEW l \in Nat, NEW ids,
           ids \in Emitted(generate(m, p, n), n, "wrong id"), ids = First(generate(m, p, l), n)
    PROVE  ids = <<>>
<1>1. /\ IsSeq(Greedy(m, p)) /\ Len(Greedy(m, p)) \in Nat
      /\ \A i \in 1 .. Len(Greedy(m, p)) : Greedy(m, p)[i] = EosId <=> i = Len(Greedy(m, p))
    BY GreedyIs
<1>2. ids \in Decodes(n) /\ ids # First(Greedy(m, p), n)
    BY DEF Emitted, generate
<1>3. ids = First(First(Greedy(m, p), l), n)
    BY DEF generate
<1>4. Len(ids) = n \/ ids[Len(ids)] = EosId
    BY <1>2 DEF Decodes
<1> QED BY <1>1, <1>2, <1>3, <1>4, EndsIs

-----------------------------------------------------------------------------
(* The records of a run *)

LEMMA ImageIs ==
    ASSUME NEW i \in Images
    PROVE  i.m \in Models /\ i.wb \in Widths /\ i = [m |-> i.m, wb |-> i.wb]
BY DEF Images

\* What a record says that a run of the whole prompt leaves.
RunFields(x, restored, n) ==
    LET image == dir["image"].is
        rest == Len(Prompt) - 1 - restored
    IN /\ x.ran = image /\ x.prompt = Prompt /\ x.restored = restored /\ x.prefilled = rest
       /\ x.image_bytes = <<image.wb, image.m.layers>> /\ x.descriptors = image.m.layers
       /\ x.cycles = Cycles(image, restored, restored + rest) /\ x.max_new = n /\ x.outcome \in Outcomes
       /\ x.ids \in Emitted(generate(image.m, Prompt, n), n, x.outcome)
       /\ x.status = (IF x.outcome = "stopped" THEN "error" ELSE "ok")
       /\ x.events = (IF x.outcome = "event" THEN 1 ELSE 0)
LEMMA PerfFields ==
    ASSUME NEW d, NEW prompt, NEW restored, NEW prefilled, NEW new, NEW o, NEW ids
    PROVE  LET r == Perf(d, prompt, restored, prefilled, new, o, ids)
               i == d["image"].is
           IN /\ r.ran = i /\ r.outcome = o /\ r.image_bytes = <<i.wb, i.m.layers>> /\ r.prompt = prompt
              /\ r.restored = restored /\ r.prefilled = prefilled /\ r.descriptors = i.m.layers
              /\ r.cycles = Cycles(i, restored, restored + prefilled) /\ r.max_new = new /\ r.ids = ids
              /\ r.status = (IF o = "stopped" THEN "error" ELSE "ok")
              /\ r.events = (IF o = "event" THEN 1 ELSE 0)
BY DEF Perf

LEMMA RunIs ==
    ASSUME NEW restored, NEW n, NEW x \in Runs(restored, n)
    PROVE  RunFields(x, restored, n) /\ (n \in Nat => IsRun(x))
<1> DEFINE image == dir["image"].is
           rest == Len(Prompt) - 1 - restored
           p == Prompt
<1>1. PICK o \in Outcomes : \E ids \in Emitted(generate(image.m, p, n), n, o) : x = Perf(dir, p, restored, rest, n, o, ids)
    BY DEF Runs
<1>2. PICK ids \in Emitted(generate(image.m, p, n), n, o) : x = Perf(dir, p, restored, rest, n, o, ids)
    BY <1>1
<1>3. /\ x.ran = image /\ x.outcome = o /\ x.image_bytes = <<image.wb, image.m.layers>> /\ x.prompt = p
      /\ x.restored = restored /\ x.prefilled = rest /\ x.descriptors = image.m.layers
      /\ x.cycles = Cycles(image, restored, restored + rest) /\ x.max_new = n /\ x.ids = ids
      /\ x.status = (IF o = "stopped" THEN "error" ELSE "ok")
      /\ x.events = (IF o = "event" THEN 1 ELSE 0)
    BY <1>2, PerfFields
<1> HIDE DEF image, rest, p
<1>4. x.ids \in Emitted(generate(image.m, p, n), n, x.outcome)
    BY <1>2, <1>3
<1>5. RunFields(x, restored, n)
    BY <1>3, <1>4 DEF RunFields, image, rest, p
<1>6. n \in Nat => IsRun(x)
    BY <1>3 DEF IsRun
<1> QED BY <1>5, <1>6

-----------------------------------------------------------------------------
(* What the report compares *)

LEMMA CompileIs ==
    ASSUME NEW b \in Compiles
    PROVE  b.m \in Models /\ b.wb \in Widths /\ (b.prompt = NoPrompt \/ b.prompt \in Turns)
BY DEF Compiles, Build

\* A layout is of one compile, and its record of the model that was compiled.
Hashed == {"image", "decode", "prefill", "tokens_bin", "dump_plan"}
LayoutOf(l, b) ==
    /\ l.wb = b.wb /\ l.model = b.m /\ l.prompt = b.prompt /\ l.descriptors = b.m.layers
    /\ l.size = <<b.wb, b.m.layers>>
    /\ DOMAIN l.sha = Hashed /\ \A f \in Hashed : l.sha[f] = Content(f, b)
    /\ l.expected # NoEntry =>
          /\ IsRecord(l.expected.sha) /\ l.expected.prompts = l.expected.sha.prompts
          /\ l.expected.sha.layers = b.m.layers /\ l.expected.sha.calib = b.m.calib
LEMMA EntryIs ==
    ASSUME NEW m, NEW f, f = Absent \/ (\E e : f = File(e) /\ IsRecord(e)),
           NEW x, x = _expected_tokens_entry(f, m, 16), x # NoEntry
    PROVE  IsRecord(x.sha) /\ x.prompts = x.sha.prompts /\ x.sha.layers = m.layers /\ x.sha.calib = m.calib
<1>1. f # Absent
    BY DEF _expected_tokens_entry, Absent
<1>2. PICK e : f = File(e) /\ IsRecord(e)
    BY <1>1
<1>3. f.kind = "file" /\ f.is = e
    BY <1>2 DEF File
<1>4. x = [sha |-> e, prompts |-> e.prompts] /\ e.layers = m.layers /\ e.calib = m.calib
    BY <1>3 DEF _expected_tokens_entry
<1>5. x.sha = e /\ x.prompts = e.prompts
    BY <1>4
<1> QED BY <1>2, <1>4, <1>5
LEMMA LayoutIs ==
    ASSUME NEW l, IsLayout(l)
    PROVE  \E b \in Compiles : LayoutOf(l, b)
<1>1. PICK b \in Compiles : \E f : (f = Absent \/ \E e : f = File(e) /\ IsRecord(e)) /\ l = Layout(b, f)
    <2>1. PICK b \in Compiles :
             \/ l = Layout(b, Absent)
             \/ \E m \in Models, t \in Texts : \E n \in Nat \ {0} : l = Layout(b, File(expected_tokens(m, t, n)))
        BY DEF IsLayout
    <2>2. CASE l = Layout(b, Absent)
        BY <2>2
    <2>3. ASSUME NEW m \in Models, NEW t \in Texts, NEW n \in Nat \ {0}, l = Layout(b, File(expected_tokens(m, t, n)))
          PROVE  \E f : (f = Absent \/ \E e : f = File(e) /\ IsRecord(e)) /\ l = Layout(b, f)
        <3> DEFINE e == expected_tokens(m, t, n)
        <3>1. IsRecord(e) /\ l = Layout(b, File(e))
            BY <2>3 DEF IsRecord
        <3> HIDE DEF e
        <3> QED BY <3>1
    <2> QED BY <2>1, <2>2, <2>3
<1>2. PICK f : (f = Absent \/ \E e : f = File(e) /\ IsRecord(e)) /\ l = Layout(b, f)
    BY <1>1
<1> DEFINE x == _expected_tokens_entry(f, b.m, 16)
           sha == [g \in Hashed |-> Content(g, b)]
<1>3. l = [wb |-> b.wb, model |-> b.m, calib |-> b.m.calib, size |-> <<b.wb, b.m.layers>>,
           descriptors |-> b.m.layers, sha |-> sha, prompt |-> b.prompt, expected |-> x]
    BY <1>2 DEF Layout, Hashed
<1>4. x # NoEntry => IsRecord(x.sha) /\ x.prompts = x.sha.prompts /\ x.sha.layers = b.m.layers /\ x.sha.calib = b.m.calib
    BY <1>2, EntryIs
<1>5. DOMAIN sha = Hashed /\ \A g \in Hashed : sha[g] = Content(g, b)
    OBVIOUS
<1> HIDE DEF x, sha
<1>6. /\ l.wb = b.wb /\ l.model = b.m /\ l.size = <<b.wb, b.m.layers>> /\ l.descriptors = b.m.layers
      /\ l.sha = sha /\ l.prompt = b.prompt /\ l.expected = x
    BY <1>3
<1> QED BY <1>4, <1>5, <1>6 DEF LayoutOf

\* A record of a model holds continuations of that model.
LEMMA RecordIs ==
    ASSUME NEW e, IsRecord(e), NEW m \in Models, e.layers = m.layers, e.calib = m.calib
    PROVE  \E t \in Texts : \E n \in Nat \ {0} : e.prompts[Source] = generate(m, prompt_tokens(t), n)
<1>1. PICK k \in Models, t \in Texts : \E n \in Nat \ {0} : e = expected_tokens(k, t, n)
    BY DEF IsRecord
<1>2. PICK n \in Nat \ {0} : e = expected_tokens(k, t, n)
    BY <1>1
<1> DEFINE g == generate(k, prompt_tokens(t), n)
           ps == [s \in {Source} |-> g]
<1>3. e = [layers |-> k.layers, calib |-> k.calib, a_bits |-> 16, prompts |-> ps]
    BY <1>2 DEF expected_tokens
<1>4. ps[Source] = g
    OBVIOUS
<1>5. g = generate(k, prompt_tokens(t), n)
    OBVIOUS
<1> HIDE DEF g, ps
<1>6. e.layers = k.layers /\ e.calib = k.calib /\ e.prompts = ps
    BY <1>3
<1>7. k = m
    BY <1>6, SameModel
<1> QED BY <1>4, <1>5, <1>6, <1>7

\* The digests agree exactly when the files are those of the compile.
FilesOf(l, b, run) ==
    /\ \A f \in Hashed : Whole(dir[f]) /\ dir[f].is = Content(f, b)
    /\ b.prompt # NoPrompt => Whole(dir["prompt"]) /\ dir["prompt"].is = b.prompt
    /\ l.expected # NoEntry => Whole(expected) /\ expected.is = l.expected.sha
    /\ run.image_bytes = <<dir["image"].is.wb, dir["image"].is.m.layers>>
LEMMA FilesAgree ==
    ASSUME NEW l, NEW b, LayoutOf(l, b), NEW run
    PROVE  ~ _demo_files(dir, l, expected, run) <=> FilesOf(l, b, run)
<1> DEFINE bad(f) == ~ Whole(_layout_file(dir, expected, f)) \/ _layout_file(dir, expected, f).is # _layout_sha(l, f)
<1>1. _demo_files(dir, l, expected, run) <=>
         \/ \E f \in _layout_hashed(l) : bad(f)
         \/ run.image_bytes # <<dir["image"].is.wb, dir["image"].is.m.layers>>
    BY DEF _demo_files, _demo_digest
<1>2. \A f \in Hashed : bad(f) <=> ~ (Whole(dir[f]) /\ dir[f].is = Content(f, b))
    <2> SUFFICES ASSUME NEW f \in Hashed PROVE bad(f) <=> ~ (Whole(dir[f]) /\ dir[f].is = Content(f, b))
        OBVIOUS
    <2>1. f # "prompt" /\ f # "expected"
        BY DEF Hashed
    <2>2. _layout_file(dir, expected, f) = dir[f]
        BY <2>1 DEF _layout_file
    <2>3. _layout_sha(l, f) = Content(f, b)
        BY <2>1 DEF _layout_sha, LayoutOf
    <2> QED BY <2>2, <2>3
<1>3. bad("prompt") <=> ~ (Whole(dir["prompt"]) /\ dir["prompt"].is = b.prompt)
    BY DEF _layout_file, _layout_sha, LayoutOf
<1>4. bad("expected") <=> ~ (Whole(expected) /\ expected.is = l.expected.sha)
    BY DEF _layout_file, _layout_sha
<1>5. \A f : f \in _layout_hashed(l) <=> \/ f \in Hashed \/ (f = "prompt" /\ b.prompt # NoPrompt)
                                         \/ (f = "expected" /\ l.expected # NoEntry)
    BY DEF _layout_hashed, LayoutOf
<1> HIDE DEF bad
<1> QED BY <1>1, <1>2, <1>3, <1>4, <1>5 DEF FilesOf

LEMMA BuildOf ==
    ASSUME NEW l, NEW b, LayoutOf(l, b), l = dir["layout"].is
    PROVE  OneBuild <=> /\ b.prompt # NoPrompt
                        /\ \A f \in Hashed : Whole(dir[f]) /\ dir[f].is = Content(f, b)
                        /\ Whole(dir["prompt"]) /\ dir["prompt"].is = b.prompt
<1> DEFINE c == Build(l.model, l.wb, l.prompt)
<1>1. c.m = b.m /\ c.wb = b.wb /\ c.prompt = b.prompt
    BY DEF Build, LayoutOf
<1> HIDE DEF c
<1>2. \A f \in Hashed : Content(f, c) = Content(f, b)
    BY <1>1 DEF Content, Hashed
<1>3. Content("prompt", c) = b.prompt
    BY <1>1 DEF Content
<1>4. FILES \ {"layout"} = Hashed \cup {"prompt"}
    BY DEF FILES, Hashed
<1>5. OneBuild <=> /\ b.prompt # NoPrompt
                   /\ \A f \in FILES \ {"layout"} : Whole(dir[f]) /\ dir[f].is = Content(f, c)
    BY DEF OneBuild, LayoutOf, c
<1> QED BY <1>2, <1>3, <1>4, <1>5

\* What the report compares, with the layout and the run named.
LEMMA ReportSays ==
    ASSUME NEW l, l = dir["layout"].is, NEW r, r = perf["run"].is
    PROVE  _demo_report(dir, expected, perf["run"]) <=>
              /\ Whole(dir["layout"]) /\ Whole(perf["run"]) /\ Whole(dir["image"])
              /\ ~ _demo_files(dir, l, expected, r)
              /\ r.restored + r.prefilled + 1 = Len(r.prompt)
              /\ l.prompt # NoPrompt => r.prompt = l.prompt
              /\ LET source == IF l.prompt # NoPrompt /\ r.prompt = l.prompt THEN Source ELSE "none"
                     rec == recorded_continuation(l, source, expected)
                 IN rec # NoRecord /\ rec # Raised /\ r.ids # <<>> /\ r.ids = First(rec.ids, r.max_new)
              /\ r.descriptors = l.descriptors /\ r.status = "ok" /\ r.events = 0
<1> DEFINE given == _demo_prompt(r, l)
           same == l.prompt # NoPrompt /\ r.prompt = l.prompt
           source == IF same THEN Source ELSE "none"
           rec == recorded_continuation(l, source, expected)
<1>1. /\ given.source = source
      /\ given.bad <=> (r.restored + r.prefilled + 1 # Len(r.prompt) \/ (l.prompt # NoPrompt /\ ~ same))
    BY DEF _demo_prompt
<1>2. _demo_checks(r, l) <=> (r.descriptors # l.descriptors \/ r.status # "ok" \/ r.events # 0)
    BY DEF _demo_checks
<1>3. _demo_report(dir, expected, perf["run"]) <=>
              /\ Whole(dir["layout"]) /\ Whole(perf["run"])
              /\ Whole(dir["image"]) /\ ~ _demo_files(dir, l, expected, r)
              /\ ~ given.bad
              /\ recorded_continuation(l, given.source, expected) \notin {NoRecord, Raised}
              /\ r.ids # <<>>
              /\ r.ids = First(recorded_continuation(l, given.source, expected).ids, r.max_new)
              /\ ~ _demo_checks(r, l)
    BY DEF _demo_report
<1>4. recorded_continuation(l, given.source, expected) = rec
    BY <1>1
<1> HIDE DEF given, rec
<1>5. _demo_report(dir, expected, perf["run"]) <=>
              /\ Whole(dir["layout"]) /\ Whole(perf["run"])
              /\ Whole(dir["image"]) /\ ~ _demo_files(dir, l, expected, r)
              /\ r.restored + r.prefilled + 1 = Len(r.prompt)
              /\ l.prompt # NoPrompt => same
              /\ rec # NoRecord /\ rec # Raised /\ r.ids # <<>> /\ r.ids = First(rec.ids, r.max_new)
              /\ r.descriptors = l.descriptors /\ r.status = "ok" /\ r.events = 0
    BY <1>1, <1>2, <1>3, <1>4
<1> QED BY <1>5 DEF rec

\* The record the layout names, and that the report compares with.
LEMMA RecordedIs ==
    ASSUME NEW l, NEW source, NEW rec, rec = recorded_continuation(l, source, expected)
    PROVE  /\ (rec # NoRecord /\ rec # Raised) <=>
                 /\ l.expected # NoEntry /\ source # "none" /\ Whole(expected)
                 /\ expected.is.prompts[source] = l.expected.prompts[source]
           /\ (rec # NoRecord /\ rec # Raised) => rec.ids = expected.is.prompts[source]
<1> DEFINE ids == expected.is.prompts[source]
<1>1. CASE l.expected = NoEntry \/ source = "none"
    BY <1>1 DEF recorded_continuation
<1>2. CASE ~ (l.expected = NoEntry \/ source = "none") /\ (~ Whole(expected) \/ ids # l.expected.prompts[source])
    BY <1>2 DEF recorded_continuation
<1>3. CASE ~ (l.expected = NoEntry \/ source = "none") /\ ~ (~ Whole(expected) \/ ids # l.expected.prompts[source])
    <2>1. rec = [kind |-> "ids", ids |-> ids]
        BY <1>3 DEF recorded_continuation
    <2> HIDE DEF ids
    <2>2. rec.kind = "ids" /\ rec.ids = ids
        BY <2>1
    <2>3. rec # NoRecord /\ rec # Raised
        BY <2>2 DEF NoRecord, Raised
    <2> QED BY <1>3, <2>2, <2>3 DEF ids
<1> QED BY <1>1, <1>2, <1>3

\* The report says OK exactly when the files are of one compile, the run was given
\* its prompt and its ids are those of the record it was compiled against.
OkOf(l, r) ==
    /\ Whole(dir["layout"]) /\ Whole(perf["run"]) /\ Whole(dir["image"])
    /\ ~ _demo_files(dir, l, expected, r)
    /\ r.restored + r.prefilled + 1 = Len(r.prompt)
    /\ l.prompt # NoPrompt /\ r.prompt = l.prompt
    /\ l.expected # NoEntry /\ Whole(expected) /\ expected.is.prompts[Source] = l.expected.prompts[Source]
    /\ r.ids # <<>> /\ r.ids = First(expected.is.prompts[Source], r.max_new)
    /\ r.descriptors = l.descriptors /\ r.status = "ok" /\ r.events = 0
LEMMA OkIs ==
    ASSUME NEW l, l = dir["layout"].is, NEW r, r = perf["run"].is
    PROVE  _demo_report(dir, expected, perf["run"]) <=> OkOf(l, r)
<1> DEFINE source == IF l.prompt # NoPrompt /\ r.prompt = l.prompt THEN Source ELSE "none"
           rec == recorded_continuation(l, source, expected)
           took == rec # NoRecord /\ rec # Raised
<1>1. _demo_report(dir, expected, perf["run"]) <=>
              /\ Whole(dir["layout"]) /\ Whole(perf["run"]) /\ Whole(dir["image"])
              /\ ~ _demo_files(dir, l, expected, r)
              /\ r.restored + r.prefilled + 1 = Len(r.prompt)
              /\ l.prompt # NoPrompt => r.prompt = l.prompt
              /\ took /\ r.ids # <<>> /\ r.ids = First(rec.ids, r.max_new)
              /\ r.descriptors = l.descriptors /\ r.status = "ok" /\ r.events = 0
    BY ReportSays
<1>2. /\ took <=> /\ l.expected # NoEntry /\ source # "none" /\ Whole(expected)
                  /\ expected.is.prompts[source] = l.expected.prompts[source]
      /\ took => rec.ids = expected.is.prompts[source]
    BY RecordedIs
<1>3. /\ source # "none" <=> (l.prompt # NoPrompt /\ r.prompt = l.prompt)
      /\ source # "none" => source = Source
    BY DEF Source
<1> HIDE DEF took, rec, source
<1> QED BY <1>1, <1>2, <1>3 DEF OkOf

-----------------------------------------------------------------------------
(* What an OK is of, by hand or not *)

GoldenIds ==
    LET layout == dir["layout"].is
        run == perf["run"].is
    IN /\ run.ids # <<>>
       /\ \E t \in {0, 1} : run.ids = generate(layout.model, prompt_tokens(t), Len(run.ids))
       /\ run.prompt = layout.prompt /\ run.outcome \in {"right", "wrong id"}
       /\ run.ran.wb = layout.wb /\ run.ran.m.layers = layout.model.layers
LEMMA GoldenOk ==
    ASSUME DemoType, _demo_report(dir, expected, perf["run"])
    PROVE  GoldenIds
<1> DEFINE l == dir["layout"].is
           r == perf["run"].is
<1>1. OkOf(l, r)
    BY OkIs
<1>2. IsLayout(l) /\ IsRun(r)
    BY <1>1, FileIs DEF OkOf, DemoType, IsDir, IsPerf, Lost
<1>3. PICK b \in Compiles : LayoutOf(l, b)
    BY <1>2, LayoutIs
<1>4. l = dir["layout"].is /\ r = perf["run"].is
    OBVIOUS
<1> HIDE DEF l, r
<1>5. FilesOf(l, b, r)
    BY <1>1, <1>3, FilesAgree DEF OkOf
<1>6. b.m \in Models /\ l.model = b.m /\ l.wb = b.wb
    BY <1>3, CompileIs DEF LayoutOf
<1>7. IsRecord(expected.is) /\ expected.is.layers = b.m.layers /\ expected.is.calib = b.m.calib
    BY <1>1, <1>3, <1>5 DEF OkOf, FilesOf, LayoutOf
<1>8. PICK t \in Texts : \E n \in Nat \ {0} : expected.is.prompts[Source] = generate(b.m, prompt_tokens(t), n)
    BY <1>6, <1>7, RecordIs
<1>9. PICK n \in Nat \ {0} : expected.is.prompts[Source] = generate(b.m, prompt_tokens(t), n)
    BY <1>8
<1>10. r.ids = First(First(Greedy(b.m, prompt_tokens(t)), n), r.max_new) /\ r.max_new \in Nat
    BY <1>1, <1>2, <1>9 DEF OkOf, IsRun, generate
<1>11. r.ids = generate(b.m, prompt_tokens(t), Len(r.ids))
    <2> DEFINE g == Greedy(b.m, prompt_tokens(t))
               f == First(First(g, n), r.max_new)
    <2>1. prompt_tokens(t) \in Prompts
        BY DEF Prompts, Turns
    <2>2. IsSeq(g)
        BY <1>6, <2>1, GreedyIs
    <2>3. f = First(g, Len(f))
        BY <1>10, <2>2, FirstFirst
    <2>4. r.ids = f
        BY <1>10
    <2> HIDE DEF f
    <2>5. r.ids = First(g, Len(r.ids))
        BY <2>3, <2>4
    <2> QED BY <2>5 DEF generate
<1>12. r.outcome \in {"right", "wrong id"}
    BY <1>1, <1>2 DEF OkOf, IsRun, Outcomes
<1>13. r.ran.wb = b.wb /\ r.ran.m.layers = b.m.layers
    <2> DEFINE i == dir["image"].is
    <2>1. i = [m |-> b.m, wb |-> b.wb]
        BY <1>5 DEF FilesOf, Hashed, Content
    <2>2. i.wb = b.wb /\ i.m = b.m
        BY <2>1
    <2>3. <<r.ran.wb, r.ran.m.layers>> = <<i.wb, i.m.layers>>
        BY <1>2, <1>5 DEF IsRun, FilesOf
    <2> HIDE DEF i
    <2>4. r.ran.wb = i.wb /\ r.ran.m.layers = i.m.layers
        BY <2>3
    <2> QED BY <2>2, <2>4
<1>14. \E u \in {0, 1} : r.ids = generate(l.model, prompt_tokens(u), Len(r.ids))
    BY <1>6, <1>11 DEF Texts
<1>15. r.ids # <<>> /\ r.prompt = l.prompt
    BY <1>1 DEF OkOf
<1> QED BY <1>4, <1>6, <1>12, <1>13, <1>14, <1>15 DEF GoldenIds

-----------------------------------------------------------------------------
(* What the report of a script is of *)

\* What a script has done before it reports.
Own ==
    /\ session = "demo" /\ Starts(dir) => Ran("run", 0)
    /\ session = "toolcall" => SavedTurn /\ Cut < Len(Prompt) /\ Ran("run", Cut) /\ Ran("baseline", 0)

LEMMA ImageOf ==
    ASSUME DemoType, Whole(dir["image"])
    PROVE  dir["image"].is \in Images
BY FileIs DEF DemoType, IsDir, Lost

LEMMA PromptOf ==
    ASSUME DemoType
    PROVE  Prompt \in Prompts /\ (Whole(dir["prompt"]) => Prompt = dir["prompt"].is)
<1>1. CASE Whole(dir["prompt"])
    <2>1. dir["prompt"].is \in Turns
        BY <1>1, FileIs DEF DemoType, IsDir, Lost
    <2>2. Prompt = dir["prompt"].is
        BY <1>1 DEF Prompt, prompt_ids, Whole, Torn
    <2> QED BY <2>1, <2>2 DEF Prompts
<1>2. CASE ~ Whole(dir["prompt"])
    <2>1. Prompt = <<EosId>> \/ Prompt = <<0>>
        BY <1>2 DEF Prompt, prompt_ids
    <2> QED BY <1>2, <2>1 DEF Prompts
<1> QED BY <1>1, <1>2

\* A file that is whole is not lost, and what was written of it is what it holds.
LEMMA WrittenIs ==
    ASSUME NEW x, NEW f, f = File(x)
    PROVE  Whole(f) /\ f.is = x
BY DEF File, Whole

LEMMA RanIs ==
    ASSUME NEW r, NEW restored, Ran(r, restored)
    PROVE  /\ Whole(perf[r])
           /\ \E n \in Nat \ {0} : RunFields(perf[r].is, restored, n)
<1>1. PICK n \in Nat \ {0} : \E record \in Runs(restored, n) : perf[r] = File(record)
    BY DEF Ran
<1>2. PICK record \in Runs(restored, n) : perf[r] = File(record)
    BY <1>1
<1>3. Whole(perf[r]) /\ perf[r].is = record
    BY <1>2, WrittenIs
<1> QED BY <1>3, RunIs

\* The one record of the script: of the image that is there, on its prompt.
LEMMA RunOf ==
    ASSUME session \in {"demo", "toolcall"}, Own, session = "demo" => Starts(dir)
    PROVE  \E restored, n : /\ n \in Nat \ {0} /\ RunFields(perf["run"].is, restored, n)
                            /\ restored = IF session = "demo" THEN 0 ELSE Cut
<1>1. Ran("run", IF session = "demo" THEN 0 ELSE Cut)
    BY DEF Own
<1> QED BY <1>1, RanIs

\* An image of the size the layout describes is one it starts on.
LEMMA SizeIs ==
    ASSUME NEW l, l = dir["layout"].is, NEW b, LayoutOf(l, b), Whole(dir["layout"]), Whole(dir["image"]),
           dir["image"].is = Content("image", b)
    PROVE  Starts(dir) /\ dir["image"].is.m = b.m /\ dir["image"].is.wb = b.wb
<1>1. dir["image"].is = [m |-> b.m, wb |-> b.wb]
    BY DEF Content
<1> DEFINE i == dir["image"].is
<1>2. i.m = b.m /\ i.wb = b.wb
    BY <1>1
<1>3. <<i.wb, i.m.layers>> = <<b.wb, b.m.layers>>
    BY <1>2
<1> QED BY <1>2, <1>3 DEF Starts, LayoutOf

\* A length cannot be cut in three unless it adds up.
LEMMA Numbers ==
    ASSUME NEW k \in Nat, NEW c \in Nat
    PROVE  c + (k - 1 - c) = k - 1 /\ c + (k - 1 - c) + 1 = k
OBVIOUS

\* What an OK report of a script is of.
OfIt == Whole(dir["layout"]) /\ Whole(perf["run"]) /\ OneBuild /\ RunOfIt /\ GoldenOfIt
LEMMA ReportSound ==
    ASSUME DemoType, session \in {"demo", "toolcall"}, Own, _demo_report(dir, expected, perf["run"])
    PROVE  OfIt
<1> DEFINE l == dir["layout"].is
           r == perf["run"].is
           i == dir["image"].is
           record == expected.is.prompts[Source]
<1>1. OkOf(l, r)
    BY OkIs
<1>2. IsLayout(l)
    BY <1>1, FileIs DEF OkOf, DemoType, IsDir, Lost
<1>3. PICK b \in Compiles : LayoutOf(l, b)
    BY <1>2, LayoutIs
<1>4. FilesOf(l, b, r)
    BY <1>1, <1>3, FilesAgree DEF OkOf
<1>5. b.m \in Models /\ l.model = b.m /\ l.prompt = b.prompt
    BY <1>3, CompileIs DEF LayoutOf
<1>6. Starts(dir) /\ i.m = b.m
    BY <1>1, <1>3, <1>4, SizeIs DEF OkOf, FilesOf, Hashed
<1>7. PICK restored, n : n \in Nat \ {0} /\ RunFields(r, restored, n)
    BY <1>6, RunOf
<1>8. /\ r.ran = i /\ r.prompt = Prompt /\ r.max_new = n /\ r.outcome \in Outcomes
      /\ r.ids \in Emitted(generate(i.m, Prompt, n), n, r.outcome)
      /\ r.status = (IF r.outcome = "stopped" THEN "error" ELSE "ok")
      /\ r.events = (IF r.outcome = "event" THEN 1 ELSE 0)
    BY <1>7 DEF RunFields
<1>9. r.outcome \in {"right", "wrong id"}
    <2>1. r.status = "ok" /\ r.events = 0
        BY <1>1 DEF OkOf
    <2>2. r.outcome # "stopped" /\ r.outcome # "event"
        BY <1>8, <2>1
    <2> QED BY <1>8, <2>2 DEF Outcomes
<1>10. expected.is = l.expected.sha /\ IsRecord(expected.is) /\ expected.is.layers = b.m.layers /\ expected.is.calib = b.m.calib
    BY <1>1, <1>3, <1>4 DEF OkOf, FilesOf, LayoutOf
<1>11. Len(record) \in Nat
    <2>1. PICK t \in Texts : \E k \in Nat \ {0} : record = generate(b.m, prompt_tokens(t), k)
        BY <1>5, <1>10, RecordIs
    <2>2. PICK k \in Nat \ {0} : record = generate(b.m, prompt_tokens(t), k)
        BY <2>1
    <2>3. prompt_tokens(t) \in Prompts
        BY DEF Prompts, Turns
    <2>4. IsSeq(Greedy(b.m, prompt_tokens(t)))
        BY <1>5, <2>3, GreedyIs
    <2>5. IsSeq(record)
        BY <2>2, <2>4, FirstIs DEF generate
    <2> QED BY <2>5, SeqLen
<1>12. ASSUME record = generate(l.model, l.prompt, Len(record)), r.outcome = "wrong id"
       PROVE  FALSE
    <2> DEFINE p == Prompt
               k == Len(record)
               ids == r.ids
    <2>1. p \in Prompts /\ l.prompt = p
        BY <1>1, <1>8, PromptOf DEF OkOf
    <2>2. record = generate(b.m, p, k) /\ k \in Nat
        BY <1>5, <1>11, <1>12, <2>1
    <2>3. ids = First(record, n) /\ ids # <<>>
        BY <1>1, <1>8 DEF OkOf
    <2>4. ids \in Emitted(generate(b.m, p, n), n, "wrong id")
        BY <1>6, <1>8, <1>12
    <2> HIDE DEF p, k, ids, record, l, r, i
    <2>5. ids = First(generate(b.m, p, k), n)
        BY <2>2, <2>3
    <2> QED BY <1>5, <1>7, <2>1, <2>2, <2>3, <2>4, <2>5, RightIs
<1>13. OneBuild
    <2>1. Whole(dir["prompt"]) /\ dir["prompt"].is = b.prompt /\ b.prompt # NoPrompt
        BY <1>1, <1>4, <1>5 DEF OkOf, FilesOf
    <2> QED BY <1>3, <1>4, <2>1, BuildOf DEF FilesOf
<1>14. RunOfIt
    BY <1>1, <1>8, <1>9 DEF RunOfIt, OkOf
<1>15. GoldenOfIt
    BY <1>1, <1>8, <1>9, <1>10, <1>12 DEF GoldenOfIt, OkOf
<1> QED BY <1>1, <1>13, <1>14, <1>15 DEF OfIt, OkOf

LEMMA ReportComplete ==
    ASSUME DemoType, session \in {"demo", "toolcall"}, Own, OfIt
    PROVE  _demo_report(dir, expected, perf["run"])
<1> DEFINE l == dir["layout"].is
           r == perf["run"].is
           i == dir["image"].is
<1>1. Whole(dir["layout"]) /\ Whole(perf["run"]) /\ OneBuild /\ RunOfIt /\ GoldenOfIt
    BY DEF OfIt
<1>2. IsLayout(l)
    BY <1>1, FileIs DEF DemoType, IsDir, Lost
<1>3. PICK b \in Compiles : LayoutOf(l, b)
    BY <1>2, LayoutIs
<1>4. /\ b.prompt # NoPrompt /\ \A f \in Hashed : Whole(dir[f]) /\ dir[f].is = Content(f, b)
      /\ Whole(dir["prompt"]) /\ dir["prompt"].is = b.prompt
    BY <1>1, <1>3, BuildOf
<1>5. l.prompt = b.prompt /\ l.descriptors = b.m.layers
    BY <1>3 DEF LayoutOf
<1>6. Starts(dir) /\ i.m = b.m /\ Whole(dir["image"])
    BY <1>1, <1>3, <1>4, SizeIs DEF Hashed
<1>7. PICK restored, n : n \in Nat \ {0} /\ RunFields(r, restored, n) /\ restored = IF session = "demo" THEN 0 ELSE Cut
    BY <1>6, RunOf
<1>8. r.ran = i /\ r.prompt = l.prompt /\ r.outcome \in {"right", "wrong id"}
    BY <1>1 DEF RunOfIt
<1>9. /\ r.image_bytes = <<i.wb, i.m.layers>> /\ r.descriptors = i.m.layers /\ r.status = "ok" /\ r.events = 0
      /\ r.restored = restored /\ r.prefilled = Len(Prompt) - 1 - restored /\ r.prompt = Prompt
    BY <1>7, <1>8 DEF RunFields
<1>10. /\ Whole(expected) /\ l.expected # NoEntry /\ expected.is = l.expected.sha
       /\ r.ids # <<>> /\ r.ids = First(expected.is.prompts[Source], r.max_new)
    BY <1>1 DEF GoldenOfIt
<1>11. l.expected.prompts = expected.is.prompts
    BY <1>3, <1>10 DEF LayoutOf
<1>12. ~ _demo_files(dir, l, expected, r)
    BY <1>3, <1>4, <1>9, <1>10, FilesAgree DEF FilesOf
<1>13. r.restored + r.prefilled + 1 = Len(r.prompt)
    <2>1. Len(Prompt) \in Nat
        BY PromptOf, PromptIs
    <2>2. restored \in Nat
        BY <1>7, <2>1 DEF Own, SavedTurn
    <2> QED BY <1>9, <2>1, <2>2, Numbers
<1> QED BY <1>1, <1>4, <1>5, <1>6, <1>8, <1>9, <1>10, <1>11, <1>12, <1>13, OkIs DEF OkOf

-----------------------------------------------------------------------------
(* The prefix demo *)

\* What the summary compares, with the records named.
LEMMA PrefixIs ==
    ASSUME NEW r, r = perf["run"].is, NEW p, p = perf["prefix"].is, NEW q, q = perf["baseline"].is
    PROVE  _demo_prefix(perf["run"], perf["prefix"], perf["baseline"], prefix) <=>
              /\ Whole(perf["prefix"]) /\ Whole(perf["baseline"]) /\ Whole(prefix)
              /\ r.ids = q.ids /\ r.ids # <<>> /\ r.restored # 0
              /\ r.prefilled + r.restored = q.prefilled
              /\ p.cycles + r.cycles = q.cycles
BY DEF _demo_prefix, reuse_lines

\* The cycles of a prefill cut in two add up to those of the whole.
LEMMA CyclesAdd ==
    ASSUME NEW i \in Images, NEW c \in 0 .. 3, NEW k \in 0 .. 3
    PROVE  Cycles(i, 0, c) + Cycles(i, c, k) = Cycles(i, 0, k)
<1>1. \A n \in 0 .. 3 : PrefillCycles(i, n) \in Nat
    <2>1. i = [m |-> i.m, wb |-> i.wb] /\ i.m \in Models /\ i.wb \in Widths
        BY ImageIs
    <2>2. \A n \in 0 .. 3 : PrefillCycles([m |-> i.m, wb |-> i.wb], n) \in Nat
        BY <2>1, CyclesAssumption
    <2> QED BY <2>1, <2>2
<1>2. PrefillCycles(i, 0) \in Nat /\ PrefillCycles(i, c) \in Nat /\ PrefillCycles(i, k) \in Nat
    BY <1>1
<1> QED BY <1>2 DEF Cycles

\* Of a script's own runs the summary asks no more than the ids they share.
LEMMA PrefixExact ==
    ASSUME DemoType, session = "toolcall", Own, OfIt
    PROVE  _demo_prefix(perf["run"], perf["prefix"], perf["baseline"], prefix) <=> ReuseOfIt
<1> DEFINE r == perf["run"].is
           p == perf["prefix"].is
           q == perf["baseline"].is
           i == dir["image"].is
           k == Len(Prompt)
           c == Cut
<1>1. /\ Starts(dir) /\ Whole(prefix) /\ c \in 1 .. k /\ c < k
      /\ perf["prefix"] = File(Perf(dir, SubSeq(Prompt, 1, c), 0, c, 0, "right", <<>>))
    BY DEF Own, SavedTurn
<1>2. Whole(perf["prefix"]) /\ p.ran = i /\ p.prefilled = c /\ p.cycles = Cycles(i, 0, 0 + c)
    <2>1. Whole(perf["prefix"]) /\ p = Perf(dir, SubSeq(Prompt, 1, c), 0, c, 0, "right", <<>>)
        BY <1>1, WrittenIs
    <2> QED BY <2>1, PerfFields
<1>3. PICK n : RunFields(r, c, n)
    BY RanIs DEF Own
<1>4. Whole(perf["baseline"]) /\ \E m \in Nat \ {0} : RunFields(q, 0, m)
    BY RanIs DEF Own
<1>5. PICK m : RunFields(q, 0, m)
    BY <1>4
<1>6. /\ r.ran = i /\ r.prompt = Prompt /\ r.restored = c /\ r.prefilled = k - 1 - c
      /\ r.cycles = Cycles(i, c, c + (k - 1 - c))
    BY <1>3 DEF RunFields
<1>7. q.ran = i /\ q.prompt = Prompt /\ q.prefilled = k - 1 - 0 /\ q.cycles = Cycles(i, 0, 0 + (k - 1 - 0))
    BY <1>5 DEF RunFields
<1>8. k \in {1, 4}
    BY PromptOf, PromptIs
<1>9. i \in Images
    BY <1>1, ImageOf DEF Starts
<1>10. r.ids # <<>>
    BY DEF OfIt, GoldenOfIt
<1>11. _demo_prefix(perf["run"], perf["prefix"], perf["baseline"], prefix) <=>
         /\ Whole(perf["prefix"]) /\ Whole(perf["baseline"]) /\ Whole(prefix)
         /\ r.ids = q.ids /\ r.ids # <<>> /\ r.restored # 0
         /\ r.prefilled + r.restored = q.prefilled
         /\ p.cycles + r.cycles = q.cycles
    BY PrefixIs
<1>12. ReuseOfIt <=> /\ Whole(prefix) /\ Whole(perf["prefix"]) /\ Whole(perf["baseline"])
                     /\ q.ran = r.ran /\ q.ids = r.ids /\ q.prompt = r.prompt
                     /\ r.restored > 0 /\ p.prefilled = r.restored /\ p.ran = r.ran
    BY DEF ReuseOfIt
<1> HIDE DEF r, p, q, i, k, c
<1>13. c \in 1 .. 3 /\ k = 4
    BY <1>1, <1>8
<1>14. c + (k - 1 - c) = 3 /\ 0 + (k - 1 - 0) = 3 /\ 0 + c = c
    BY <1>13
<1>15. p.cycles + r.cycles = q.cycles
    BY <1>2, <1>6, <1>7, <1>9, <1>13, <1>14, CyclesAdd
<1>16. r.prefilled + r.restored = q.prefilled /\ r.restored # 0 /\ r.restored > 0
    BY <1>6, <1>7, <1>13
<1> QED BY <1>1, <1>2, <1>4, <1>6, <1>7, <1>10, <1>11, <1>12, <1>15, <1>16

\* The verdict of demo-report on what a script did is exact.
LEMMA ReportExact ==
    ASSUME DemoType, session \in {"demo", "toolcall"}, Own
    PROVE  Reported <=> Exact
<1>1. _demo_report(dir, expected, perf["run"]) <=> OfIt
    BY ReportSound, ReportComplete
<1>2. OfIt /\ session = "toolcall" => (_demo_prefix(perf["run"], perf["prefix"], perf["baseline"], prefix) <=> ReuseOfIt)
    BY PrefixExact
<1> QED BY <1>1, <1>2 DEF Reported, Exact, OfIt

-----------------------------------------------------------------------------
(* The steps a demo has left *)

\* What a step is says how many are behind it, and in which script.
LEMMA PlaceOf ==
    ASSUME session \in {"demo", "toolcall"}, NEW op, NEW k \in Nat, op \in OpsBefore(measured, session, k)
    PROVE  /\ op = "run" => measured = OwnRun /\ session = "demo" /\ k = 1
           /\ op = "save" => measured = OwnRun /\ session = "toolcall" /\ k = 4
           /\ op = "check header" => measured = OwnRun /\ session = "toolcall" /\ k = 3
           /\ op = "reuse" => measured = OwnRun /\ session = "toolcall" /\ k = 2
           /\ op = "baseline" => measured = OwnRun /\ session = "toolcall" /\ k = 1
           /\ op \in Building \cup {"report", "run", "save", "check header", "reuse", "baseline"}
           /\ op = "report" /\ measured = OwnRun => k = 0
           /\ op \in Building /\ measured = OwnRun => (session = "demo" => k >= 2) /\ (session = "toolcall" => k >= 5)
<1>1. CASE measured # OwnRun
    BY <1>1 DEF OpsBefore, Building
<1>2. CASE measured = OwnRun /\ session = "demo"
    <2>1. op \in DemoOps(k)
        BY <1>2 DEF OpsBefore
    <2>2. (k = 0 /\ op = "report") \/ (k = 1 /\ op = "run") \/ (k >= 2 /\ op \in Building)
        BY <2>1 DEF DemoOps
    <2> QED BY <1>2, <2>2 DEF Building
<1>3. CASE measured = OwnRun /\ session = "toolcall"
    <2>1. op \in ToolcallOps(k)
        BY <1>3 DEF OpsBefore
    <2>2. \/ k = 0 /\ op = "report"
          \/ k = 1 /\ op = "baseline"
          \/ k = 2 /\ op = "reuse"
          \/ k = 3 /\ op = "check header"
          \/ k = 4 /\ op = "save"
          \/ k >= 5 /\ op \in Building
        <3>1. CASE k = 0
            BY <2>1, <3>1 DEF ToolcallOps
        <3>2. CASE k = 1
            BY <2>1, <3>2 DEF ToolcallOps
        <3>3. CASE k = 2
            BY <2>1, <3>3 DEF ToolcallOps
        <3>4. CASE k = 3
            BY <2>1, <3>4 DEF ToolcallOps
        <3>5. CASE k = 4
            BY <2>1, <3>5 DEF ToolcallOps
        <3>6. CASE k >= 5
            <4>1. k # 0 /\ k # 1 /\ k # 2 /\ k # 3 /\ k # 4
                BY <3>6
            <4>2. ToolcallOps(k) = Building
                BY <4>1 DEF ToolcallOps
            <4> QED BY <2>1, <3>6, <4>2
        <3>7. k = 0 \/ k = 1 \/ k = 2 \/ k = 3 \/ k = 4 \/ k >= 5
            OBVIOUS
        <3> QED BY <3>1, <3>2, <3>3, <3>4, <3>5, <3>6, <3>7
    <2> QED BY <1>3, <2>2 DEF Building
<1> QED BY <1>1, <1>2, <1>3

\* A step that builds may have any others that build before it.
LEMMA BuildingBefore ==
    ASSUME session \in {"demo", "toolcall"}, NEW op, NEW k \in Nat, op \in Building, op \in OpsBefore(measured, session, k),
           NEW j \in Nat, j >= k
    PROVE  Building \subseteq OpsBefore(measured, session, j)
<1>1. CASE measured # OwnRun
    BY <1>1 DEF OpsBefore
<1>2. CASE measured = OwnRun /\ session = "demo"
    <2>1. k >= 2
        BY <1>2, PlaceOf
    <2>2. j # 0 /\ j # 1
        BY <2>1
    <2>3. DemoOps(j) = Building
        BY <2>2 DEF DemoOps
    <2> QED BY <1>2, <2>3 DEF OpsBefore
<1>3. CASE measured = OwnRun /\ session = "toolcall"
    <2>1. k >= 5
        BY <1>3, PlaceOf
    <2>2. j # 0 /\ j # 1 /\ j # 2 /\ j # 3 /\ j # 4
        BY <2>1
    <2>3. ToolcallOps(j) = Building
        BY <2>2 DEF ToolcallOps
    <2> QED BY <1>3, <2>3 DEF OpsBefore
<1> QED BY <1>1, <1>2, <1>3

LEMMA DemoHead ==
    ASSUME Shape, DemoTodo, todo # <<>>
    PROVE  /\ Len(todo) \in Nat \ {0} /\ Len(todo) - 1 \in Nat
           /\ Fits(Head(todo)) /\ Head(todo).op \in OpsBefore(measured, session, Len(todo) - 1)
<1>1. Head(todo) = todo[1] /\ 1 \in Steps /\ Len(todo) \in Nat \ {0}
    BY HeadIs
<1> QED BY <1>1 DEF DemoTodo

\* The measure of a session stands while a command's steps are done.
Stands == measured' = measured /\ session' = session
LEMMA SameStands == Same => Stands
BY DEF Same, Stands, figures

LEMMA DemoNothing ==
    ASSUME todo' = <<>>
    PROVE  DemoTodo' /\ DemoDone'
<1>1. DemoTodo'
    BY NothingLeft DEF DemoTodo
<1>2. DemoDone'
    BY DEF DemoDone
<1> QED BY <1>1, <1>2

LEMMA DemoShorter ==
    ASSUME Shape, DemoTodo, todo # <<>>, Stands, todo' = Tail(todo)
    PROVE  DemoTodo' /\ Len(todo') = Len(todo) - 1
<1> DEFINE l == Len(todo)
<1>1. /\ Len(todo') = l - 1 /\ l \in Nat \ {0}
      /\ \A i \in 1 .. l - 1 : i + 1 \in Steps /\ todo'[i] = todo[i + 1]
    BY HeadIs
<1>2. ASSUME NEW i \in 1 .. l - 1
      PROVE  Fits(todo'[i]) /\ todo'[i].op \in OpsBefore(measured', session', Len(todo') - i)
    <2>1. Fits(todo[i + 1]) /\ todo[i + 1].op \in OpsBefore(measured, session, l - (i + 1)) /\ todo'[i] = todo[i + 1]
        BY <1>1 DEF DemoTodo
    <2>2. Len(todo') - i = l - (i + 1)
        BY <1>1
    <2> QED BY <2>1, <2>2 DEF Stands
<1> QED BY <1>1, <1>2 DEF DemoTodo, Steps


\* A step that is replaced by others that build leaves the order of the rest.
LEMMA DemoLonger ==
    ASSUME Shape, session \in {"demo", "toolcall"}, DemoTodo, todo # <<>>, Stands, NEW w, IsSeq(w),
           todo' = w \o Tail(todo), Head(todo).op \in Building,
           \A i \in 1 .. Len(w) : Fits(w[i]) /\ w[i].op \in Building
    PROVE  DemoTodo' /\ Len(todo') = Len(w) + Len(todo) - 1
<1> DEFINE n == Len(w)
           l == Len(todo)
           Ops(b) == OpsBefore(measured, session, b)
<1>1. /\ Len(todo') = n + l - 1 /\ n \in Nat /\ l \in Nat \ {0} /\ Head(todo) = todo[1]
      /\ \A i \in 1 .. n : todo'[i] = w[i]
      /\ \A i \in n + 1 .. n + l - 1 : todo'[i] = todo[i - n + 1]
    BY Prepend, HeadIs DEF Shape
<1>2. \A i \in 1 .. n : Fits(w[i]) /\ w[i].op \in Building
    OBVIOUS
<1>3. Head(todo).op \in Ops(l - 1) /\ l - 1 \in Nat
    BY DemoHead
<1>4. \A j \in Nat : j >= l - 1 => Building \subseteq Ops(j)
    BY <1>3, BuildingBefore
<1>5. \A i \in 1 .. l : Fits(todo[i]) /\ todo[i].op \in Ops(l - i)
    BY DEF DemoTodo, Steps
<1> HIDE DEF n, l, Ops
<1>6. ASSUME NEW i \in 1 .. n PROVE Fits(todo'[i]) /\ todo'[i].op \in Ops(n + l - 1 - i)
    <2>1. n + l - 1 - i \in Nat /\ n + l - 1 - i >= l - 1
        BY <1>1
    <2> QED BY <1>1, <1>2, <1>4, <2>1
<1>7. ASSUME NEW i \in n + 1 .. n + l - 1 PROVE Fits(todo'[i]) /\ todo'[i].op \in Ops(n + l - 1 - i)
    <2> DEFINE o == i - n + 1
    <2>1. o \in 1 .. l /\ n + l - 1 - i = l - o
        BY <1>1
    <2>2. todo'[i] = todo[o]
        BY <1>1
    <2> HIDE DEF o
    <2> QED BY <1>5, <2>1, <2>2
<1>8. ASSUME NEW i \in 1 .. n + l - 1 PROVE Fits(todo'[i]) /\ todo'[i].op \in Ops(n + l - 1 - i)
    <2>1. i \in 1 .. n \/ i \in n + 1 .. n + l - 1
        BY <1>1
    <2> QED BY <1>6, <1>7, <2>1
<1> QED BY <1>1, <1>8 DEF DemoTodo, Steps, Stands, Ops, n, l

\* While a script still builds nothing has run of it, and it takes so many steps yet.
LEMMA StillBuilds ==
    ASSUME Shape, session \in {"demo", "toolcall"}, DemoTodo, todo # <<>>, Stands, Head(todo).op \in Building,
           Len(todo') \in Nat, Len(todo') >= Len(todo) - 1
    PROVE  DemoDone'
<1>1. /\ Len(todo) \in Nat /\ Len(todo) - 1 \in Nat
      /\ Head(todo).op \in OpsBefore(measured, session, Len(todo) - 1)
    BY DemoHead
<1> DEFINE n == Len(todo')
           l == Len(todo)
<1>2. measured = OwnRun => (session = "demo" => l - 1 >= 2) /\ (session = "toolcall" => l - 1 >= 5)
    BY <1>1, PlaceOf
<1>5. n \in Nat /\ l \in Nat /\ n >= l - 1
    BY <1>1
<1> HIDE DEF n, l
<1>3. measured = OwnRun /\ session = "demo" => n # 1
    BY <1>2, <1>5
<1>4. measured = OwnRun /\ session = "toolcall" => ~ (n <= 4) /\ ~ (n <= 3) /\ ~ (n <= 2) /\ n # 1
    BY <1>2, <1>5
<1> QED BY <1>3, <1>4 DEF DemoDone, Stands, n

\* A step that builds, done or failed, leaves the rest of its script as it is.
LEMMA DemoPlain ==
    ASSUME Shape, session \in {"demo", "toolcall"}, DemoTodo, todo # <<>>, Stands, Head(todo).op \in Building,
           todo' = Tail(todo) \/ todo' = <<>>
    PROVE  DemoTodo' /\ DemoDone'
<1>1. CASE todo' = <<>>
    BY <1>1, DemoNothing
<1>2. CASE todo' = Tail(todo)
    <2>1. DemoTodo' /\ Len(todo') = Len(todo) - 1
        BY <1>2, DemoShorter
    <2>2. Len(todo) - 1 \in Nat
        BY DemoHead
    <2> QED BY <2>1, <2>2, StillBuilds
<1> QED BY <1>1, <1>2

LEMMA DemoBuilds ==
    ASSUME Shape, session \in {"demo", "toolcall"}, DemoTodo, todo # <<>>, Stands, NEW w, IsSeq(w),
           todo' = w \o Tail(todo), Head(todo).op \in Building,
           \A i \in 1 .. Len(w) : Fits(w[i]) /\ w[i].op \in Building
    PROVE  DemoTodo' /\ DemoDone'
<1>1. DemoTodo' /\ Len(todo') = Len(w) + Len(todo) - 1
    BY DemoLonger
<1>2. Len(w) \in Nat /\ Len(todo) - 1 \in Nat
    BY SeqLen, DemoHead
<1>3. Len(todo') \in Nat /\ Len(todo') >= Len(todo) - 1
    BY <1>1, <1>2
<1> QED BY <1>1, <1>3, StillBuilds

-----------------------------------------------------------------------------
(* The files a step of a demo leaves *)

LEMMA DemoKept ==
    /\ DemoCalib /\ calib' = calib => DemoCalib'
    /\ DemoQuant /\ quants' = quants => DemoQuant'
    /\ DemoExpected /\ expected' = expected => DemoExpected'
    /\ IsDir(dir) /\ dir' = dir => IsDir(dir')
    /\ IsPerf(perf) /\ perf' = perf => IsPerf(perf')
<1>1. DemoCalib /\ calib' = calib => DemoCalib'
    BY DEF DemoCalib
<1>2. DemoQuant /\ quants' = quants => DemoQuant'
    BY DEF DemoQuant, Quant
<1>3. DemoExpected /\ expected' = expected => DemoExpected'
    BY DEF DemoExpected
<1> QED BY <1>1, <1>2, <1>3

LEMMA DemoSame ==
    ASSUME DemoType, text' \in Texts, UNCHANGED files
    PROVE  DemoType'
BY DemoKept DEF DemoType, files

LEMMA DemoEdit ==
    ASSUME DemoType, Edit
    PROVE  DemoType' /\ DemoTodo' /\ DemoDone'
<1>1. text' \in Texts
    BY DEF Edit, DemoType, Texts
<1>2. UNCHANGED files /\ todo' = <<>>
    BY DEF Edit
<1> QED BY <1>1, <1>2, DemoSame, DemoNothing

\* A stopped command has torn at most the file its step was writing.
LEMMA DemoInterrupt ==
    ASSUME DemoType, Interrupt
    PROVE  DemoType' /\ DemoTodo' /\ DemoDone'
<1>1. PICK t \in Target \cup {"nothing"} :
        /\ calib' = IF t = "calib" THEN Torn ELSE calib
        /\ quants' = IF t = "quants" THEN [quants EXCEPT ![Head(todo).smoothing] = Torn] ELSE quants
        /\ expected' = IF t = "expected" THEN Torn ELSE expected
        /\ dir' = IF t = "dir" THEN [dir EXCEPT ![Head(todo).file] = Torn] ELSE dir
        /\ perf' = [r \in DOMAIN perf |-> IF r = t THEN Torn ELSE perf[r]]
    BY DEF Interrupt
<1>2. text' \in Texts /\ todo' = <<>>
    BY DEF Interrupt, DemoType
<1>3. DemoCalib'
    BY <1>1 DEF DemoType, DemoCalib, Lost
<1>4. DemoQuant'
    <2>1. quants = [s \in BOOLEAN |-> quants[s]]
        BY DEF DemoType, DemoQuant
    <2>2. quants' = [s \in BOOLEAN |-> quants'[s]] /\ (quants'[TRUE] = quants[TRUE] \/ quants'[TRUE] = Torn)
        BY <1>1, <2>1
    <2> QED BY <2>2 DEF DemoType, DemoQuant, Quant, Lost
<1>5. DemoExpected'
    BY <1>1 DEF DemoType, DemoExpected, Lost
<1>6. IsDir(dir')
    <2>1. dir = [f \in FILES |-> dir[f]]
        BY DEF DemoType, IsDir
    <2>2. dir' = [f \in FILES |-> dir'[f]] /\ \A f \in FILES : dir'[f] = dir[f] \/ dir'[f] = Torn
        BY <1>1, <2>1
    <2>3. {"image", "prompt", "layout"} \subseteq FILES
        BY DEF FILES
    <2> QED BY <2>2, <2>3 DEF DemoType, IsDir, Lost
<1>7. IsPerf(perf')
    <2>1. perf = [r \in Kinds |-> perf[r]]
        BY DEF DemoType, IsPerf
    <2>2. /\ perf' = [r \in Kinds |-> perf'[r]]
          /\ \A r \in Kinds : perf'[r] = perf[r] \/ perf'[r] = Torn
        BY <1>1, <2>1
    <2>3. perf'["run"] = perf["run"] \/ perf'["run"] = Torn
        BY <2>2 DEF Kinds
    <2> QED BY <2>2, <2>3 DEF DemoType, IsPerf, Lost
<1> QED BY <1>2, <1>3, <1>4, <1>5, <1>6, <1>7, DemoNothing DEF DemoType

LEMMA DemoCalibrate ==
    ASSUME Shape, session \in {"demo", "toolcall"}, DemoType, DemoTodo, DoCalibrate
    PROVE  DemoType' /\ DemoTodo' /\ DemoDone'
<1>1. todo # <<>> /\ Head(todo).op = "calibrate" /\ todo' = Tail(todo)
    BY DEF DoCalibrate, Is, Rest
<1>2. DemoTodo' /\ DemoDone'
    BY <1>1, SameStands, DemoPlain DEF Building, DoCalibrate
<1>3. /\ text' = text /\ calib' = File(write_calib(text)) /\ quants' = quants /\ expected' = expected
      /\ dir' = dir /\ perf' = perf
    BY DEF DoCalibrate, Same
<1>4. DemoCalib'
    BY <1>3 DEF DemoType, DemoCalib
<1> QED BY <1>2, <1>3, <1>4, DemoKept DEF DemoType

\* A file that loads holds what its writer wrote.
LEMMA LoadsIs ==
    ASSUME DemoType
    PROVE  /\ Loads(calib) => \E t \in Texts : calib.is = write_calib(t)
           /\ Loads(Quant) => Quant.is \in Models
<1>1. Loads(calib) => \E t \in Texts : calib.is = write_calib(t)
    BY FileIs DEF Loads, DemoType, DemoCalib, Lost
<1>2. Loads(Quant) => Quant.is \in Models
    BY FileIs DEF Loads, DemoType, DemoQuant, Lost
<1> QED BY <1>1, <1>2

LEMMA ModelsHave ==
    ASSUME NEW t \in Texts, NEW l \in {Full, Few}
    PROVE  build_quant_model(write_calib(t), l, TRUE) \in Models
<1> DEFINE built(u, k) == build_quant_model(write_calib(u), k, TRUE)
<1>1. Models = {built(u, k) : u \in Texts, k \in {Full, Few}}
    BY DEF Models, Texts
<1> HIDE DEF built
<1>2. built(t, l) \in Models
    BY <1>1
<1> QED BY <1>2 DEF built

LEMMA DemoQuantize ==
    ASSUME Shape, session \in {"demo", "toolcall"}, DemoType, DemoTodo, DoQuantize
    PROVE  DemoType' /\ DemoTodo' /\ DemoDone'
<1>1. todo # <<>> /\ Head(todo).op = "quantize" /\ (todo' = Tail(todo) \/ todo' = <<>>)
    BY DEF DoQuantize, Is, Rest, Fail
<1>2. DemoTodo' /\ DemoDone'
    BY <1>1, SameStands, DemoPlain DEF Building, DoQuantize
<1>3. Head(todo).layers \in {Full, Few} /\ Head(todo).smoothing = TRUE
    BY <1>1, DemoHead DEF Fits
<1>4. /\ text' = text /\ calib' = calib /\ expected' = expected
      /\ dir' = dir /\ perf' = perf
    BY DEF DoQuantize, Same
<1>5. DemoQuant'
    <2> DEFINE m == build_quant_model(calib.is, Head(todo).layers, Head(todo).smoothing)
    <2>1. CASE ~ Loads(calib)
        BY <2>1, DemoKept DEF DoQuantize, DemoType
    <2>2. CASE Loads(calib)
        <3>1. m \in Models
            <4>1. PICK t \in Texts : calib.is = write_calib(t)
                BY <2>2, LoadsIs
            <4> DEFINE y == Head(todo).layers
            <4>2. m = build_quant_model(write_calib(t), y, TRUE) /\ y \in {Full, Few}
                BY <1>3, <4>1
            <4> HIDE DEF m, y
            <4>3. build_quant_model(write_calib(t), y, TRUE) \in Models
                BY <4>2, ModelsHave
            <4> QED BY <4>2, <4>3
        <3>2. default_path(m) = TRUE
            BY <1>3 DEF default_path, build_quant_model
        <3>3. quants' = [quants EXCEPT ![TRUE] = File(m)]
            BY <2>2, <3>2 DEF DoQuantize
        <3> HIDE DEF m
        <3>4. quants = [s \in BOOLEAN |-> quants[s]]
            BY DEF DemoType, DemoQuant
        <3>5. quants' = [s \in BOOLEAN |-> quants'[s]] /\ quants'[TRUE] = File(m)
            BY <3>3, <3>4
        <3> QED BY <3>1, <3>5 DEF DemoQuant, Quant
    <2> QED BY <2>1, <2>2
<1> QED BY <1>2, <1>4, <1>5, DemoKept DEF DemoType

LEMMA DemoGolden ==
    ASSUME Shape, session \in {"demo", "toolcall"}, DemoType, DemoTodo, DoGolden
    PROVE  DemoType' /\ DemoTodo' /\ DemoDone'
<1>1. todo # <<>> /\ Head(todo).op = "golden" /\ (todo' = Tail(todo) \/ todo' = <<>>)
    BY DEF DoGolden, Is, Rest, Fail
<1>2. DemoTodo' /\ DemoDone'
    BY <1>1, SameStands, DemoPlain DEF Building, DoGolden
<1>3. Head(todo).new \in Nat \ {0}
    BY <1>1, DemoHead DEF Fits
<1>4. /\ text' = text /\ calib' = calib /\ quants' = quants
      /\ dir' = dir /\ perf' = perf
    BY DEF DoGolden, Same
<1>5. DemoExpected'
    <2>1. \/ expected' = expected
          \/ Loads(Quant) /\ expected' = File(expected_tokens(Quant.is, text, Head(todo).new))
        BY DEF DoGolden
    <2>2. ASSUME Loads(Quant), expected' = File(expected_tokens(Quant.is, text, Head(todo).new))
          PROVE  DemoExpected'
        <3> DEFINE e == expected_tokens(Quant.is, text, Head(todo).new)
        <3>1. Quant.is \in Models /\ text \in Texts
            BY <2>2, LoadsIs DEF DemoType
        <3>2. IsRecord(e)
            BY <1>3, <3>1 DEF IsRecord
        <3> HIDE DEF e
        <3>3. expected' = File(e)
            BY <2>2 DEF e
        <3>4. expected'.is = e
            BY <3>3, FileIs
        <3> QED BY <3>2, <3>3, <3>4 DEF DemoExpected
    <2> QED BY <2>1, <2>2, DemoKept DEF DemoType
<1> QED BY <1>2, <1>4, <1>5, DemoKept DEF DemoType

\* One step put in a step's place.
LEMMA OneFits ==
    ASSUME NEW x, Fits(x), x.op \in Building
    PROVE  IsSeq(<<x>>) /\ \A i \in 1 .. Len(<<x>>) : Fits(<<x>>[i]) /\ <<x>>[i].op \in Building
<1> DEFINE w == <<x>>
<1>1. IsSeq(w) /\ Len(w) = 1 /\ w[1] = x
    BY OneStep
<1> HIDE DEF w
<1>2. Len(w) = 1
    BY <1>1
<1>3. \A i \in 1 .. Len(w) : i = 1
    BY <1>2
<1>4. \A i \in 1 .. Len(w) : Fits(w[i]) /\ w[i].op \in Building
    BY <1>1, <1>3
<1> QED BY <1>1, <1>4 DEF w

\* A step is left out, or one it takes comes in its place.
LEMMA DemoInstead ==
    ASSUME Shape, session \in {"demo", "toolcall"}, DemoTodo, todo # <<>>, Stands, Head(todo).op \in Building,
           NEW x, Fits(x), x.op \in Building,
           todo' = <<>> \o Tail(todo) \/ todo' = <<x>> \o Tail(todo)
    PROVE  DemoTodo' /\ DemoDone'
<1>1. CASE todo' = <<x>> \o Tail(todo)
    <2> DEFINE w == <<x>>
    <2>1. IsSeq(w) /\ (\A i \in 1 .. Len(w) : Fits(w[i]) /\ w[i].op \in Building) /\ todo' = w \o Tail(todo)
        BY <1>1, OneFits
    <2> HIDE DEF w
    <2> QED BY <2>1, DemoBuilds
<1>2. CASE todo' = <<>> \o Tail(todo)
    <2> DEFINE w == <<>>
    <2>1. IsSeq(w) /\ Len(w) = 0 /\ todo' = w \o Tail(todo)
        BY <1>2, NoSteps
    <2> HIDE DEF w
    <2>2. Len(w) = 0
        BY <2>1
    <2>3. \A i \in 1 .. Len(w) : FALSE
        BY <2>2
    <2> QED BY <2>1, <2>3, DemoBuilds
<1> QED BY <1>1, <1>2

LEMMA DemoEnsureQuant ==
    ASSUME Shape, session \in {"demo", "toolcall"}, DemoType, DemoTodo, EnsureQuant
    PROVE  DemoType' /\ DemoTodo' /\ DemoDone'
<1>1. todo # <<>> /\ Head(todo).op = "ensure quant" /\ text' = text /\ UNCHANGED files /\ Stands
    BY SameStands DEF EnsureQuant, Is, Same
<1> DEFINE x == Quantize(Full, TRUE)
<1>2. Fits(x) /\ x.op \in Building
    BY DEF Fits, Quantize, Building
<1>3. todo' = <<>> \o Tail(todo) \/ todo' = <<x>> \o Tail(todo)
    BY DEF EnsureQuant
<1> HIDE DEF x
<1>4. DemoTodo' /\ DemoDone'
    BY <1>1, <1>2, <1>3, DemoInstead DEF Building
<1> QED BY <1>1, <1>4, DemoSame DEF DemoType

LEMMA DemoEnsureImage ==
    ASSUME Shape, session \in {"demo", "toolcall"}, DemoType, DemoTodo, EnsureImage
    PROVE  DemoType' /\ DemoTodo' /\ DemoDone'
<1>1. todo # <<>> /\ Head(todo).op = "ensure image" /\ text' = text /\ UNCHANGED files /\ Stands
    BY SameStands DEF EnsureImage, Is, Same
<1> DEFINE x == CompileStep(Head(todo).wb, TRUE)
<1>2. Head(todo).wb \in Widths
    BY <1>1, DemoHead DEF Fits
<1>3. Fits(x) /\ x.op \in Building
    BY <1>2 DEF Fits, CompileStep, Building
<1>4. todo' = <<>> \/ todo' = <<>> \o Tail(todo) \/ todo' = <<x>> \o Tail(todo)
    BY DEF EnsureImage, Fail
<1> HIDE DEF x
<1>5. DemoTodo' /\ DemoDone'
    BY <1>1, <1>3, <1>4, DemoInstead, DemoNothing DEF Building
<1> QED BY <1>1, <1>5, DemoSame DEF DemoType

LEMMA DemoCompile ==
    ASSUME Shape, session \in {"demo", "toolcall"}, DemoType, DemoTodo, DoCompile
    PROVE  DemoType' /\ DemoTodo' /\ DemoDone'
<1>1. todo # <<>> /\ Head(todo).op = "compile" /\ text' = text /\ UNCHANGED files /\ Stands
    BY SameStands DEF DoCompile, Is, Same
<1>2. DemoType'
    BY <1>1, DemoSame DEF DemoType
<1>3. Head(todo).wb \in Widths
    BY <1>1, DemoHead DEF Fits
<1>4. CASE ~ Loads(Quant)
    <2>1. todo' = <<>>
        BY <1>4 DEF DoCompile, Fail
    <2>2. DemoTodo' /\ DemoDone'
        BY <2>1, DemoNothing
    <2> QED BY <1>2, <2>2
<1>5. CASE Loads(Quant)
    <2> DEFINE p == IF Head(todo).prompt THEN prompt_tokens(text) ELSE NoPrompt
               b == Build(Quant.is, Head(todo).wb, p)
               w == [i \in DOMAIN WriteOrder(b) |-> [op |-> "write", file |-> WriteOrder(b)[i], build |-> b]]
    <2>1. b \in Compiles
        <3>1. Quant.is \in Models /\ p \in {NoPrompt} \cup Turns
            BY <1>5, LoadsIs DEF DemoType, Turns
        <3> HIDE DEF p
        <3> QED BY <1>3, <3>1 DEF Compiles
    <2>2. todo' = w \o Tail(todo)
        BY <1>5 DEF DoCompile
    <2> HIDE DEF b
    <2>3. /\ IsSeq(w)
          /\ \A i \in 1 .. Len(w) : /\ w[i].op = "write" /\ w[i].file \in FILES /\ w[i].build = b
                                    /\ w[i].file = "prompt" => b.prompt # NoPrompt
        BY WritesAre
    <2> HIDE DEF w
    <2>4. \A i \in 1 .. Len(w) : Fits(w[i]) /\ w[i].op \in Building
        BY <2>1, <2>3 DEF Fits, Building
    <2>5. DemoTodo' /\ DemoDone'
        BY <1>1, <2>2, <2>3, <2>4, DemoBuilds DEF Building
    <2> QED BY <1>2, <2>5
<1> QED BY <1>4, <1>5

LEMMA DemoWrite ==
    ASSUME Shape, session \in {"demo", "toolcall"}, DemoType, DemoTodo, DoWrite
    PROVE  DemoType' /\ DemoTodo' /\ DemoDone'
<1> DEFINE f == Head(todo).file
           b == Head(todo).build
<1>1. todo # <<>> /\ Head(todo).op = "write" /\ (todo' = Tail(todo) \/ todo' = <<>>)
    BY DEF DoWrite, Is, Rest, Fail
<1>2. DemoTodo' /\ DemoDone'
    BY <1>1, SameStands, DemoPlain DEF Building, DoWrite
<1>3. f \in FILES /\ b \in Compiles /\ (f = "prompt" => b.prompt # NoPrompt)
    BY <1>1, DemoHead DEF Fits
<1>4. /\ text' = text /\ calib' = calib /\ quants' = quants /\ expected' = expected
      /\ perf' = perf
    BY DEF DoWrite, Same
<1>5. \/ dir' = dir
      \/ f = "layout" /\ expected # Torn /\ dir' = [dir EXCEPT !["layout"] = File(Layout(b, expected))]
      \/ f # "layout" /\ dir' = [dir EXCEPT ![f] = File(Content(f, b))]
    BY DEF DoWrite
<1> HIDE DEF f, b
<1>6. b.m \in Models /\ b.wb \in Widths /\ (b.prompt = NoPrompt \/ b.prompt \in Turns)
    BY <1>3, CompileIs
<1>7. dir = [g \in FILES |-> dir[g]] /\ {"image", "prompt", "layout"} \subseteq FILES
    BY DEF DemoType, IsDir, FILES
<1>8. ASSUME f = "layout", expected # Torn, dir' = [dir EXCEPT !["layout"] = File(Layout(b, expected))]
      PROVE  IsDir(dir')
    <2> DEFINE l == Layout(b, expected)
    <2>1. IsLayout(l)
        <3>1. expected = Absent \/ (expected = File(expected.is) /\ IsRecord(expected.is))
            BY <1>8 DEF DemoType, DemoExpected, Lost
        <3>2. CASE expected = Absent
            BY <1>3, <3>2 DEF IsLayout
        <3>3. CASE expected = File(expected.is) /\ IsRecord(expected.is)
            <4>1. PICK m \in Models, t \in Texts : \E n \in Nat \ {0} : expected.is = expected_tokens(m, t, n)
                BY <3>3 DEF IsRecord
            <4>2. PICK n \in Nat \ {0} : expected.is = expected_tokens(m, t, n)
                BY <4>1
            <4>3. l = Layout(b, File(expected_tokens(m, t, n)))
                BY <3>3, <4>2
            <4> QED BY <1>3, <4>3 DEF IsLayout
        <3> QED BY <3>1, <3>2, <3>3
    <2> HIDE DEF l
    <2>2. /\ dir' = [g \in FILES |-> dir'[g]] /\ dir'["layout"] = File(l)
          /\ dir'["image"] = dir["image"] /\ dir'["prompt"] = dir["prompt"]
        BY <1>7, <1>8 DEF l
    <2>3. dir'["layout"].is = l
        BY <2>2, FileIs
    <2> QED BY <2>1, <2>2, <2>3 DEF DemoType, IsDir
<1>9. ASSUME f # "layout", dir' = [dir EXCEPT ![f] = File(Content(f, b))]
      PROVE  IsDir(dir')
    <2> DEFINE c == Content(f, b)
    <2>1. f = "image" => c \in Images
        BY <1>6 DEF Content, Images
    <2>2. f = "prompt" => c \in Turns
        BY <1>3, <1>6 DEF Content
    <2> HIDE DEF c
    <2>3. dir' = [g \in FILES |-> IF g = f THEN File(c) ELSE dir[g]]
        BY <1>7, <1>9 DEF c
    <2>4. /\ dir' = [g \in FILES |-> dir'[g]] /\ dir'["layout"] = dir["layout"]
          /\ dir'["image"] = IF f = "image" THEN File(c) ELSE dir["image"]
          /\ dir'["prompt"] = IF f = "prompt" THEN File(c) ELSE dir["prompt"]
        BY <1>7, <1>9, <2>3
    <2> QED BY <2>1, <2>2, <2>4 DEF DemoType, IsDir
<1>10. IsDir(dir')
    BY <1>5, <1>8, <1>9 DEF DemoType
<1> QED BY <1>2, <1>4, <1>10, DemoKept DEF DemoType

-----------------------------------------------------------------------------
(* Running *)

\* A record is written over that of an earlier run of its kind.
LEMMA WroteIs ==
    ASSUME IsPerf(perf), NEW r \in Kinds, NEW x, r = "run" => IsRun(x), Wrote(r, x)
    PROVE  IsPerf(perf') /\ perf'[r] = File(x) /\ \A k \in Kinds \ {r} : perf'[k] = perf[k]
<1>1. perf = [k \in Kinds |-> perf[k]]
    BY DEF IsPerf
<1>2. perf' = [perf EXCEPT ![r] = File(x)]
    BY DEF Wrote
<1>3. perf' = [k \in Kinds |-> IF k = r THEN File(x) ELSE perf[k]]
    BY <1>1, <1>2
<1>4. File(x) = File(File(x).is) /\ File(x).is = x
    BY FileIs
<1>5. perf' = [k \in Kinds |-> perf'[k]]
    BY <1>3
<1>6. perf'["run"] = perf["run"] \/ (IsRun(x) /\ perf'["run"] = File(x))
    BY <1>3 DEF Kinds
<1>7. perf'[r] = File(x) /\ \A k \in Kinds \ {r} : perf'[k] = perf[k]
    BY <1>3
<1> QED BY <1>4, <1>5, <1>6, <1>7 DEF IsPerf

\* What is left by a run stands while the directory and its record do.
LEMMA RunsStand ==
    ASSUME dir' = dir, NEW c, NEW n
    PROVE  Runs(c, n)' = Runs(c, n)
<1>1. Prompt' = Prompt
    BY DEF Prompt
<1> QED BY <1>1 DEF Runs

\* The one state a run of a script is of: the directory, the saved turn, its record.
LEMMA RanNext ==
    ASSUME dir' = dir, NEW r, NEW c, NEW n \in Nat \ {0}, NEW x \in Runs(c, n), perf'[r] = File(x)
    PROVE  Ran(r, c)'
<1>1. x \in Runs(c, n)'
    BY RunsStand
<1> QED BY <1>1 DEF Ran

\* What a script of the prefix demo has left when a step of it is done.
LEMMA SavedStands ==
    ASSUME SavedTurn, dir' = dir, prefix' = prefix, perf'["prefix"] = perf["prefix"]
    PROVE  SavedTurn' /\ Cut' = Cut /\ Prompt' = Prompt
<1>1. Cut' = Cut /\ Prompt' = Prompt
    BY DEF Cut, Prompt
<1> QED BY <1>1 DEF SavedTurn

LEMMA RanHere ==
    ASSUME dir' = dir, prefix' = prefix, NEW n \in Nat \ {0}, NEW x \in Runs(Cut, n), perf'["run"] = File(x)
    PROVE  Ran("run", Cut)'
<1> DEFINE c == Cut
<1>1. x \in Runs(c, n)
    OBVIOUS
<1>2. Cut' = c
    BY DEF Cut
<1>3. Runs(Cut, n)' = Runs(c, n)
    <2>1. Prompt' = Prompt
        BY DEF Prompt
    <2> QED BY <1>2, <2>1 DEF Runs
<1>4. x \in Runs(Cut, n)'
    BY <1>1, <1>3
<1> QED BY <1>4 DEF Ran

LEMMA RanStands ==
    ASSUME dir' = dir, prefix' = prefix, perf'["run"] = perf["run"], Ran("run", Cut)
    PROVE  Ran("run", Cut)'
<1>1. PICK n \in Nat \ {0} : \E x \in Runs(Cut, n) : perf["run"] = File(x)
    BY DEF Ran
<1>2. PICK x \in Runs(Cut, n) : perf'["run"] = File(x)
    BY <1>1
<1> QED BY <1>2, RanHere

LEMMA ToolcallDone ==
    ASSUME session' = "toolcall", NEW n \in Nat, n = Len(todo'), n <= 4 => SavedTurn',
           n <= 3 => (Cut < Len(Prompt))', n <= 2 => Ran("run", Cut)', n = 1 => Ran("baseline", 0)'
    PROVE  DemoDone'
BY DEF DemoDone

\* The place of a step in its script, and what is left when it is done.
LEMMA PlaceHead ==
    ASSUME Shape, session \in {"demo", "toolcall"}, DemoTodo, todo # <<>>
    PROVE  LET l == Len(todo)
               op == Head(todo).op
           IN /\ l \in Nat \ {0}
              /\ op = "run" => measured = OwnRun /\ session = "demo" /\ l = 2
              /\ op = "save" => measured = OwnRun /\ session = "toolcall" /\ l = 5
              /\ op = "check header" => measured = OwnRun /\ session = "toolcall" /\ l = 4
              /\ op = "reuse" => measured = OwnRun /\ session = "toolcall" /\ l = 3
              /\ op = "baseline" => measured = OwnRun /\ session = "toolcall" /\ l = 2
              /\ op = "report" /\ measured = OwnRun => l = 1
<1> DEFINE l == Len(todo)
           op == Head(todo).op
           k == l - 1
<1>1. l \in Nat \ {0} /\ k \in Nat /\ op \in OpsBefore(measured, session, k)
    BY DemoHead
<1>2. /\ op = "run" => measured = OwnRun /\ session = "demo" /\ k = 1
      /\ op = "save" => measured = OwnRun /\ session = "toolcall" /\ k = 4
      /\ op = "check header" => measured = OwnRun /\ session = "toolcall" /\ k = 3
      /\ op = "reuse" => measured = OwnRun /\ session = "toolcall" /\ k = 2
      /\ op = "baseline" => measured = OwnRun /\ session = "toolcall" /\ k = 1
      /\ op = "report" /\ measured = OwnRun => k = 0
    BY <1>1, PlaceOf
<1> HIDE DEF l, op
<1>3. (k = 0 => l = 1) /\ (k = 1 => l = 2) /\ (k = 2 => l = 3) /\ (k = 3 => l = 4) /\ (k = 4 => l = 5)
    BY <1>1
<1> QED BY <1>1, <1>2, <1>3 DEF l, op

LEMMA DemoRun ==
    ASSUME Shape, session \in {"demo", "toolcall"}, DemoType, DemoTodo, DoRun
    PROVE  DemoType' /\ DemoTodo' /\ DemoDone'
<1> DEFINE n == Head(todo).new
<1>1. todo # <<>> /\ Head(todo).op = "run" /\ (todo' = Tail(todo) \/ todo' = <<>>) /\ Stands
    BY SameStands DEF DoRun, Is, Rest, Fail
<1>2. measured = OwnRun /\ session = "demo" /\ Len(todo) = 2
    BY <1>1, PlaceHead
<1>3. n \in Nat \ {0}
    BY <1>1, DemoHead DEF Fits
<1>4. text' = text /\ calib' = calib /\ quants' = quants /\ expected' = expected /\ dir' = dir
    BY DEF DoRun, Same
<1>5. \/ ~ Starts(dir) /\ perf' = perf
      \/ Starts(dir) /\ \E record \in Runs(0, n) : Wrote("run", record)
    BY DEF DoRun
<1> HIDE DEF n
<1>6. ASSUME NEW x \in Runs(0, n), Wrote("run", x)
      PROVE  IsPerf(perf') /\ Ran("run", 0)'
    <2>1. IsRun(x)
        BY <1>3, RunIs
    <2>2. IsPerf(perf') /\ perf'["run"] = File(x)
        BY <1>6, <2>1, WroteIs DEF DemoType, Kinds
    <2> QED BY <1>3, <1>4, <2>2, RanNext
<1>7. IsPerf(perf') /\ (Starts(dir) => Ran("run", 0)')
    BY <1>5, <1>6 DEF DemoType
<1>8. DemoTodo' /\ DemoDone'
    <2>1. CASE todo' = <<>>
        BY <2>1, DemoNothing
    <2>2. CASE todo' = Tail(todo)
        <3>1. DemoTodo'
            BY <1>1, <2>2, DemoShorter
        <3>2. session' = "demo"
            BY <1>1, <1>2 DEF Stands
        <3>3. DemoDone'
            BY <1>4, <1>7, <3>2 DEF DemoDone
        <3> QED BY <3>1, <3>3
    <2> QED BY <1>1, <2>1, <2>2
<1> QED BY <1>4, <1>7, <1>8, DemoKept DEF DemoType

-----------------------------------------------------------------------------
(* Saving and restoring a first turn *)

LEMMA FirstTurn ==
    ASSUME NEW p \in Prompts, first_turn(p) > 0
    PROVE  first_turn(p) \in 1 .. Len(p)
<1> DEFINE I == {i \in 1 .. Len(p) : p[i] = EosId}
<1>1. IsSeq(p) /\ (p \in Turns \/ p = <<EosId>> \/ p = <<0>>)
    BY PromptIs
<1>2. first_turn(p) = IF EosId \in Range(p) THEN (IF I # {} THEN Min(I) ELSE 0) ELSE 0
    BY DEF first_turn, SelectInSeq
<1>3. EosId \in Range(p) /\ first_turn(p) = Min(I)
    BY <1>2
<1>4. ASSUME NEW n \in Nat, I = {n} PROVE first_turn(p) = n
    BY <1>3, <1>4 DEF Min
<1>5. ASSUME p \in Turns PROVE first_turn(p) = 2 /\ Len(p) = 4
    <2>1. Len(p) = 4 /\ p[1] \in {0, 1} /\ p[2] = 9 /\ p[3] = 2 /\ p[4] = 3
        BY <1>5, TurnIs DEF Texts, EosId
    <2>2. I = {2}
        <3>1. \A i \in 1 .. Len(p) : i \in {1, 2, 3, 4}
            BY <2>1
        <3>2. 2 \in 1 .. Len(p)
            BY <2>1
        <3> QED BY <2>1, <3>1, <3>2 DEF EosId
    <2> QED BY <1>4, <2>1, <2>2
<1>6. ASSUME p = <<EosId>> PROVE first_turn(p) = 1 /\ Len(p) = 1
    <2>1. Len(p) = 1 /\ p[1] = EosId
        BY <1>6
    <2>2. I = {1}
        <3>1. \A i \in 1 .. Len(p) : i = 1
            BY <2>1
        <3> QED BY <2>1, <3>1
    <2> QED BY <1>4, <2>1, <2>2
<1>7. p # <<0>>
    <2> DEFINE z == <<0>>
    <2> SUFFICES ASSUME p = z PROVE FALSE
        OBVIOUS
    <2>1. DOMAIN p = {1} /\ p[1] = 0
        OBVIOUS
    <2>2. EosId \notin Range(p)
        BY <2>1 DEF Range, EosId
    <2> QED BY <1>3, <2>2
<1>8. ASSUME p \in Turns PROVE first_turn(p) \in 1 .. Len(p)
    <2>1. first_turn(p) = 2 /\ Len(p) = 4
        BY <1>5, <1>8
    <2> QED BY <2>1
<1>9. ASSUME p = <<EosId>> PROVE first_turn(p) \in 1 .. Len(p)
    <2>1. first_turn(p) = 1 /\ Len(p) = 1
        BY <1>6, <1>9
    <2> QED BY <2>1
<1> QED BY <1>1, <1>7, <1>8, <1>9

\* What the steps of the prefix demo that are done have left when so many are to come.
LEMMA ToolcallDid ==
    ASSUME Shape, DemoDone, measured = OwnRun, session = "toolcall", todo # <<>>
    PROVE  /\ Len(todo) = 4 => SavedTurn
           /\ Len(todo) = 3 => SavedTurn /\ Cut < Len(Prompt)
           /\ Len(todo) = 2 => SavedTurn /\ Cut < Len(Prompt) /\ Ran("run", Cut)
<1> DEFINE l == Len(todo)
<1>1. /\ l <= 4 => SavedTurn
      /\ l <= 3 => Cut < Len(Prompt)
      /\ l <= 2 => Ran("run", Cut)
    BY DEF DemoDone
<1> HIDE DEF l
<1>2. /\ l = 4 => SavedTurn
      /\ l = 3 => SavedTurn /\ Cut < Len(Prompt)
      /\ l = 2 => SavedTurn /\ Cut < Len(Prompt) /\ Ran("run", Cut)
    BY <1>1
<1> QED BY <1>2 DEF l

LEMMA DemoSave ==
    ASSUME Shape, session \in {"demo", "toolcall"}, DemoType, DemoTodo, DoSave
    PROVE  DemoType' /\ DemoTodo' /\ DemoDone'
<1> DEFINE cut == first_turn(Prompt)
           ids == SubSeq(Prompt, 1, cut)
           x == Perf(dir, ids, 0, cut, 0, "right", <<>>)
           h == Header(dir, ids)
<1>1. todo # <<>> /\ Head(todo).op = "save" /\ Stands
    BY SameStands DEF DoSave, Is
<1>2. measured = OwnRun /\ session = "toolcall" /\ Len(todo) = 5
    BY <1>1, PlaceHead
<1>3. text' = text /\ calib' = calib /\ quants' = quants /\ expected' = expected /\ dir' = dir
    BY DEF DoSave, Same
<1>4. \/ todo' = <<>> /\ perf' = perf
      \/ todo' = Tail(todo) /\ Starts(dir) /\ cut > 0 /\ Wrote("prefix", x) /\ prefix' = File(h)
    BY DEF DoSave, Rest, Fail
<1>5. CASE todo' = <<>> /\ perf' = perf
    BY <1>3, <1>5, DemoNothing, DemoKept DEF DemoType
<1>6. ASSUME todo' = Tail(todo), Starts(dir), cut > 0, Wrote("prefix", x), prefix' = File(h)
      PROVE  DemoType' /\ DemoTodo' /\ DemoDone'
    <2>1. Prompt \in Prompts /\ IsSeq(Prompt) /\ Len(Prompt) \in Nat
        BY PromptOf, PromptIs
    <2>2. cut \in 1 .. Len(Prompt)
        BY <1>6, <2>1, FirstTurn
    <2>3. Len(ids) = cut
        BY <2>1, <2>2, FirstOf
    <2>4. Whole(prefix') /\ prefix'.is = h
        BY <1>6, WrittenIs
    <2>5. h.ids = ids
        BY DEF Header
    <2>6. "prefix" = "run" => IsRun(x)
        OBVIOUS
    <2>7. IsPerf(perf') /\ perf'["prefix"] = File(x)
        BY <1>6, <2>6, WroteIs DEF DemoType, Kinds
    <2>8. Prompt' = Prompt
        BY <1>3 DEF Prompt
    <2>9. Cut' = cut
        BY <2>3, <2>4, <2>5 DEF Cut
    <2> HIDE DEF h
    <2>10. SavedTurn'
        BY <1>3, <1>6, <2>2, <2>4, <2>7, <2>8, <2>9 DEF SavedTurn
    <2>11. DemoTodo' /\ Len(todo') = 4
        BY <1>1, <1>2, <1>6, DemoShorter
    <2>12. DemoDone'
        BY <1>1, <1>2, <2>10, <2>11, ToolcallDone DEF Stands
    <2> QED BY <1>3, <2>7, <2>11, <2>12, DemoKept DEF DemoType
<1> QED BY <1>4, <1>5, <1>6

\* The header that passes is of fewer ids than this prompt has.
LEMMA DemoCheck ==
    ASSUME Shape, session \in {"demo", "toolcall"}, DemoType, DemoTodo, DemoDone, CheckHeader
    PROVE  DemoType' /\ DemoTodo' /\ DemoDone'
<1>1. todo # <<>> /\ Head(todo).op = "check header" /\ text' = text /\ Stands
    BY SameStands DEF CheckHeader, Is, Same
<1>2. UNCHANGED files
    BY DEF CheckHeader
<1>3. todo' = <<>> \/ (todo' = Tail(todo) /\ ~ check_header(prefix.is, dir["layout"].is, Prompt))
    BY DEF CheckHeader, Rest, Fail
<1>4. measured = OwnRun /\ session = "toolcall" /\ Len(todo) = 4
    BY <1>1, PlaceHead
<1>5. DemoType'
    BY <1>1, <1>2, DemoSame DEF DemoType
<1>6. CASE todo' = <<>>
    BY <1>5, <1>6, DemoNothing
<1>7. ASSUME todo' = Tail(todo), ~ check_header(prefix.is, dir["layout"].is, Prompt)
      PROVE  DemoTodo' /\ DemoDone'
    <2>1. SavedTurn
        BY <1>1, <1>4, ToolcallDid
    <2>2. Cut \in 1 .. Len(Prompt) /\ Len(Prompt) \in Nat
        BY <2>1, PromptOf, PromptIs DEF SavedTurn
    <2>3. ~ (Cut >= Len(Prompt))
        BY <1>7 DEF check_header, Cut
    <2>4. Cut < Len(Prompt)
        BY <2>2, <2>3
    <2>5. SavedTurn' /\ Cut' = Cut /\ Prompt' = Prompt
        BY <1>2, <2>1, SavedStands DEF files
    <2>6. DemoTodo' /\ Len(todo') = Len(todo) - 1
        BY <1>1, <1>7, DemoShorter
    <2>7. Len(todo') = 3
        BY <1>4, <2>6
    <2>8. (Cut < Len(Prompt))'
        BY <2>4, <2>5
    <2>9. session' = "toolcall"
        BY <1>1, <1>4 DEF Stands
    <2>10. DemoDone'
        BY <2>5, <2>7, <2>8, <2>9, ToolcallDone
    <2> QED BY <2>6, <2>10
<1> QED BY <1>3, <1>5, <1>6, <1>7

LEMMA DemoReuse ==
    ASSUME Shape, session \in {"demo", "toolcall"}, DemoType, DemoTodo, DemoDone, DoReuse
    PROVE  DemoType' /\ DemoTodo' /\ DemoDone'
<1> DEFINE c == Cut
           n == Head(todo).new
<1>1. todo # <<>> /\ Head(todo).op = "reuse" /\ (todo' = Tail(todo) \/ todo' = <<>>) /\ Stands
    BY SameStands DEF DoReuse, Is, RunOrRaise, Rest, Fail
<1>2. measured = OwnRun /\ session = "toolcall" /\ Len(todo) = 3
    BY <1>1, PlaceHead
<1>3. text' = text /\ calib' = calib /\ quants' = quants /\ expected' = expected /\ dir' = dir /\ prefix' = prefix
    BY DEF DoReuse, Same
<1>4. n \in Nat \ {0}
    BY <1>1, DemoHead DEF Fits
<1>5. PICK x \in Runs(c, n) : Wrote("run", x)
    BY DEF DoReuse, RunOrRaise, Cut
<1>6. SavedTurn /\ Cut < Len(Prompt)
    BY <1>1, <1>2, ToolcallDid
<1>7. IsPerf(perf') /\ perf'["run"] = File(x) /\ perf'["prefix"] = perf["prefix"]
    <2>1. IsRun(x)
        BY <1>4, <1>5, RunIs
    <2> QED BY <1>5, <2>1, WroteIs DEF DemoType, Kinds
<1>8. SavedTurn' /\ Cut' = Cut /\ Prompt' = Prompt
    BY <1>3, <1>6, <1>7, SavedStands
<1>9. Ran("run", Cut)'
    BY <1>3, <1>4, <1>5, <1>7, RanHere
<1>10. (Cut < Len(Prompt))'
    BY <1>6, <1>8
<1>11. DemoTodo' /\ DemoDone'
    <2>1. CASE todo' = <<>>
        BY <2>1, DemoNothing
    <2>2. CASE todo' = Tail(todo)
        <3>1. DemoTodo' /\ Len(todo') = 2
            BY <1>1, <1>2, <2>2, DemoShorter
        <3>2. DemoDone'
            BY <1>1, <1>2, <1>8, <1>9, <1>10, <3>1, ToolcallDone DEF Stands
        <3> QED BY <3>1, <3>2
    <2> QED BY <1>1, <2>1, <2>2
<1> QED BY <1>3, <1>7, <1>11, DemoKept DEF DemoType

LEMMA DemoBaseline ==
    ASSUME Shape, session \in {"demo", "toolcall"}, DemoType, DemoTodo, DemoDone, DoBaseline
    PROVE  DemoType' /\ DemoTodo' /\ DemoDone'
<1> DEFINE n == Head(todo).new
<1>1. todo # <<>> /\ Head(todo).op = "baseline" /\ (todo' = Tail(todo) \/ todo' = <<>>) /\ Stands
    BY SameStands DEF DoBaseline, Is, RunOrRaise, Rest, Fail
<1>2. measured = OwnRun /\ session = "toolcall" /\ Len(todo) = 2
    BY <1>1, PlaceHead
<1>3. text' = text /\ calib' = calib /\ quants' = quants /\ expected' = expected /\ dir' = dir /\ prefix' = prefix
    BY DEF DoBaseline, Same
<1>4. n \in Nat \ {0}
    BY <1>1, DemoHead DEF Fits
<1>5. PICK x \in Runs(0, n) : Wrote("baseline", x)
    BY DEF DoBaseline, RunOrRaise
<1>6. SavedTurn /\ Cut < Len(Prompt) /\ Ran("run", Cut)
    BY <1>1, <1>2, ToolcallDid
<1>7. IsPerf(perf') /\ perf'["baseline"] = File(x) /\ perf'["prefix"] = perf["prefix"] /\ perf'["run"] = perf["run"]
    BY <1>5, WroteIs DEF DemoType, Kinds
<1>8. SavedTurn' /\ Cut' = Cut /\ Prompt' = Prompt
    BY <1>3, <1>6, <1>7, SavedStands
<1>9. Ran("run", Cut)'
    BY <1>3, <1>6, <1>7, RanStands
<1>10. Ran("baseline", 0)'
    BY <1>3, <1>4, <1>5, <1>7, RanNext
<1>11. (Cut < Len(Prompt))'
    BY <1>6, <1>8
<1>12. DemoTodo' /\ DemoDone'
    <2>1. CASE todo' = <<>>
        BY <2>1, DemoNothing
    <2>2. CASE todo' = Tail(todo)
        <3>1. DemoTodo' /\ Len(todo') = 1
            BY <1>1, <1>2, <2>2, DemoShorter
        <3>2. DemoDone'
            BY <1>1, <1>2, <1>8, <1>9, <1>10, <1>11, <3>1, ToolcallDone DEF Stands
        <3> QED BY <3>1, <3>2
    <2> QED BY <1>1, <2>1, <2>2
<1> QED BY <1>3, <1>7, <1>12, DemoKept DEF DemoType

\* The report reads what its script has done, or what is there.
LEMMA DemoReport ==
    ASSUME Shape, session \in {"demo", "toolcall"}, DemoType, DemoTodo, DemoDone, DoReport
    PROVE  DemoType' /\ DemoTodo' /\ DemoDone' /\ DemoReportsItsRun' /\ DemoOkIsGolden'
<1>1. /\ todo # <<>> /\ Head(todo).op = "report" /\ Stands
      /\ todo' = <<>> /\ text' = text /\ UNCHANGED files /\ session' = session /\ measured' = measured
    BY SameStands DEF DoReport, Same, Is, figures
<1>2. verdict' = IF Reported THEN "demo ok" ELSE "demo failed"
    BY DEF DoReport, Reported
<1>3. measured = OwnRun => Own
    <2>1. measured = OwnRun => Len(todo) = 1
        BY <1>1, PlaceHead
    <2> QED BY <1>1, <2>1 DEF DemoDone, Own
<1>4. measured = OwnRun => (Reported <=> Exact)
    BY <1>3, ReportExact
<1>5. Exact' <=> Exact
    BY <1>1 DEF Exact, OneBuild, RunOfIt, GoldenOfIt, ReuseOfIt, files
<1>6. DemoReportsItsRun'
    BY <1>1, <1>2, <1>4, <1>5 DEF DemoReportsItsRun, Exact
<1>7. DemoOkIsGolden'
    <2>1. GoldenIds' <=> GoldenIds
        BY <1>1 DEF GoldenIds, files
    <2>2. Reported => GoldenIds
        BY GoldenOk DEF Reported
    <2>3. GoldenIds' \/ verdict' # "demo ok"
        BY <1>2, <2>1, <2>2
    <2> QED BY <2>3 DEF DemoOkIsGolden, GoldenIds
<1>8. DemoType'
    BY <1>1, DemoSame DEF DemoType
<1> QED BY <1>1, <1>6, <1>7, <1>8, DemoNothing

-----------------------------------------------------------------------------
(* The commands a demo starts *)

\* A command by hand is one step, and has run nothing of its own.
LEMMA OneFree ==
    ASSUME NEW x, Fits(x), x.op \in Building \cup {"report"}, todo' = <<x>>, measured' # OwnRun
    PROVE  DemoTodo' /\ DemoDone'
<1> DEFINE w == <<x>>
<1>1. Len(w) = 1 /\ w[1] = x
    BY OneStep
<1>2. todo' = w
    OBVIOUS
<1> HIDE DEF w
<1>3. \A i \in Steps' : todo'[i] = x
    BY <1>1, <1>2 DEF Steps
<1>4. \A k : OpsBefore(measured', session', k) = Building \cup {"report"}
    BY DEF OpsBefore
<1>5. DemoTodo'
    BY <1>3, <1>4 DEF DemoTodo
<1>6. DemoDone'
    BY DEF DemoDone
<1> QED BY <1>5, <1>6

LEMMA EnsureFits ==
    ASSUME NEW a, NEW wb \in Widths, NEW f, a = [op |-> "ensure image", wb |-> wb, fresh |-> f]
    PROVE  Fits(a)
BY DEF Fits

LEMMA RunFits ==
    ASSUME NEW a, NEW n \in Nat \ {0}, NEW o \in {"run", "reuse", "baseline"}, a = [op |-> o, new |-> n]
    PROVE  Fits(a)
<1>1. a.new = n /\ a.op = o
    OBVIOUS
<1> QED BY <1>1 DEF Fits

LEMMA PlainFits ==
    ASSUME NEW a, NEW o \in {"ensure quant", "save", "check header", "report", "calibrate"}, a.op = o
    PROVE  Fits(a)
<1>1. o \notin {"quantize", "compile", "ensure image", "golden", "run", "reuse", "baseline", "write"}
    OBVIOUS
<1> QED BY <1>1 DEF Fits

LEMMA DemoScriptIs ==
    ASSUME NEW c, NEW wb \in Widths, NEW n \in Nat \ {0}, NEW f, IsDemoScript(c, wb, n, f), todo' = c,
           session' = "demo", measured' = OwnRun
    PROVE  DemoTodo' /\ DemoDone'
<1> DEFINE Ok(i, k) == Fits(c[i]) /\ c[i].op \in DemoOps(k)
<1>0. Len(c) = 4
    BY DEF IsDemoScript
<1>1. c[1].op = "ensure quant" /\ c[2].op = "ensure image" /\ c[3].op = "run" /\ c[4].op = "report"
    BY DEF IsDemoScript
<1>2. Fits(c[1])
    BY <1>1, PlainFits
<1>3. Fits(c[4])
    BY <1>1, PlainFits
<1>4. Fits(c[2]) /\ Fits(c[3])
    <2>1. c[2] = [op |-> "ensure image", wb |-> wb, fresh |-> f] /\ c[3] = [op |-> "run", new |-> n]
        BY DEF IsDemoScript
    <2>2. Fits(c[2])
        BY <2>1, EnsureFits
    <2>3. Fits(c[3])
        BY <2>1, RunFits
    <2> QED BY <2>2, <2>3
<1>5. Ok(1, 3) /\ Ok(2, 2) /\ Ok(3, 1) /\ Ok(4, 0)
    <2>1. /\ "ensure quant" \in DemoOps(3) /\ "ensure image" \in DemoOps(2)
          /\ "run" \in DemoOps(1) /\ "report" \in DemoOps(0)
        BY DEF DemoOps, Building
    <2> QED BY <1>1, <1>2, <1>3, <1>4, <2>1
<1> HIDE DEF Ok
<1>6. ASSUME NEW i \in 1 .. 4 PROVE Ok(i, 4 - i)
    <2>1. i = 1 \/ i = 2 \/ i = 3 \/ i = 4
        OBVIOUS
    <2> QED BY <1>5, <2>1
<1>7. \A i \in 1 .. 4 : Fits(c[i]) /\ c[i].op \in OpsBefore(OwnRun, "demo", 4 - i)
    BY <1>6 DEF Ok, OpsBefore
<1>8. DemoTodo'
    BY <1>0, <1>7 DEF DemoTodo, Steps
<1>9. Len(todo') # 1
    BY <1>0
<1>10. DemoDone'
    BY <1>9 DEF DemoDone
<1> QED BY <1>8, <1>10

LEMMA ToolcallScriptIs ==
    ASSUME NEW c, NEW wb \in Widths, NEW n \in Nat \ {0}, NEW f, IsToolcallScript(c, wb, n, f), todo' = c,
           session' = "toolcall", measured' = OwnRun
    PROVE  DemoTodo' /\ DemoDone'
<1> DEFINE Ok(i, k) == Fits(c[i]) /\ c[i].op \in ToolcallOps(k)
<1>0. Len(c) = 7
    BY DEF IsToolcallScript
<1>1. /\ c[1].op = "ensure quant" /\ c[2].op = "ensure image" /\ c[3].op = "save" /\ c[4].op = "check header"
      /\ c[5].op = "reuse" /\ c[6].op = "baseline" /\ c[7].op = "report"
    BY DEF IsToolcallScript
<1>2. Fits(c[1]) /\ Fits(c[3]) /\ Fits(c[4]) /\ Fits(c[7])
    <2>1. Fits(c[1])
        BY <1>1, PlainFits
    <2>2. Fits(c[3])
        BY <1>1, PlainFits
    <2>3. Fits(c[4])
        BY <1>1, PlainFits
    <2>4. Fits(c[7])
        BY <1>1, PlainFits
    <2> QED BY <2>1, <2>2, <2>3, <2>4
<1>3. Fits(c[2])
    <2>1. c[2] = [op |-> "ensure image", wb |-> wb, fresh |-> f]
        BY DEF IsToolcallScript
    <2> QED BY <2>1, EnsureFits
<1>4. Fits(c[5]) /\ Fits(c[6])
    <2>1. c[5] = [op |-> "reuse", new |-> n] /\ c[6] = [op |-> "baseline", new |-> n]
        BY DEF IsToolcallScript
    <2> QED BY <2>1, RunFits
<1>5. Ok(1, 6) /\ Ok(2, 5) /\ Ok(3, 4) /\ Ok(4, 3) /\ Ok(5, 2) /\ Ok(6, 1) /\ Ok(7, 0)
    <2>1. /\ "ensure quant" \in ToolcallOps(6) /\ "ensure image" \in ToolcallOps(5) /\ "save" \in ToolcallOps(4)
          /\ "check header" \in ToolcallOps(3) /\ "reuse" \in ToolcallOps(2) /\ "baseline" \in ToolcallOps(1)
          /\ "report" \in ToolcallOps(0)
        BY DEF ToolcallOps, Building
    <2> QED BY <1>1, <1>2, <1>3, <1>4, <2>1
<1> HIDE DEF Ok
<1>6. ASSUME NEW i \in 1 .. 7 PROVE Ok(i, 7 - i)
    <2>1. i = 1 \/ i = 2 \/ i = 3 \/ i = 4 \/ i = 5 \/ i = 6 \/ i = 7
        OBVIOUS
    <2> QED BY <1>5, <2>1
<1>7. \A i \in 1 .. 7 : Fits(c[i]) /\ c[i].op \in OpsBefore(OwnRun, "toolcall", 7 - i)
    BY <1>6 DEF Ok, OpsBefore
<1>8. DemoTodo'
    BY <1>0, <1>7 DEF DemoTodo, Steps
<1>9. Len(todo') = 7
    BY <1>0
<1>10. DemoDone'
    BY <1>9 DEF DemoDone
<1> QED BY <1>8, <1>10

LEMMA DemoStart ==
    ASSUME DemoType, session \in {"demo", "toolcall"}, Start
    PROVE  DemoType' /\ DemoTodo' /\ DemoDone'
<1>1. text' = text /\ UNCHANGED files /\ todo' \in Commands /\ session' = session
    BY DEF Start
<1>2. measured' = IF Len(todo') > 1 THEN OwnRun ELSE NoneMeasured
    BY DEF Start
<1>3. DemoType'
    BY <1>1, DemoSame DEF DemoType
<1>4. ASSUME NEW x, todo' = <<x>>, Fits(x), x.op \in Building \cup {"report"}
      PROVE  DemoTodo' /\ DemoDone'
    <2>1. Len(todo') = 1
        BY <1>4, OneStep
    <2>2. NoneMeasured # OwnRun
        <3>1. NoneMeasured.of = "nothing" /\ OwnRun.of = "its own run"
            BY DEF OwnRun, NoneMeasured
        <3> QED BY <3>1
    <2>3. measured' # OwnRun
        BY <1>2, <2>1, <2>2
    <2> QED BY <1>4, <2>3, OneFree
<1>5. ASSUME NEW o \in {"calibrate", "report"}, todo' = <<Step(o)>>
      PROVE  DemoTodo' /\ DemoDone'
    <2> DEFINE x == Step(o)
    <2>1. x.op = o
        BY DEF Step
    <2> HIDE DEF x
    <2>2. Fits(x)
        BY <2>1, PlainFits
    <2>3. x.op \in Building \cup {"report"}
        BY <2>1 DEF Building
    <2> QED BY <1>4, <1>5, <2>2, <2>3 DEF x
<1>6. ASSUME session = "demo" PROVE DemoTodo' /\ DemoDone'
    <2> DEFINE A == {<<Step("calibrate")>>, <<Quantize(Few, TRUE)>>, <<Step("report")>>}
               B == {<<CompileStep(wb, FALSE)>> : wb \in Widths}
               G == {<<[op |-> "golden", new |-> n]>> : n \in MaxNews["demo"]}
               D == {DemoScript(wb, n, f) : wb \in Widths, n \in MaxNews["demo"], f \in BOOLEAN}
    <2>1. todo' \in A \/ todo' \in B \/ todo' \in G \/ todo' \in D
        <3>1. todo' \in DemoCommands
            BY <1>1, <1>6, CommandsAre
        <3>2. DemoCommands = A \cup B \cup G \cup D
            BY <1>6 DEF DemoCommands
        <3> HIDE DEF A, B, G, D
        <3> QED BY <3>1, <3>2
    <2>2. CASE todo' \in A
        <3>1. CASE todo' = <<Quantize(Few, TRUE)>>
            <4> DEFINE x == Quantize(Few, TRUE)
            <4>1. Fits(x) /\ x.op \in Building
                BY DEF Quantize, Fits, Building
            <4> HIDE DEF x
            <4> QED BY <1>4, <3>1, <4>1 DEF x
        <3> QED BY <1>5, <2>2, <3>1
    <2>3. CASE todo' \in B
        <3>1. PICK wb \in Widths : todo' = <<CompileStep(wb, FALSE)>>
            BY <2>3
        <3> DEFINE x == CompileStep(wb, FALSE)
        <3>2. x.op = "compile" /\ x.wb = wb
            BY DEF CompileStep
        <3> HIDE DEF x
        <3>3. Fits(x) /\ x.op \in Building
            BY <3>2 DEF Fits, Building
        <3> QED BY <1>4, <3>1, <3>3 DEF x
    <2>4. CASE todo' \in G
        <3>1. PICK n \in MaxNews["demo"] : todo' = <<[op |-> "golden", new |-> n]>>
            BY <2>4
        <3> DEFINE x == [op |-> "golden", new |-> n]
        <3>2. x.op = "golden" /\ x.new = n /\ n \in Nat \ {0}
            BY MaxNewsAssumption
        <3> HIDE DEF x
        <3>3. Fits(x) /\ x.op \in Building
            BY <3>2 DEF Fits, Building
        <3> QED BY <1>4, <3>1, <3>3 DEF x
    <2>5. CASE todo' \in D
        <3>1. PICK wb \in Widths, n \in MaxNews["demo"], f \in BOOLEAN : todo' = DemoScript(wb, n, f)
            BY <2>5
        <3>2. n \in Nat \ {0}
            BY MaxNewsAssumption
        <3>3. IsDemoScript(todo', wb, n, f)
            BY <3>1, DemoSteps
        <3>4. Len(todo') = 4
            BY <3>3 DEF IsDemoScript
        <3>5. measured' = OwnRun
            BY <1>2, <3>4
        <3> QED BY <1>1, <1>6, <3>2, <3>3, <3>5, DemoScriptIs
    <2> HIDE DEF A, B, G, D
    <2> QED BY <2>1, <2>2, <2>3, <2>4, <2>5
<1>7. ASSUME session = "toolcall" PROVE DemoTodo' /\ DemoDone'
    <2>1. \/ todo' = <<Step("calibrate")>> \/ todo' = <<Step("report")>>
          \/ \E wb \in Widths, n \in MaxNews["toolcall"], f \in BOOLEAN : todo' = ToolcallScript(wb, n, f)
        BY <1>1, <1>7, CommandsAre DEF ToolcallCommands
    <2>2. CASE todo' = <<Step("calibrate")>> \/ todo' = <<Step("report")>>
        BY <1>5, <2>2
    <2>3. ASSUME NEW wb \in Widths, NEW n \in MaxNews["toolcall"], NEW f \in BOOLEAN, todo' = ToolcallScript(wb, n, f)
          PROVE  DemoTodo' /\ DemoDone'
        <3>1. n \in Nat \ {0}
            BY MaxNewsAssumption
        <3>2. IsToolcallScript(todo', wb, n, f)
            BY <2>3, ToolcallSteps
        <3>3. Len(todo') = 7
            BY <3>2 DEF IsToolcallScript
        <3>4. measured' = OwnRun
            BY <1>2, <3>3
        <3> QED BY <1>1, <1>7, <3>1, <3>2, <3>4, ToolcallScriptIs
    <2> QED BY <2>1, <2>2, <2>3
<1> QED BY <1>3, <1>6, <1>7

-----------------------------------------------------------------------------
(* Every step of a session of demos *)

LEMMA DemoUnproved ==
    ASSUME verdict' \in {"none", "error"}
    PROVE  DemoReportsItsRun' /\ DemoOkIsGolden'
BY DEF DemoReportsItsRun, DemoOkIsGolden

\* The other sessions' steps are not a demo's.
LEMMA NotTheirs ==
    ASSUME Shape, session \in {"demo", "toolcall"}
    PROVE  ~ (DoCheck \/ DoProvenance \/ DoGatesim \/ DoSyncTable \/ DoSynth \/ DoWritePage \/ DoRow)
<1>1. todo # <<>> => Head(todo).op \notin {"check", "provenance", "gatesim", "sync table", "synth", "write page", "row"}
    BY SessionOf
<1>2. /\ ~ Is("check") /\ ~ Is("provenance") /\ ~ Is("gatesim") /\ ~ Is("sync table")
      /\ ~ Is("synth") /\ ~ Is("write page") /\ ~ Is("row")
    BY <1>1 DEF Is
<1> QED BY <1>2 DEF DoCheck, DoProvenance, DoGatesim, DoSyncTable, DoSynth, DoWritePage, DoRow

LEMMA DemoStutter ==
    ASSUME DemoType, DemoTodo, DemoDone, DemoReportsItsRun, DemoOkIsGolden, UNCHANGED vars
    PROVE  DemoType' /\ DemoTodo' /\ DemoDone' /\ DemoReportsItsRun' /\ DemoOkIsGolden'
<1>1. /\ text' = text /\ UNCHANGED files /\ dir' = dir /\ perf' = perf /\ prefix' = prefix /\ expected' = expected
      /\ todo' = todo /\ measured' = measured /\ session' = session /\ verdict' = verdict
    BY DEF vars, files
<1>2. DemoType'
    BY <1>1, DemoSame DEF DemoType
<1>3. DemoTodo' <=> DemoTodo
    BY <1>1 DEF DemoTodo, Steps
<1>4. Starts(dir)' = Starts(dir) /\ Cut' = Cut /\ Prompt' = Prompt
    BY <1>1 DEF Cut, Prompt
<1>5. (SavedTurn' <=> SavedTurn) /\ (Ran("run", 0)' <=> Ran("run", 0)) /\ (Ran("run", Cut)' <=> Ran("run", Cut))
      /\ (Ran("baseline", 0)' <=> Ran("baseline", 0))
    BY <1>1, <1>4 DEF SavedTurn, Ran, Runs
<1>6. DemoDone' <=> DemoDone
    BY <1>1, <1>4, <1>5 DEF DemoDone
<1>7. DemoReportsItsRun' <=> DemoReportsItsRun
    BY <1>1 DEF DemoReportsItsRun, OneBuild, RunOfIt, GoldenOfIt, ReuseOfIt
<1>8. DemoOkIsGolden' <=> DemoOkIsGolden
    BY <1>1 DEF DemoOkIsGolden
<1> QED BY <1>2, <1>3, <1>6, <1>7, <1>8

LEMMA DemoNext ==
    ASSUME Shape, DemoInv, [Next]_vars
    PROVE  DemoInv'
<1>0. session' = session
    BY ElsewhereIs DEF Next, Elsewhere, Start, Edit, Interrupt, DoGatesim, DoSyncTable, DoSynth, DoWritePage, DoRow,
                       Others, vars
<1>1. CASE session \notin {"demo", "toolcall"}
    BY <1>0, <1>1 DEF DemoInv
<1>2. CASE session \in {"demo", "toolcall"}
    <2>0. DemoType /\ DemoTodo /\ DemoDone /\ DemoReportsItsRun /\ DemoOkIsGolden
        BY <1>2 DEF DemoInv
    <2>1. ASSUME DemoType', DemoTodo', DemoDone', DemoReportsItsRun' /\ DemoOkIsGolden' PROVE DemoInv'
        BY <2>1 DEF DemoInv
    <2>2. CASE Start
        <3>1. verdict' = "none"
            BY <2>2 DEF Start
        <3> QED BY <1>2, <2>0, <2>1, <2>2, <3>1, DemoStart, DemoUnproved
    <2>3. CASE Edit
        <3>1. verdict' = "none"
            BY <2>3 DEF Edit
        <3> QED BY <2>0, <2>1, <2>3, <3>1, DemoEdit, DemoUnproved
    <2>4. CASE Interrupt
        <3>1. verdict' = "none"
            BY <2>4 DEF Interrupt
        <3> QED BY <2>0, <2>1, <2>4, <3>1, DemoInterrupt, DemoUnproved
    <2>5. CASE DoReport
        BY <1>2, <2>0, <2>1, <2>5, DemoReport
    <2>6. CASE EnsureQuant \/ EnsureImage \/ DoCompile
        <3>1. verdict' \in {"none", "error"}
            BY <2>6 DEF EnsureQuant, EnsureImage, DoCompile, Fail
        <3> QED BY <1>2, <2>0, <2>1, <2>6, <3>1, DemoEnsureQuant, DemoEnsureImage, DemoCompile, DemoUnproved
    <2>7. CASE DoCalibrate \/ DoQuantize \/ DoGolden \/ DoWrite \/ DoRun \/ DoSave \/ CheckHeader \/ DoReuse \/ DoBaseline
        <3>1. verdict' \in {"none", "error"}
            <4>1. Plain
                BY <2>7 DEF Plain
            <4> QED BY <4>1, PlainIs
        <3>2. DemoType' /\ DemoTodo' /\ DemoDone'
            BY <1>2, <2>0, <2>7, DemoCalibrate, DemoQuantize, DemoGolden, DemoWrite, DemoRun, DemoSave, DemoCheck,
               DemoReuse, DemoBaseline
        <3> QED BY <2>1, <3>1, <3>2, DemoUnproved
    <2>8. CASE UNCHANGED vars
        BY <2>0, <2>1, <2>8, DemoStutter
    <2> QED BY <1>2, <2>2, <2>3, <2>4, <2>5, <2>6, <2>7, <2>8, NotTheirs DEF Next
<1> QED BY <1>1, <1>2

LEMMA DemoInit ==
    ASSUME Init
    PROVE  DemoInv
<1> SUFFICES ASSUME session \in {"demo", "toolcall"} PROVE DemoInv
    BY DEF DemoInv
<1>1. text \in Texts /\ calib = File(write_calib(0)) /\ 0 \in Texts
    BY DEF Init, Texts
<1>2. DemoCalib
    BY <1>1 DEF DemoCalib
<1>3. DemoQuant
    BY DEF Init, DemoQuant, Quant, Lost
<1>4. DemoExpected
    <2>1. PICK n \in MaxNews[session] : expected = File(expected_tokens(Full16, 0, n))
        BY DEF Init
    <2>2. n \in Nat \ {0}
        BY MaxNewsAssumption
    <2> DEFINE e == expected_tokens(Full16, 0, n)
    <2>3. Full16 \in Models
        BY <1>1, ModelsHave DEF Full16
    <2>4. IsRecord(e)
        BY <1>1, <2>2, <2>3 DEF IsRecord
    <2>5. expected = File(e)
        BY <2>1
    <2> HIDE DEF e
    <2>6. expected.is = e
        BY <2>5, FileIs
    <2> QED BY <2>4, <2>5, <2>6 DEF DemoExpected
<1>5. IsDir(dir)
    <2>1. dir = [f \in FILES |-> Absent]
        BY DEF Init, EmptyDir
    <2>2. {"image", "prompt", "layout"} \subseteq FILES
        BY DEF FILES
    <2>3. dir = [f \in FILES |-> dir[f]] /\ \A f \in {"image", "prompt", "layout"} : dir[f] = Absent
        BY <2>1, <2>2
    <2> QED BY <2>3 DEF IsDir, Lost
<1>6. IsPerf(perf)
    <2>1. perf = [r \in {"run", "prefix", "baseline"} |-> Absent]
        BY DEF Init
    <2>2. /\ perf = [r \in {"run", "prefix", "baseline"} |-> perf[r]]
          /\ \A r \in {"run", "prefix", "baseline"} : perf[r] = Absent
        BY <2>1
    <2> QED BY <2>2 DEF IsPerf, Kinds, Lost
<1>7. DemoType
    BY <1>1, <1>2, <1>3, <1>4, <1>5, <1>6 DEF DemoType
<1>8. DemoTodo
    <2>1. todo = <<>>
        BY DEF Init
    <2>2. Len(todo) = 0
        BY <2>1, NoSteps
    <2> QED BY <2>2 DEF DemoTodo, Steps
<1>9. DemoDone
    BY DEF Init, DemoDone
<1>10. DemoReportsItsRun /\ DemoOkIsGolden
    BY DEF Init, DemoReportsItsRun, DemoOkIsGolden
<1> QED BY <1>7, <1>8, <1>9, <1>10 DEF DemoInv

\* A session of another kind reports nothing of a demo.
LEMMA DemoHolds == Shape /\ DemoInv => DemoReportsItsRun /\ DemoOkIsGolden
<1> SUFFICES ASSUME Shape, DemoInv, session \notin {"demo", "toolcall"}
             PROVE  DemoReportsItsRun /\ DemoOkIsGolden
    BY DEF DemoInv
<1> DEFINE V == VerdictsOf[session]
<1>1. V \cap {"demo ok", "demo failed"} = {}
    <2>1. CASE session = "quality"
        BY <2>1 DEF VerdictsOf
    <2>2. CASE session = "figures"
        BY <2>2 DEF VerdictsOf
    <2> QED BY <2>1, <2>2 DEF Shape
<1>2. verdict \in {"none", "error"} \cup V
    BY DEF Shape
<1> HIDE DEF V
<1>3. verdict \notin {"demo ok", "demo failed"}
    BY <1>1, <1>2
<1> QED BY <1>3 DEF DemoReportsItsRun, DemoOkIsGolden

\* Every file a demo reads is absent, torn, or what one of the commands wrote;
\* the steps that end a script come in its order, and each finds what those before
\* it left of the directory as it is (cli.py, prefix.py, scripts/demo.sh).
THEOREM DemoInvariant == Spec => []DemoInv
<1>1. Init => DemoInv
    BY DemoInit
<1>2. Shape /\ DemoInv /\ [Next]_vars => DemoInv'
    BY DemoNext
<1>3. PublishInv => Shape
    BY DEF PublishInv
<1> QED BY <1>1, <1>2, <1>3, PublishInvariant, PTL DEF Spec

\* The report a demo script ends with says OK exactly when the directory is of one
\* compile, the image in it ran that compile's prompt to a clean end, and the ids
\* are those of the golden record it was compiled against; with a reused turn, also
\* when that image without reuse gave the same.  By hand, over whatever records are
\* there, an OK is of ids the compiled model continues its prompt with, as it stands
\* or stood when the golden record was taken, from a clean run of an image of that
\* size on the compiled prompt.  Nothing is assumed of the ids two models continue a
\* prompt with, or of their cycles (cli.py _demo_report, prefix.py run and
\* reuse_lines, scripts/demo.sh).
THEOREM DemoReports == Spec => []DemoReportIsTrue
<1>1. Shape /\ DemoInv => DemoReportIsTrue
    BY DemoHolds DEF DemoReportIsTrue
<1>2. PublishInv => Shape
    BY DEF PublishInv
<1> QED BY <1>1, <1>2, PublishInvariant, DemoInvariant, PTL
=============================================================================
