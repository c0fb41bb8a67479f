------------------------------- MODULE Checks -------------------------------
(***************************************************************************)
(* The comparison tools at work on an RTL that may be wrong: a job runs one *)
(* program under its settings, one harness process a setting, and ends in a *)
(* verdict.  The build under test gets at most one place wrong, at one      *)
(* descriptor, under some of the settings; a process may stop.              *)
(***************************************************************************)
EXTENDS Compare

CONSTANTS
    Widths,     \* port widths an image is compiled for
    Struck,     \* places a wrong build can get wrong
    Indices,    \* descriptors at which it does
    Prompt, MaxNew

VARIABLES
    job,        \* what is being checked, and what the build gets wrong
    outcomes,   \* one per setting run: "ok" or "stopped"
    verdict     \* the job's result, once it has one

vars == <<job, outcomes, verdict>>

Narrow == CHOOSE wb \in Widths : \A x \in Widths : wb <= x
Wide == CHOOSE wb \in Widths : \A x \in Widths : x <= wb

NoVerdict == [result |-> "none"]

\* Each tool's programs and the settings it runs one harness for.
Settings(tool) ==
    CASE tool = "compare" -> <<BASELINE, Setting("lat 1", 0), Setting("lat 200", 0)>>
      [] tool \in {"stepcmp", "generate", "isa-sim"} -> <<BASELINE>>
      [] tool = "timing" -> <<BASELINE>> \o timing_settings(1)
      [] tool = "x-initial" -> <<BASELINE>> \o x_initial(<<1>>)
      [] tool = "width" -> <<Setting("narrow", 0), Setting("wide", 0)>>

Tools == {"compare", "stepcmp", "generate", "isa-sim", "timing", "x-initial", "width"}
ProgramsOf(tool) ==
    CASE tool = "compare" -> PROGRAMS
      [] tool \in {"stepcmp", "generate", "isa-sim"} -> {"tokens"}
      [] OTHER -> {"layer", "bringup"}

Faults == [pass : 1 .. 3, index : Indices, place : Struck]
Tok == Vocab - 1

\* Every case, its runs on a right build, and the token loop's, in tables.
CaseTable ==
    [k \in PROGRAMS \X ({<<Narrow, FALSE>>} \cup (Widths \X {TRUE})) |->
        IF k[2][2] THEN width_cases(k[1], Widths, Tok)[k[2][1]] ELSE CaseOf(k[1], Layout(Narrow), Tok)]
RightRuns ==
    [k \in {<<c, start>> \in (DOMAIN CaseTable) \X (0 .. 2) : c[2][2] => start = 0} |->
        RunCase(CaseTable[k[1]], k[1][2][1], k[2], NoFault)]
LoopTable ==
    [k \in {GoodPlan, "gemv_down"} \X Widths \X (Faults \cup {NoFault}) |->
        RunTokens(Prompt, MaxNew, k[1], k[2], k[3])]

\* The width a setting of the job runs at, the case it runs, and its run.
WbOf(i) == IF job.tool = "width" /\ i = 2 THEN Wide ELSE Narrow
CaseKey(i) == <<job.program, <<WbOf(i), job.tool = "width">>>>
FaultOf(i) == IF i \in job.hit THEN job.fault ELSE NoFault
CaseRun(i, start) ==
    IF FaultOf(i) = NoFault THEN RightRuns[CaseKey(i), start]
    ELSE RunCase(CaseTable[CaseKey(i)], WbOf(i), start, FaultOf(i))

HasCase == job.program # "tokens"
Runs ==
    [i \in DOMAIN outcomes |->
        [ended |-> outcomes[i] = "ok",
         case |-> IF HasCase THEN CaseRun(i, Settings(job.tool)[i].start) ELSE <<>>,
         loop |-> LoopTable[job.plan, WbOf(i), FaultOf(i)]]] \o <<>>

\* The case that is compared, and what a right build at the baseline gives.
Right ==
    [c |-> IF HasCase THEN CaseTable[CaseKey(1)] ELSE <<>>,
     case |-> IF HasCase THEN RightRuns[CaseKey(1), 0] ELSE <<>>,
     loop |-> LoopTable[job.plan, Narrow, NoFault]]

\* A job on a build that is right everywhere or wrong in one place.  A plan may
\* lack the write of one descriptor; a recorded continuation may be missing,
\* shorter than the run or of another model; the simulator's loop may stop at an id.
Jobs ==
    {j \in UNION {[tool : {t}, program : ProgramsOf(t),
                   plan : IF t = "stepcmp" THEN {GoodPlan, "gemv_down"} ELSE {GoodPlan},
                   record : IF t \in {"generate", "isa-sim"} THEN {"none", "whole", "short", "other"} ELSE {"none"},
                   stop : IF t = "isa-sim" THEN {{}, {0}} ELSE {{}},
                   fault : Faults \cup {NoFault}, hit : {{}, {1}, {2}, DOMAIN Settings(t)}] : t \in Tools} :
        /\ j.hit \subseteq DOMAIN Settings(j.tool)
        /\ j.hit = {} <=> j.fault = NoFault
        /\ j.fault # NoFault => j.fault.pass \in IF j.tool = "isa-sim" THEN {2, 3} ELSE {1, 2}}

\* The record as the run uses it: <<>> when it has none of this length.
Recorded(ids) ==
    LET whole == UpTo(ids, job.stop)
    IN CASE job.record = "none" -> <<>>
         [] job.record = "whole" -> whole
         [] job.record = "short" -> IF job.tool = "isa-sim" THEN <<>> ELSE SubSeq(ids, 1, 1)
         [] job.record = "other" -> [whole EXCEPT ![1] = 1 - @]

Init == job \in Jobs /\ outcomes = <<>> /\ verdict = NoVerdict

Pending == verdict = NoVerdict /\ Len(outcomes) < Len(Settings(job.tool))

\* The next process counts an event that it is not told to allow.
FailsOnEvent ==
    /\ Len(outcomes) + 1 \in job.hit /\ job.fault.place \in {Reg(e) : e \in EVENTS}
    /\ job.tool \notin {"stepcmp", "isa-sim"}
    /\ job.tool = "compare" => job.program \notin EVENTFUL /\ job.fault.pass <= Len(Right.c.passes)

\* run_rtl, run_case, run_generate: the process exits 0 with its records written.
HarnessEnds ==
    /\ Pending /\ ~ FailsOnEvent
    /\ outcomes' = Append(outcomes, "ok")
    /\ UNCHANGED <<job, verdict>>

\* It stops: run_rtl raises, determinism has a row that says so; the simulator
\* is no process.
HarnessStops ==
    /\ Pending /\ job.tool # "isa-sim" /\ (FailsOnEvent \/ "stopped" \notin Range(outcomes))
    /\ IF job.tool \in {"timing", "x-initial", "width"}
       THEN outcomes' = Append(outcomes, "stopped") /\ UNCHANGED verdict
       ELSE verdict' = [result |-> "raised"] /\ UNCHANGED outcomes
    /\ UNCHANGED job

Verdict(ok, blame) == [result |-> IF ok THEN "ok" ELSE "bad", blame |-> blame]

RunOf(r) == IF r.ended THEN Run(Observed(r.case), r.loop.ids) ELSE Stopped

\* The reference is the simulator, the golden model, or the first setting run.
Result(right, runs) ==
    CASE job.tool = "compare" ->
           With(check_image(right.c, Observed(right.case), [i \in DOMAIN runs |-> Observed(runs[i].case)]),
                LAMBDA r : Verdict(ResultOk(r), r.mismatches))
      [] job.tool = "stepcmp" ->
           With(check_tokens(right.loop, runs[1].loop, job.plan), LAMBDA r : Verdict(StepOk(r), r))
      [] job.tool = "generate" ->
           With(Generated(right.loop.ids, runs[1].loop.ids, Recorded(right.loop.ids)),
                LAMBDA r : Verdict(r.ok /\ r.expected_ok, r))
      [] job.tool = "isa-sim" ->
           With(isa_sim_prompt(right.loop, runs[1].loop, Len(Prompt), job.stop, Recorded(right.loop.ids)),
                LAMBDA r : Verdict(r.ok, r.cmp))
      [] OTHER ->
           With([i \in DOMAIN runs |-> RunOf(runs[i])] \o <<>>, LAMBDA all :
             With(IF job.tool = "width" THEN check_width(Head(all), Tail(all), right.c)
                  ELSE check(Head(all), Tail(all), right.c, job.tool = "timing"),
                  LAMBDA r : Verdict(ReportOk(r), r)))

Judge ==
    /\ verdict = NoVerdict
    /\ \/ Len(outcomes) = Len(Settings(job.tool))
       \/ job.tool \in {"timing", "x-initial"} /\ outcomes # <<>> /\ outcomes[1] = "stopped"
    /\ verdict' = With(<<Right, Runs>>, LAMBDA v : Result(v[1], v[2]))
    /\ UNCHANGED <<job, outcomes>>

Next == HarnessEnds \/ HarnessStops \/ Judge

Spec == Init /\ [][Next]_vars

-----------------------------------------------------------------------------
(* Properties *)

\* Where two runs of a case are in different states, of the places it compares.
RegPlaces == {Reg(n) : n \in Named}
Banks(c) == {Vsram(i) : i \in c.ranges[1] .. c.ranges[1] + c.ranges[2] - 1} \cup {Sreg(i) : i \in Sregs}
MemPlaces(c) ==
    UNION {IF r = DumpRegion THEN {Dump(0), Dump(1)} ELSE {Kv(p) : p \in 0 .. MaxCtx - 1} : r \in Range(c.mem)}

Apart(a, b, s, places) == \E p \in places : a.states[s][p] # b.states[s][p]
PassEnds(c) == {s \in 1 .. Len(c.program) * Len(c.passes) : s % Len(c.program) = 0}
Differ(c, a, b, places) ==
    \/ \E s \in DOMAIN a.states : Apart(a, b, s, places)
    \/ \E s \in PassEnds(c) : Apart(a, b, s, MemPlaces(c))

\* A token loop's states at the places it is held to, and where two loops part.
Counted == {Reg("PC")} \cup {Reg(n) : n \in EVENTS \cup PERF_COMPARED}
Planned(t, k) ==
    PlanOf(job.plan, Program(IF t < Len(Prompt) THEN "prefill" ELSE "decode")[k], t - 1)
TokenApart(ref, run, extra) ==
    {s \in UNION {{t} \X DOMAIN ref.runs[t].states : t \in DOMAIN ref.runs} :
        \E p \in Planned(s[1], s[2]) \cup extra :
            ref.runs[s[1]].states[s[2]][p] # run.runs[s[1]].states[s[2]][p]}
Earlier(s, r) == s[1] < r[1] \/ (s[1] = r[1] /\ s[2] < r[2])

\* What the tools claim of the runs they were given.
CompareExact(right, runs) ==
    LET all == RegPlaces \cup Banks(right.c)
        named == {<<m.pos, m.record>> : m \in {x \in verdict.blame : x.what # "memory"}}
    IN /\ verdict.result = "ok" <=> \A i \in DOMAIN runs : ~ Differ(right.c, right.case, runs[i].case, all)
       /\ named = {<<right.case.records[s].pos, right.case.records[s].index>> :
                     s \in {x \in DOMAIN right.case.states : Apart(right.case, Last(runs).case, x, all)}}

StepExact(ref, run) ==
    With(TokenApart(ref, run, Counted), LAMBDA apart :
        LET at == <<verdict.blame.token, verdict.blame.index>>
        IN /\ verdict.result = "ok" <=> job.plan = GoodPlan /\ apart = {} /\ ref.ids = run.ids
           /\ verdict.blame.index # 0 => at \in apart /\ \A s \in apart : ~ Earlier(s, at))

GenerateExact(ref, run) == verdict.result = "ok" <=> ref.ids = run.ids /\ job.record # "other"

\* Up to the token that emits a stop id; the counters at the end of a token.
GoldenExact(ref, run) ==
    LET walked == Len(Prompt) - 1 + Len(UpTo(ref.ids, job.stop))
        outputs == {s \in TokenApart(ref, run, {}) : s[1] <= walked}
        counters == {s \in TokenApart(ref, run, {Reg("SAT_REQ"), Reg("SAT_VPU"), Reg("ERR_SHIFT")}) :
                        s[1] <= walked /\ s[2] = Len(ref.runs[s[1]].states)}
    IN /\ verdict.result = "ok" <=> outputs = {} /\ counters = {} /\ job.record # "other"
       /\ outputs # {} => /\ <<verdict.blame.pos + 1, verdict.blame.index>> \in outputs
                          /\ \A s \in outputs : ~ Earlier(s, <<verdict.blame.pos + 1, verdict.blame.index>>)

SettingsExact(c, runs) ==
    LET exempt == IF job.tool = "width" THEN {Reg(n) : n \in WIDTH_EXEMPT} ELSE {}
        held == (RegPlaces \ exempt) \cup IF job.tool = "x-initial" THEN {} ELSE Banks(c)
    IN verdict.result = "ok" <=>
           /\ Len(runs) = Len(Settings(job.tool))
           /\ \A i \in DOMAIN runs : /\ runs[i].ended
                                       /\ runs[i].loop.ids = runs[1].loop.ids
                                       /\ ~ Differ(c, runs[1].case, runs[i].case, held)

RightBuild ==
    job.fault = NoFault /\ job.plan = GoodPlan /\ job.record # "other" /\ "stopped" \notin Range(outcomes)

(* A comparison says ok exactly when every run it was given agrees with its  *)
(* reference at every place it claims to compare, at every descriptor: no    *)
(* deviation of one setting, one bank, one counter or the last element of a  *)
(* region is lost between the timing settings, the dump plan, the widths and *)
(* the exemptions, and none is reported that is not there; stepcmp names the *)
(* first descriptor that deviates and compare every one.  A right build is   *)
(* never accused, whatever width, timing and undefined start do to tiling,   *)
(* padding and unwritten storage (quettos.compare, stepcmp, determinism).    *)
VerdictIsExact ==
    verdict.result \in {"ok", "bad"} =>
        /\ RightBuild => verdict.result = "ok"
        /\ With(<<Right, Runs>>, LAMBDA v :
               CASE job.tool = "compare" -> CompareExact(v[1], v[2])
                 [] job.tool = "stepcmp" -> StepExact(v[1].loop, v[2][1].loop)
                 [] job.tool = "generate" -> GenerateExact(v[1].loop, v[2][1].loop)
                 [] job.tool = "isa-sim" -> GoldenExact(v[1].loop, v[2][1].loop)
                 [] OTHER -> SettingsExact(v[1].c, v[2]))
=============================================================================
