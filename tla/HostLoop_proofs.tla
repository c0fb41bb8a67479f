--------------------------- MODULE HostLoop_proofs ---------------------------
(***************************************************************************)
(* Proofs about HostLoop: what the harness reads is the end of the run it  *)
(* launched, and what it keeps of a run is what the run computed, for any  *)
(* prompt, any command lines one after the other and any image.            *)
(***************************************************************************)
EXTENDS HostLoop, Control_proofs, SequenceTheorems

Locs == {"boot", "old", "clear", "pc", "tok", "pos", "row", "go", "poll", "status",
         "ack", "final", "argmax", "finish", "failed"}

\* A token is under way.
InToken == Locs \ {"boot", "finish", "failed"}

\* The host has the core to itself: nothing was launched, or it has ended.
AtRest == Locs \ {"poll", "failed"}

Count == Program[phase].count

Cells == {NoKv} \cup (Tokens \X Programs)

\* A prefix file: none, or a whole one.
Files == {NoFile} \cup [whole : {TRUE}, ids : Seq(Tokens), image : Programs,
                        kv : [Context -> Cells]]

HostTypes ==
    /\ loc \in Locs /\ opt \in Options /\ prompt \in Prompts /\ phase \in Phases
    /\ hPos \in Nat /\ hTok \in Tokens /\ jj \in Nat
    /\ seen \in SUBSET StatusBits /\ index \in Nat
    /\ covered \in Seq(Tokens) /\ clean \in BOOLEAN
    /\ kv \in [Context -> Cells]
    /\ file \in Files

\* The token is the next of the sequence.
PromptInv ==
    /\ loc = "boot" => covered = <<>>
    /\ \A i \in 1 .. Len(covered) : i <= Len(prompt) => covered[i] = prompt[i]
    /\ loc \in InToken =>
         /\ hPos = Len(covered)
         /\ hPos < Len(prompt) => hTok = prompt[hPos + 1]
         /\ Last <= Len(prompt)
         /\ IF phase = "prefill" THEN hPos < Last
            ELSE jj < opt.maxNew /\ hPos = Len(prompt) - 1 + jj

\* The core is at rest: no run, no command and no report on its way.
CoreRests == ~busy /\ ~start /\ ~step /\ out = Quiet

\* The harness never aborts; between runs the core is at rest, and the bits the
\* host is about to clear are those that are set; a run given up is not begun
\* again.
RestInv ==
    /\ ~abortRun /\ ~abortQ
    /\ loc \in AtRest => CoreRests
    /\ loc = "failed" => ~start /\ ~step
    /\ loc \in {"pc", "tok", "pos", "row", "go"} => StatusNow = {}
    /\ loc \in {"clear", "ack"} => seen = StatusNow

\* The registers of the token, from the write that sets each.
RegsInv ==
    /\ loc \in {"tok", "pos", "row"} => pc = Program[phase].addr
    /\ loc \in InToken \ {"old", "clear", "pc", "tok"} => tok = hTok
    /\ loc \in InToken \ {"old", "clear", "pc", "tok", "pos"} => pos = hPos
    /\ loc \in InToken \ {"old", "clear", "pc", "tok", "pos", "row"} => rowEn = {0}

\* A descriptor that writes the K/V of row 0.
Stores(e) == e.op = "KVWRITE" /\ 0 \in e.rows

\* The K/V of the token is in the region, if the region has its position.
Stored == IF hPos \in Context THEN kv[hPos] = <<hTok, code>> ELSE ~clean

\* ... as it is once a descriptor that writes it is among the first i.
Wrote(i) == (\E j \in 0 .. (i - 1) : Stores(code[At(phase, j)])) => Stored

\* The run stands before descriptor i.
Stands(i) == PcNow = At(phase, i) /\ Wrote(i)

\* A run that ended before descriptor i and reports S.
Ended(S, i) ==
    /\ i \in 0 .. Count /\ Stands(i)
    /\ "ERR" \notin S =>
         /\ ran >= 1 /\ (opt.step => i = index + 1)
         /\ IF "DONE" \in S THEN i = Count ELSE opt.step /\ i < Count

\* The bits the pulses on their way will set.
OutBits == {b \in StatusBits : CASE b = "DONE" -> out.done
                                 [] b = "STEP_HALTED" -> out.halted
                                 [] b = "ERR" -> out.err}

Launched == /\ ~busy /\ start = ~opt.step /\ step = opt.step /\ out = Quiet
            /\ StatusNow = {} /\ Stands(index)

Running ==
    /\ busy /\ ~start /\ ~step /\ StatusNow = {} /\ OutBits = {} /\ stepMode = opt.step
    /\ \E i \in 0 .. (Count - 1) : Stands(i) /\ (opt.step => i = index + ran)

Halted ==
    /\ ~busy /\ ~start /\ ~step
    /\ \E i \in 0 .. Count :
         \/ StatusNow = {} /\ OutBits # {} /\ Ended(OutBits, i)
         \/ out = Quiet /\ StatusNow # {} /\ Ended(StatusNow, i)

\* Where the run of the token is.
RunAt ==
    /\ loc \in {"go", "poll", "status"} => index < Count /\ (~opt.step => index = 0)
    /\ loc = "go" => Stands(index)
    /\ loc = "poll" => Launched \/ Running \/ Halted
    /\ loc = "status" => StatusNow # {} /\ \E i \in 0 .. Count : Ended(StatusNow, i)
    /\ loc = "ack" => /\ opt.step /\ Stands(index) /\ ran >= 1
                      /\ IF "DONE" \in seen THEN index = Count ELSE index < Count
    /\ loc = "final" => opt.step /\ index = Count /\ Stands(Count) /\ ran >= 1
    /\ loc = "argmax" => (opt.step => index = Count) /\ Stands(Count) /\ ran >= 1

\* What is covered is in the region, or the run is not clean.
KvInv ==
    loc # "failed" => \A i \in 1 .. Len(covered) :
        IF i - 1 \in Context THEN kv[i - 1] = <<covered[i], code>> ELSE ~clean

HostInv ==
    /\ HostTypes /\ PromptInv /\ RestInv /\ RegsInv /\ RunAt /\ KvInv /\ SavedIsComplete

-----------------------------------------------------------------------------
(* What a clock edge under the harness does *)

LEMMA ClockIsTick ==
    ASSUME NEW w, Clock(w)
    PROVE  \E fin, drained, more, wrReady, wrAck, appears \in BOOLEAN :
               /\ Tick(w, fin, drained, more, wrReady, wrAck, appears)
               /\ KvTick(Sampled(fin))
<1>1. \A b : Maybe(b) \subseteq BOOLEAN
    BY DEF Maybe
<1>2. PICK fin \in Maybe(MayFinish), drained \in Maybe(streamBusy), wrReady \in Maybe(wqValid),
           wrAck \in Maybe(issued # acked), appears \in Maybe(sOn) :
        \E more \in Maybe(CanPresent(wrReady)) :
            /\ Tick(w, fin, drained, more, wrReady, wrAck, appears)
            /\ KvTick(Sampled(fin))
    BY DEF Clock
<1>3. PICK more \in Maybe(CanPresent(wrReady)) :
            /\ Tick(w, fin, drained, more, wrReady, wrAck, appears)
            /\ KvTick(Sampled(fin))
    BY <1>2
<1>4. fin \in BOOLEAN /\ drained \in BOOLEAN /\ wrReady \in BOOLEAN /\ wrAck \in BOOLEAN
      /\ appears \in BOOLEAN /\ more \in BOOLEAN
    BY <1>1
<1> QED BY <1>3, <1>4

LEMMA ClockIsNext ==
    ASSUME NEW w \in HostOps, Clock(w)
    PROVE  Next
BY DEF Clock, Tick, Next, NextUnder

\* The status bits one by one.
LEMMA StatusBitsAre ==
    /\ StatusNow \subseteq StatusBits /\ OutBits \subseteq StatusBits
    /\ ("DONE" \in StatusNow <=> doneQ) /\ ("STEP_HALTED" \in StatusNow <=> stepHaltedQ)
    /\ ("ERR" \in StatusNow <=> errQ)
    /\ ("DONE" \in OutBits <=> out.done) /\ ("STEP_HALTED" \in OutBits <=> out.halted)
    /\ ("ERR" \in OutBits <=> out.err)
BY DEF StatusNow, OutBits, StatusBits

\* The bits the host writes to STATUS.
Clears(w) == IF w.reg = "STATUS" THEN w.val ELSE {}

\* An edge of a core at rest does what the host writes, and nothing else.
LEMMA RestTick ==
    ASSUME IInv, clean \in BOOLEAN, CoreRests, ~abortQ, ~abortRun, NEW w \in HostOps, Clock(w)
    PROVE  /\ ~busy' /\ out' = Quiet /\ ~abortQ' /\ ~abortRun'
           /\ start' = Ctrl(w, "START") /\ step' = (Ctrl(w, "STEP") /\ ~Ctrl(w, "START"))
           /\ ran' = ran /\ code' = code /\ kv' = kv /\ clean' = clean
           /\ rowEn' = (IF w.reg = "ROW_EN" THEN w.val ELSE rowEn)
           /\ tok' = (IF w.reg = "TOK" THEN w.val ELSE tok)
           /\ pos' = (IF w.reg = "POS" THEN w.val ELSE pos)
           /\ pc' = (IF w.reg = "PC" THEN w.val ELSE pc)
           /\ PcNow' = pc' /\ PcNow = pc
           /\ StatusNow' = StatusNow \ Clears(w)
<1>0. PICK fin, drained, more, wrReady, wrAck, appears \in BOOLEAN :
          /\ Tick(w, fin, drained, more, wrReady, wrAck, appears)
          /\ KvTick(Sampled(fin))
    BY ClockIsTick
<1> DEFINE in == Sampled(fin)
<1>1. /\ TypeOK /\ BusyInv /\ DispTick(in) /\ CtrlTick(w, busy) /\ RwTick(w, busy, out)
      /\ StatusTick(w, out, faultCode, faultOp)
      /\ HistTick(in, more, wrAck) /\ code' = code /\ KvTick(in)
    BY <1>0 DEF IInv, Tick, CoreTick, CsrTick
<1>2. state = "IDLE" /\ ~start /\ ~step /\ busy = FALSE /\ out = Quiet
    BY <1>1 DEF BusyInv, TypeOK, DispTypeOK, CoreRests
<1> HIDE DEF in
<1>3. Rest(in)
    BY <1>1, <1>2
    DEF DispTick, Begin, StartFetch, AwaitHead, Pop, PopOk, Decode, Prepare, AwaitFence, PassFence,
        ReadSreg, Issue, AIssue, AwaitUnit, RetireNext, RetireHalt, Stop, AwaitStop, CloseStop,
        ARetire, AStop, AFault, AAbortEnd, AStepStop
<1>4. out' = Quiet /\ busy' = busy /\ abortQ' = (abortQ \/ abortRun)
    BY <1>3 DEF Rest, Waits, Steady, KeepRun, LatchAbort
<1>5. ran' = ran
    BY <1>1, <1>2 DEF HistTick, ARetire
<1>6. /\ ~Quiet.pcSet /\ ~Quiet.done /\ ~Quiet.halted /\ ~Quiet.err /\ Quiet.errb = 0
    BY DEF Quiet
<1>7. kv' = kv /\ clean' = clean
    BY <1>1, <1>2, <1>6 DEF KvTick
<1>8. /\ start' = Ctrl(w, "START") /\ step' = (Ctrl(w, "STEP") /\ ~Ctrl(w, "START")) /\ ~abortRun'
    BY <1>1, <1>2 DEF CtrlTick, Ctrl
<1>9. /\ rowEn' = (IF w.reg = "ROW_EN" THEN w.val ELSE rowEn)
      /\ tok' = (IF w.reg = "TOK" THEN w.val ELSE tok)
      /\ pos' = (IF w.reg = "POS" THEN w.val ELSE pos)
      /\ pc' = (IF w.reg = "PC" THEN w.val ELSE pc)
    BY <1>1, <1>2, <1>6 DEF RwTick, HostWr
<1>10. PcNow' = pc' /\ PcNow = pc
    BY <1>2, <1>4, <1>6 DEF PcNow
<1>11. StatusNow' = StatusNow \ Clears(w)
    <2>1. /\ doneQ' = (doneQ /\ ~Cleared(w, "DONE"))
          /\ stepHaltedQ' = (stepHaltedQ /\ ~Cleared(w, "STEP_HALTED"))
          /\ errQ' = (errQ /\ ~Cleared(w, "ERR"))
        BY <1>1, <1>2, <1>6 DEF StatusTick
    <2>2. \A b \in StatusBits : Cleared(w, b) <=> b \in Clears(w)
        BY DEF Cleared, Clears
    <2> QED BY <2>1, <2>2 DEF StatusNow, StatusBits
<1> QED BY <1>2, <1>4, <1>5, <1>7, <1>8, <1>9, <1>10, <1>11, <1>1

\* The edge that takes a START or a STEP.
LEMMA LaunchTick ==
    ASSUME IInv, clean \in BOOLEAN, ~busy, start \/ step, out = Quiet, Clock(NoWrite)
    PROVE  /\ busy' /\ ~start' /\ ~step' /\ ~abortQ' /\ ~abortRun' /\ out' = Quiet
           /\ stepMode' = (step /\ ~start) /\ ran' = 0
           /\ rowEn' = rowEn /\ pos' = pos /\ tok' = tok /\ PcNow' = PcNow
           /\ code' = code /\ kv' = kv /\ clean' = clean /\ StatusNow' = {}
<1>0. PICK fin, drained, more, wrReady, wrAck, appears \in BOOLEAN :
          /\ Tick(NoWrite, fin, drained, more, wrReady, wrAck, appears)
          /\ KvTick(Sampled(fin))
    BY ClockIsTick
<1> DEFINE in == Sampled(fin)
<1>1. /\ TypeOK /\ BusyInv /\ DispTick(in) /\ CtrlTick(NoWrite, busy) /\ RwTick(NoWrite, busy, out)
      /\ StatusTick(NoWrite, out, faultCode, faultOp)
      /\ HistTick(in, more, wrAck) /\ code' = code /\ KvTick(in)
    BY <1>0 DEF IInv, Tick, CoreTick, CsrTick
<1>2. state = "IDLE" /\ busy = FALSE
    BY <1>1 DEF BusyInv, TypeOK, DispTypeOK
<1> HIDE DEF in
<1>3. Begin(in)
    BY <1>1, <1>2
    DEF DispTick, Rest, StartFetch, AwaitHead, Pop, PopOk, Decode, Prepare, AwaitFence, PassFence,
        ReadSreg, Issue, AIssue, AwaitUnit, RetireNext, RetireHalt, Stop, AwaitStop, CloseStop,
        ARetire, AStop, AFault, AAbortEnd, AStepStop
<1>4. out' = Quiet /\ busy' /\ ~abortQ' /\ stepMode' = (step /\ ~start)
    BY <1>3 DEF Begin
<1>5. ran' = 0
    BY <1>1, <1>2 DEF HistTick
<1>6. /\ ~Quiet.pcSet /\ ~Quiet.done /\ ~Quiet.halted /\ ~Quiet.err /\ Quiet.errb = 0
    BY DEF Quiet
<1>7. kv' = kv /\ clean' = clean
    BY <1>1, <1>2, <1>6 DEF KvTick
<1>8. ~start' /\ ~step' /\ ~abortRun'
    BY <1>1, <1>2 DEF CtrlTick, Ctrl, NoWrite
<1>9. rowEn' = rowEn /\ tok' = tok /\ pos' = pos /\ pc' = pc
    BY <1>1, <1>2, <1>6 DEF RwTick, HostWr, NoWrite
<1>10. PcNow' = PcNow
    BY <1>4, <1>6, <1>9 DEF PcNow
<1>11. StatusNow' = {}
    BY <1>1 DEF StatusTick, StatusNow, StatusBits
<1> QED BY <1>1, <1>4, <1>5, <1>7, <1>8, <1>9, <1>10, <1>11

\* What the bits on their way say of a report.
LEMMA ReportBits ==
    /\ Report = "none" <=> OutBits = {}
    /\ Report = "error" => "ERR" \in OutBits
    /\ Report = "done" => "ERR" \notin OutBits /\ "DONE" \in OutBits
    /\ Report = "halted" => "ERR" \notin OutBits /\ "DONE" \notin OutBits /\ OutBits # {}
BY DEF Report, OutBits, StatusBits

\* The K/V of the descriptor at work as a retire leaves it.
Kept == kv' = kv /\ (clean' => clean)
Puts == IF pos \in Context THEN kv' = [kv EXCEPT ![pos] = <<tok, code>>] /\ (clean' => clean)
        ELSE kv' = kv /\ ~clean'

\* The descriptor at PC, and the addresses before and after it.
NowOp == code[PcNow].op
NextPc == (PcNow + DescBytes) % AddrMod

\* An edge of a run nobody aborts: nothing is executed and it goes on, or ends
\* on a fault or a step already executed ...
GoesOn ==
    /\ PcNow' = PcNow /\ ran' = ran /\ Kept
    /\ IF busy' THEN OutBits' = {} /\ stepMode' = stepMode
       ELSE /\ OutBits' # {}
            /\ "ERR" \notin OutBits' => stepMode /\ ran = 1 /\ "DONE" \notin OutBits'

\* ... or a descriptor is: a HALT ends the run, a step ends after any.
Executes ==
    /\ PcNow' = NextPc /\ ran' = (IF ran < 2 THEN ran + 1 ELSE ran) /\ NowOp # "BAD"
    /\ Kept \/ Puts
    /\ Stores(code[PcNow]) /\ 0 \in rowEn => Puts
    /\ stepMode => ran = 0
    /\ IF NowOp = "HALT" THEN ~busy' /\ "ERR" \notin OutBits' /\ "DONE" \in OutBits'
       ELSE IF busy' THEN OutBits' = {} /\ stepMode' = stepMode
       ELSE stepMode /\ OutBits' # {} /\ "ERR" \notin OutBits' /\ "DONE" \notin OutBits'

\* A descriptor that retires is that at PC, without fault.
LEMMA RetireIs ==
    ASSUME TypeOK, HandInv, PlaceInv, NEW in, ARetire(in)
    PROVE  state \in InHand /\ d = code[PcNow] /\ PcNow = pc /\ Fault(d, rowEn) = "NONE"
           /\ (stepMode => ran = 0) /\ cmdPos = pos /\ cmdTok = tok
<1>1. state \in {"DEC", "FENCE", "RUN"} /\ (state = "DEC" => DecodeFault = "NONE")
    BY DEF ARetire
<1>2. state \in InHand
    BY <1>1 DEF InHand
<1>3. d = code[PcNow] /\ PcNow = pc
    BY <1>2, HandFaults
<1>4. Fault(d, rowEn) = "NONE"
    BY <1>1, <1>2 DEF PlaceInv, DecodeFault
<1>5. (stepMode => ran = 0) /\ cmdPos = pos /\ cmdTok = tok
    BY <1>2 DEF PlaceInv, HandInv, InHandIsPc
<1> QED BY <1>2, <1>3, <1>4, <1>5

\* A descriptor that stores K/V retires from its unit.
LEMMA StoresWork ==
    ASSUME HandInv, NEW in, ARetire(in), d.op = "KVWRITE", 0 \in d.rows, 0 \in rowEn
    PROVE  state = "RUN"
BY DEF ARetire, Trivial, ZeroWork, UsesRows, RowsC, GemvOps, VpuOps

\* What a retire does to the region.
LEMMA RetireStores ==
    ASSUME TypeOK, HandInv, PlaceInv, NEW in, ARetire(in), KvTick(in), clean \in BOOLEAN
    PROVE  /\ Kept \/ Puts
           /\ Stores(code[PcNow]) /\ 0 \in rowEn => Puts
<1>1. d = code[PcNow] /\ cmdPos = pos /\ cmdTok = tok
    BY RetireIs
<1> DEFINE writes == state = "RUN" /\ ARetire(in) /\ d.op = "KVWRITE"
<1>2. /\ kv' = IF writes /\ cmdPos \in Context
               THEN [kv EXCEPT ![cmdPos] = <<cmdTok, code>>] ELSE kv
      /\ clean' = (clean /\ ~(writes /\ cmdPos \notin Context) /\ out.errb = 0)
    BY DEF KvTick
<1>3. Stores(code[PcNow]) /\ 0 \in rowEn => writes
    BY <1>1, StoresWork DEF Stores
<1> HIDE DEF writes
<1>4. CASE writes
    BY <1>1, <1>2, <1>4 DEF Puts
<1>5. CASE ~writes
    BY <1>2, <1>3, <1>5 DEF Kept
<1> QED BY <1>4, <1>5

\* The next edge of a run that nobody aborts.
LEMMA BusyTick ==
    ASSUME IInv, PlaceInv, clean \in BOOLEAN, busy, ~abortQ, ~abortRun,
           StatusNow = {}, OutBits = {}, Clock(NoWrite)
    PROVE  /\ ~start' /\ ~step' /\ ~abortQ' /\ ~abortRun' /\ StatusNow' = {}
           /\ rowEn' = rowEn /\ pos' = pos /\ tok' = tok /\ code' = code
           /\ GoesOn \/ Executes
<1>0. PICK fin, drained, more, wrReady, wrAck, appears \in BOOLEAN :
          /\ Tick(NoWrite, fin, drained, more, wrReady, wrAck, appears)
          /\ KvTick(Sampled(fin))
    BY ClockIsTick
<1> DEFINE in == Sampled(fin)
<1>1. /\ TypeOK /\ BusyInv /\ HandInv /\ DispTick(in) /\ CtrlTick(NoWrite, busy)
      /\ RwTick(NoWrite, busy, out) /\ StatusTick(NoWrite, out, faultCode, faultOp)
      /\ HistTick(in, more, wrAck) /\ code' = code /\ KvTick(in)
    BY <1>0 DEF IInv, Tick, CoreTick, CsrTick
<1>2. state # "IDLE" /\ busy = TRUE
    BY <1>1 DEF BusyInv, TypeOK, DispTypeOK
<1> HIDE DEF in
<1>3. /\ rowEn' = rowEn /\ pos' = pos
      /\ PcNow' = IF ARetire(in) THEN (PcNow + DescBytes) % AddrMod ELSE PcNow
      /\ ran' = IF ARetire(in) /\ ran < 2 THEN ran + 1 ELSE ran
    BY <1>1, <1>2, PlaceMoves
<1>4. tok' = tok
    BY <1>1, <1>2 DEF RwTick, HostWr
<1>5. ~start' /\ ~step' /\ ~abortRun'
    BY <1>1, <1>2 DEF CtrlTick, Ctrl, NoWrite
<1>6. StatusNow' = {}
    <2>1. ~doneQ /\ ~stepHaltedQ /\ ~errQ /\ ~out.done /\ ~out.halted /\ ~out.err
        BY StatusBitsAre
    <2>2. ~doneQ' /\ ~stepHaltedQ' /\ ~errQ'
        BY <1>1, <2>1 DEF StatusTick
    <2> QED BY <2>2 DEF StatusNow, StatusBits
<1>7. ~abortQ' /\ (state' # "IDLE" => stepMode' = stepMode) /\ busy' = (state' # "IDLE")
    BY <1>1, <1>2
    DEF DispTick, Rest, Begin, StartFetch, AwaitHead, Pop, PopOk, Decode, Prepare, AwaitFence,
        PassFence, ReadSreg, Issue, AIssue, AwaitUnit, RetireNext, RetireHalt, Stop, AwaitStop,
        CloseStop, Waits, Steady, KeepRun, LatchAbort, ARetire, AStop, AFault, AAbortEnd, AStepStop
<1>8. /\ state' # "IDLE" => Report' = "none"
      /\ RetireHalt(in) => Report' = "done"
      /\ Stop(in) /\ in.wrIdle =>
           Report' = IF AFault THEN "error" ELSE IF AStepStop(in) THEN "halted" ELSE "done"
      /\ CloseStop(in) =>
           Report' = IF stopStep THEN "halted" ELSE IF stopErr THEN "error" ELSE "done"
    BY <1>1, ReportMoves
<1>9. /\ Report' = "none" <=> OutBits' = {}
      /\ Report' = "error" => "ERR" \in OutBits'
      /\ Report' = "done" => "ERR" \notin OutBits' /\ "DONE" \in OutBits'
      /\ Report' = "halted" => "ERR" \notin OutBits' /\ "DONE" \notin OutBits' /\ OutBits' # {}
    BY DEF Report, OutBits, StatusBits
<1>10. state' = "IDLE" => RetireHalt(in) \/ (Stop(in) /\ in.wrIdle) \/ CloseStop(in)
    BY <1>1, <1>2, EndsReport
<1>11. CASE ~ARetire(in)
    <2>1. kv' = kv /\ (clean' => clean)
        BY <1>1, <1>11 DEF KvTick
    <2>2. ASSUME state' = "IDLE"
          PROVE  /\ Report' # "none"
                 /\ "ERR" \notin OutBits' => stepMode /\ ran = 1 /\ "DONE" \notin OutBits'
        <3>1. ~RetireHalt(in)
            BY <1>11 DEF RetireHalt
        <3>2. CASE Stop(in) /\ in.wrIdle
            <4>1. AStop(in)
                BY <3>2 DEF Stop
            <4>2. AFault
                BY <1>11, <4>1 DEF AStop, AAbortEnd, AStepStop
            <4> QED BY <1>8, <1>9, <3>2, <4>2
        <3>3. CASE CloseStop(in)
            <4>1. state = "STOP"
                BY <3>3 DEF CloseStop
            <4>2. IF stopStep THEN stepMode /\ ran = 1 ELSE stopErr
                BY <4>1 DEF PlaceInv
            <4> QED BY <1>8, <1>9, <3>3, <4>2
        <3> QED BY <1>10, <2>2, <3>1, <3>2, <3>3
    <2>3. GoesOn
        BY <1>3, <1>7, <1>8, <1>9, <1>11, <2>1, <2>2 DEF GoesOn, Kept
    <2> QED BY <1>1, <1>3, <1>4, <1>5, <1>6, <1>7, <2>3
<1>12. CASE ARetire(in)
    <2>1. /\ d = code[PcNow] /\ PcNow = pc /\ Fault(d, rowEn) = "NONE" /\ (stepMode => ran = 0)
        BY <1>1, <1>12, RetireIs
    <2>2. NowOp = d.op /\ NowOp # "BAD"
        BY <2>1 DEF NowOp, Fault, KnownOps, GemvOps, VpuOps
    <2>3. (Kept \/ Puts) /\ (Stores(code[PcNow]) /\ 0 \in rowEn => Puts)
        BY <1>1, <1>12, RetireStores
    <2>4. ~AFault /\ ~CloseStop(in) /\ (AStop(in) => AStepStop(in)) /\ (AStepStop(in) => stepMode)
        BY <1>12 DEF AStop, AFault, AAbortEnd, AStepStop, ARetire, CloseStop
    <2>5. \/ RetireHalt(in) /\ d.op = "HALT"
          \/ RetireNext(in) /\ d.op # "HALT"
          \/ Stop(in) /\ AStepStop(in) /\ d.op # "HALT"
        BY <1>1, <1>12, <2>4
        DEF DispTick, Rest, Begin, StartFetch, AwaitHead, Pop, PopOk, Decode, Prepare, AwaitFence,
            PassFence, ReadSreg, Issue, AIssue, AwaitUnit, RetireNext, RetireHalt, Stop, AStepStop,
            AwaitStop, ARetire, Trivial, ZeroWork, UsesRows, NeedsSreg
    <2>6. IF NowOp = "HALT" THEN ~busy' /\ "ERR" \notin OutBits' /\ "DONE" \in OutBits'
          ELSE IF busy' THEN OutBits' = {} /\ stepMode' = stepMode
          ELSE stepMode /\ OutBits' # {} /\ "ERR" \notin OutBits' /\ "DONE" \notin OutBits'
        <3>1. CASE RetireHalt(in) /\ d.op = "HALT"
            <4>1. busy' = FALSE
                BY <3>1 DEF RetireHalt
            <4> QED BY <1>8, <1>9, <2>2, <3>1, <4>1
        <3>2. CASE RetireNext(in) /\ d.op # "HALT"
            <4>1. state' # "IDLE"
                BY <3>2 DEF RetireNext
            <4> QED BY <1>7, <1>8, <1>9, <2>2, <3>2, <4>1
        <3>3. CASE Stop(in) /\ AStepStop(in) /\ d.op # "HALT"
            <4>1. CASE state' # "IDLE"
                BY <1>7, <1>8, <1>9, <2>2, <3>3, <4>1
            <4>2. CASE state' = "IDLE"
                <5>1. in.wrIdle
                    BY <3>3, <4>2 DEF Stop
                <5> QED BY <1>7, <1>8, <1>9, <2>2, <2>4, <3>3, <4>2, <5>1
            <4> QED BY <4>1, <4>2
        <3> QED BY <2>5, <3>1, <3>2, <3>3
    <2>7. Executes
        BY <1>3, <1>12, <2>1, <2>2, <2>3, <2>6 DEF Executes, NextPc
    <2> QED BY <1>1, <1>3, <1>4, <1>5, <1>6, <1>7, <2>7
<1> QED BY <1>11, <1>12

\* The edge at which the report of an end reaches STATUS.
LEMMA ReportTick ==
    ASSUME IInv, clean \in BOOLEAN, ~busy, ~start, ~step, ~abortQ, ~abortRun,
           StatusNow = {}, Clock(NoWrite)
    PROVE  /\ ~busy' /\ ~start' /\ ~step' /\ ~abortQ' /\ ~abortRun' /\ out' = Quiet
           /\ StatusNow' = OutBits
           /\ rowEn' = rowEn /\ pos' = pos /\ tok' = tok /\ code' = code
           /\ PcNow' = PcNow /\ ran' = ran /\ Kept
<1>0. PICK fin, drained, more, wrReady, wrAck, appears \in BOOLEAN :
          /\ Tick(NoWrite, fin, drained, more, wrReady, wrAck, appears)
          /\ KvTick(Sampled(fin))
    BY ClockIsTick
<1> DEFINE in == Sampled(fin)
<1>1. /\ TypeOK /\ BusyInv /\ DispTick(in) /\ CtrlTick(NoWrite, busy) /\ RwTick(NoWrite, busy, out)
      /\ StatusTick(NoWrite, out, faultCode, faultOp)
      /\ HistTick(in, more, wrAck) /\ code' = code /\ KvTick(in)
    BY <1>0 DEF IInv, Tick, CoreTick, CsrTick
<1>2. state = "IDLE" /\ busy = FALSE
    BY <1>1 DEF BusyInv, TypeOK, DispTypeOK
<1> HIDE DEF in
<1>3. Rest(in)
    BY <1>1, <1>2
    DEF DispTick, Begin, StartFetch, AwaitHead, Pop, PopOk, Decode, Prepare, AwaitFence, PassFence,
        ReadSreg, Issue, AIssue, AwaitUnit, RetireNext, RetireHalt, Stop, AwaitStop, CloseStop,
        ARetire, AStop, AFault, AAbortEnd, AStepStop
<1>4. out' = Quiet /\ ~busy' /\ ~abortQ'
    BY <1>2, <1>3 DEF Rest, Waits, Steady, KeepRun, LatchAbort
<1>5. ran' = ran
    BY <1>1, <1>2 DEF HistTick, ARetire
<1>6. Kept
    BY <1>1, <1>2 DEF KvTick, Kept
<1>7. ~start' /\ ~step' /\ ~abortRun'
    BY <1>1, <1>2 DEF CtrlTick, Ctrl, NoWrite
<1>8. rowEn' = rowEn /\ tok' = tok /\ pos' = pos /\ pc' = IF out.pcSet THEN out.pcVal ELSE pc
    BY <1>1, <1>2 DEF RwTick, HostWr, NoWrite
<1>9. PcNow' = PcNow
    <2>1. ~Quiet.pcSet
        BY DEF Quiet
    <2> QED BY <1>4, <1>8, <2>1 DEF PcNow
<1>10. StatusNow' = OutBits
    <2>1. ~doneQ /\ ~stepHaltedQ /\ ~errQ
        BY StatusBitsAre
    <2>2. doneQ' = out.done /\ stepHaltedQ' = out.halted /\ errQ' = out.err
        <3>1. out.done \in BOOLEAN /\ out.halted \in BOOLEAN /\ out.err \in BOOLEAN
            BY <1>1 DEF TypeOK, DispTypeOK, Pulses
        <3> QED BY <1>1, <2>1, <3>1 DEF StatusTick
    <2> QED BY <2>2 DEF StatusNow, OutBits, StatusBits
<1> QED BY <1>1, <1>4, <1>5, <1>6, <1>7, <1>8, <1>9, <1>10

-----------------------------------------------------------------------------
(* Types and the order of the tokens *)

\* What the command line, the prompt and the programs are.
LEMMA HostFacts ==
    ASSUME opt \in Options, prompt \in Prompts, phase \in Phases
    PROVE  /\ opt.prefixLen \in Nat /\ opt.maxNew \in Nat /\ opt.step \in BOOLEAN
           /\ opt.save \in BOOLEAN /\ opt.load \in BOOLEAN
           /\ opt.prefixLen # 0 => opt.maxNew = 0
           /\ prompt \in Seq(Tokens) /\ Len(prompt) \in Nat \ {0}
           /\ 0 .. (Len(prompt) + opt.maxNew - 1) \subseteq Positions
           /\ Program[phase].addr \in Addrs /\ Count \in Nat \ {0}
           /\ Last \in Nat
<1>1. /\ opt \in [prefixLen : Nat, maxNew : Nat, step : BOOLEAN, save : BOOLEAN, load : BOOLEAN]
      /\ opt.prefixLen # 0 => opt.maxNew = 0
      /\ prompt \in Seq(Tokens) /\ prompt # <<>>
      /\ 0 .. (Len(prompt) + opt.maxNew - 1) \subseteq Positions
    BY HostAssumption
<1>2. Len(prompt) \in Nat \ {0}
    BY <1>1
<1>3. Program[phase] \in [addr : Addrs, count : Nat \ {0}]
    BY HostAssumption
<1>4. Last \in Nat
    BY <1>1, <1>2 DEF Last
<1> QED BY <1>1, <1>2, <1>3, <1>4 DEF Count

\* The token that follows.
LEMMA ProceedTo ==
    ASSUME opt \in Options, prompt \in Prompts, phase' \in Phases, Last <= Len(prompt),
           NEW p \in Nat, NEW j \in Nat, NEW t \in Tokens, Proceed(p, j, t),
           phase' = "prefill" => p < Last
    PROVE  /\ loc' \in {"old", "finish"} /\ hPos' \in Nat /\ hTok' \in Tokens /\ jj' \in Nat
           /\ phase' = "prefill" =>
                loc' = "old" /\ hPos' = p /\ hTok' = prompt[p + 1] /\ p < Last
           /\ phase' # "prefill" =>
                /\ hPos' = Len(prompt) - 1 + j /\ jj' = j
                /\ j = 0 => hTok' = prompt[Len(prompt)]
                /\ loc' = "old" => j < opt.maxNew
<1>1. prompt \in Seq(Tokens) /\ Len(prompt) \in Nat \ {0} /\ Last \in Nat
    BY HostAssumption DEF Last
<1>2. \A i \in 1 .. Len(prompt) : prompt[i] \in Tokens
    BY <1>1
<1>3. CASE phase' = "prefill"
    <2>1. loc' = "old" /\ hPos' = p /\ hTok' = prompt[p + 1] /\ jj' = 0 /\ p < Last
        BY <1>3 DEF Proceed
    <2>2. p + 1 \in 1 .. Len(prompt)
        BY <1>1, <2>1
    <2> QED BY <1>2, <1>3, <2>1, <2>2
<1>4. CASE phase' # "prefill"
    <2>1. /\ loc' = (IF j < opt.maxNew THEN "old" ELSE "finish") /\ jj' = j
          /\ hPos' = Len(prompt) - 1 + j
          /\ hTok' = IF j = 0 THEN prompt[Len(prompt)] ELSE t
        BY <1>4 DEF Proceed
    <2>2. prompt[Len(prompt)] \in Tokens /\ Len(prompt) - 1 + j \in Nat
        BY <1>1, <1>2
    <2> QED BY <1>4, <2>1, <2>2
<1> QED BY <1>3, <1>4

\* An edge leaves the region and the verdict of their types.
LEMMA KvTypes ==
    ASSUME TypeOK, HostTypes, NEW w, Clock(w)
    PROVE  kv' \in [Context -> Cells] /\ clean' \in BOOLEAN
<1>0. PICK fin, drained, more, wrReady, wrAck, appears \in BOOLEAN : KvTick(Sampled(fin))
    BY ClockIsTick
<1>1. /\ kv \in [Context -> Cells] /\ cmdTok \in Tokens /\ code \in Programs
    BY DEF HostTypes, TypeOK, DispTypeOK
<1>2. <<cmdTok, code>> \in Cells
    BY <1>1 DEF Cells
<1> QED BY <1>0, <1>1, <1>2 DEF KvTick

\* The region as it is read back, and an empty one.
LEMMA RegionTypes ==
    ASSUME kv \in [Context -> Cells]
    PROVE  EmptyKv \in [Context -> Cells] /\ KvBytes \in [Context -> Cells]
<1>1. NoKv \in Cells
    BY DEF Cells
<1> QED BY <1>1 DEF EmptyKv, KvBytes

LEMMA FileTypes ==
    ASSUME HostTypes
    PROVE  /\ file.ids \in Seq(Tokens)
           /\ file.whole => file.image \in Programs /\ file.kv \in [Context -> Cells]
<1>1. CASE file = NoFile
    <2>1. <<>> \in Seq(Tokens)
        OBVIOUS
    <2> QED BY <1>1, <2>1 DEF NoFile
<1>2. CASE file # NoFile
    BY <1>2 DEF HostTypes, Files
<1> QED BY <1>1, <1>2

LEMMA TypesStep ==
    ASSUME TypeOK, HostTypes, PromptInv, HostNext
    PROVE  HostTypes'
<1>1. /\ opt \in Options /\ prompt \in Prompts /\ phase \in Phases
      /\ hPos \in Nat /\ hTok \in Tokens /\ jj \in Nat
      /\ seen \in SUBSET StatusBits /\ index \in Nat /\ covered \in Seq(Tokens)
      /\ kv \in [Context -> Cells]
      /\ file \in Files /\ file.ids \in Seq(Tokens)
      /\ file.whole => file.kv \in [Context -> Cells]
    BY FileTypes DEF HostTypes
<1>2. ASSUME NEW w, Clock(w)
      PROVE  kv' \in [Context -> Cells] /\ clean' \in BOOLEAN
    BY <1>2, KvTypes
<1>3. StatusNow \in SUBSET StatusBits
    BY StatusBitsAre
<1>4. ASSUME StayToken, NEW w, Clock(w), loc' \in Locs, seen' \in {seen, StatusNow},
             index' \in {index, index + 1, 0}
      PROVE  HostTypes'
    <2>1. kv' \in [Context -> Cells] /\ clean' \in BOOLEAN
        BY <1>2, <1>4
    <2> QED BY <1>1, <1>3, <1>4, <2>1 DEF HostTypes, StayToken
<1>5. ASSUME NEW ok \in BOOLEAN, EndToken(ok), NEW w, Clock(w), loc \in InToken,
             seen' \in {seen, StatusNow}
      PROVE  HostTypes'
    <2>1. kv' \in [Context -> Cells] /\ clean' \in BOOLEAN
        BY <1>2, <1>5
    <2>2. covered' \in Seq(Tokens) /\ UNCHANGED <<opt, prompt, file, index>>
        BY <1>1, <1>5 DEF EndToken
    <2>3. /\ phase' \in Phases /\ loc' \in Locs
          /\ hPos' \in Nat /\ hTok' \in Tokens /\ jj' \in Nat
        <3>1. CASE ~ok
            BY <1>1, <1>5, <3>1 DEF EndToken, Locs
        <3>2. CASE ok
            <4>1. PICK t \in Tokens :
                    /\ phase' = IF phase = "prefill" /\ hPos + 1 < Last THEN "prefill" ELSE "decode"
                    /\ Proceed(hPos + 1, IF phase = "prefill" THEN 0 ELSE jj + 1, t)
                BY <1>5, <3>2 DEF EndToken
            <4> DEFINE j == IF phase = "prefill" THEN 0 ELSE jj + 1
            <4>2. /\ phase' \in Phases /\ (phase' = "prefill" => hPos + 1 < Last)
                  /\ hPos + 1 \in Nat /\ j \in Nat /\ Last <= Len(prompt)
                BY <1>1, <1>5, <4>1 DEF Phases, PromptInv
            <4>3. Proceed(hPos + 1, j, t)
                BY <4>1
            <4> HIDE DEF j
            <4> QED BY <1>1, <4>2, <4>3, ProceedTo DEF Locs
        <3> QED BY <3>1, <3>2
    <2> QED BY <1>1, <1>3, <1>5, <2>1, <2>2, <2>3 DEF HostTypes
<1>6. ASSUME Reboot, file' \in Files
      PROVE  HostTypes'
    <2>1. EmptyKv \in [Context -> Cells]
        BY <1>1, RegionTypes
    <2>2. 0 \in Tokens
        BY CsrAssumption
    <2> QED BY <1>6, <2>1, <2>2 DEF Reboot, HostTypes, Locs, Phases
<1>7. CASE Start
    <2>1. ~Refused /\ ~BadLen
        BY <1>7 DEF Start
    <2>2. opt.load => VerifyPrefix
        BY <2>1 DEF Refused
    <2>3. First \in Nat /\ (First < Last => Last <= Len(prompt)) /\ Last <= Len(prompt)
        <3>1. /\ opt.prefixLen \in Nat /\ prompt \in Seq(Tokens) /\ Len(prompt) \in Nat \ {0}
            BY <1>1, HostFacts
        <3>2. First \in Nat
            BY <1>1 DEF First
        <3>3. Last <= Len(prompt)
            BY <2>1, <3>1, <3>2 DEF Last, BadLen
        <3> QED BY <3>2, <3>3
    <2>4. /\ phase' = (IF First < Last THEN "prefill" ELSE "decode") /\ Proceed(First, 0, 0)
          /\ seen' = {} /\ index' = 0 /\ clean' = TRUE
          /\ UNCHANGED <<opt, prompt, file>>
          /\ covered' = (IF opt.load THEN file.ids ELSE <<>>)
          /\ kv' = (IF opt.load THEN file.kv ELSE EmptyKv)
        BY <1>7 DEF Start
    <2>5. phase' \in Phases /\ (phase' = "prefill" => First < Last) /\ 0 \in Tokens
        BY <2>4, CsrAssumption DEF Phases
    <2>6. loc' \in Locs /\ hPos' \in Nat /\ hTok' \in Tokens /\ jj' \in Nat
        BY <1>1, <2>3, <2>4, <2>5, ProceedTo DEF Locs
    <2>7. covered' \in Seq(Tokens)
        BY <1>1, <2>4
    <2>8. kv' \in [Context -> Cells]
        BY <1>1, <2>2, <2>4, RegionTypes DEF VerifyPrefix
    <2> QED BY <1>1, <2>4, <2>5, <2>6, <2>7, <2>8 DEF HostTypes
<1>8. CASE Save
    <2>1. [whole |-> TRUE, ids |-> covered, image |-> code, kv |-> KvBytes] \in Files
        <3>1. code \in Programs /\ KvBytes \in [Context -> Cells]
            BY <1>1, RegionTypes DEF TypeOK
        <3> QED BY <1>1, <3>1 DEF Files
    <2>2. NoFile \in Files
        BY DEF Files
    <2> QED BY <1>6, <1>8, <2>1, <2>2 DEF Save
<1>9. CASE Exit
    BY <1>1, <1>6, <1>9 DEF Exit
<1>10. CASE Stopped
    BY <1>5, <1>10 DEF Stopped, Read, InToken, Locs
<1>11. CASE Argmax
    BY <1>5, <1>11 DEF Argmax, Read, InToken, Locs
<1>12. CASE Eos
    <2>1. kv' \in [Context -> Cells] /\ clean' \in BOOLEAN
        BY <1>2, <1>12 DEF Eos, Read
    <2>2. covered' \in Seq(Tokens)
        BY <1>1, <1>12 DEF Eos
    <2> QED BY <1>1, <1>12, <2>1, <2>2 DEF Eos, HostTypes, Locs
<1>13. CASE Status
    <2>1. CASE "ERR" \in seen'
        BY <1>5, <1>13, <2>1 DEF Status, Read, InToken, Locs
    <2>2. CASE "ERR" \notin seen'
        BY <1>4, <1>13, <2>2 DEF Status, Read, Go, Locs
    <2> QED BY <2>1, <2>2
<1>14. CASE Final
    <2>1. CASE "ERR" \in seen'
        BY <1>5, <1>14, <2>1 DEF Final, Read, InToken, Locs
    <2>2. CASE "ERR" \notin seen'
        BY <1>4, <1>14, <2>2 DEF Final, Read, Go, Locs
    <2> QED BY <2>1, <2>2
<1>15. CASE SetRow
    BY <1>4, <1>15 DEF SetRow, Write, Go, Locs
<1>16. CASE Poll
    BY <1>4, <1>16 DEF Poll, Read, Go, Locs
<1>17. CASE ReadOld \/ ClearOld \/ SetPc \/ SetTok \/ SetPos \/ Launch \/ Ack
    BY <1>4, <1>17
    DEF ReadOld, ClearOld, SetPc, SetTok, SetPos, Launch, Ack, Op, Read, Write, Go, Locs
<1> QED
    BY <1>7, <1>8, <1>9, <1>10, <1>11, <1>12, <1>13, <1>14, <1>15, <1>16, <1>17
    DEF HostNext, Goes, HostOp

\* The tokens covered with the one of this step.
LEMMA Covers ==
    ASSUME HostTypes, PromptInv, loc \in InToken, covered' = Append(covered, hTok)
    PROVE  /\ Len(covered') = hPos + 1
           /\ \A i \in 1 .. Len(covered') : i <= Len(prompt) => covered'[i] = prompt[i]
           /\ \A i \in 1 .. Len(covered) : covered'[i] = covered[i]
           /\ covered'[hPos + 1] = hTok
<1>1. covered \in Seq(Tokens) /\ Len(covered) \in Nat /\ hPos = Len(covered) /\ hTok \in Tokens
    BY DEF HostTypes, PromptInv
<1>2. /\ Len(covered') = Len(covered) + 1
      /\ \A i \in 1 .. Len(covered) : covered'[i] = covered[i]
      /\ covered'[Len(covered) + 1] = hTok
    BY <1>1
<1>3. ASSUME NEW i \in 1 .. Len(covered'), i <= Len(prompt)
      PROVE  covered'[i] = prompt[i]
    <2>1. CASE i \in 1 .. Len(covered)
        BY <1>2, <1>3, <2>1 DEF PromptInv
    <2>2. CASE i = Len(covered) + 1
        <3>1. hPos < Len(prompt)
            BY <1>1, <1>3, <2>2, HostFacts DEF HostTypes
        <3> QED BY <1>1, <1>2, <2>2, <3>1 DEF PromptInv
    <2>3. i \in 1 .. Len(covered) \/ i = Len(covered) + 1
        BY <1>1, <1>2, <1>3
    <2> QED BY <2>1, <2>2, <2>3
<1> QED BY <1>1, <1>2, <1>3

LEMMA PromptStep ==
    ASSUME HostTypes, HostTypes', PromptInv, HostNext
    PROVE  PromptInv'
<1>1. /\ opt \in Options /\ prompt \in Prompts /\ phase \in Phases
      /\ hPos \in Nat /\ hTok \in Tokens /\ jj \in Nat /\ covered \in Seq(Tokens)
      /\ file.ids \in Seq(Tokens) /\ phase' \in Phases
    BY FileTypes DEF HostTypes
<1>2. /\ opt.prefixLen \in Nat /\ opt.maxNew \in Nat
      /\ opt.prefixLen # 0 => opt.maxNew = 0
      /\ prompt \in Seq(Tokens) /\ Len(prompt) \in Nat \ {0} /\ Last \in Nat
    BY <1>1, HostFacts
<1>3. opt' = opt /\ prompt' = prompt => Last' = Last
    BY DEF Last
<1>4. ASSUME StayToken, loc \in InToken, loc' \in InToken
      PROVE  PromptInv'
    BY <1>3, <1>4 DEF PromptInv, StayToken, InToken
<1>5. ASSUME loc \in InToken, loc' \in {"failed", "finish"}, opt' = opt, prompt' = prompt,
             covered' = Append(covered, hTok)
      PROVE  PromptInv'
    BY <1>5, Covers DEF PromptInv, InToken
<1>6. ASSUME NEW ok \in BOOLEAN, EndToken(ok), loc \in InToken
      PROVE  PromptInv'
    <2>1. covered' = Append(covered, hTok) /\ opt' = opt /\ prompt' = prompt /\ Last' = Last
        BY <1>3, <1>6 DEF EndToken
    <2>2. CASE ~ok
        BY <1>5, <1>6, <2>1, <2>2 DEF EndToken
    <2>3. CASE ok
        <3>1. PICK t \in Tokens :
                /\ phase' = IF phase = "prefill" /\ hPos + 1 < Last THEN "prefill" ELSE "decode"
                /\ Proceed(hPos + 1, IF phase = "prefill" THEN 0 ELSE jj + 1, t)
            BY <1>6, <2>3 DEF EndToken
        <3> DEFINE j == IF phase = "prefill" THEN 0 ELSE jj + 1
        <3>2. j \in Nat /\ hPos + 1 \in Nat /\ Proceed(hPos + 1, j, t)
            BY <1>1, <3>1
        <3>3. /\ Last <= Len(prompt) /\ (phase = "prefill" => hPos < Last)
              /\ phase # "prefill" => hPos = Len(prompt) - 1 + jj
            BY <1>6 DEF PromptInv
        <3>4. phase' = "prefill" => hPos + 1 < Last
            BY <3>1
        <3>5. (phase = "prefill" => j = 0) /\ (phase # "prefill" => j = jj + 1)
            OBVIOUS
        <3> HIDE DEF j
        <3>6. /\ loc' \in {"old", "finish"}
              /\ phase' = "prefill" =>
                   /\ loc' = "old" /\ hPos' = hPos + 1 /\ hPos + 1 < Last
                   /\ hTok' = prompt[hPos + 1 + 1]
              /\ phase' # "prefill" =>
                   /\ hPos' = Len(prompt) - 1 + j /\ jj' = j
                   /\ j = 0 => hTok' = prompt[Len(prompt)]
                   /\ loc' = "old" => j < opt.maxNew
            BY <1>1, <3>2, <3>3, <3>4, ProceedTo
        <3>7. CASE loc' = "finish"
            BY <1>5, <1>6, <2>1, <3>7
        <3>8. CASE loc' = "old"
            <4>1. hPos' = hPos + 1
                <5>1. CASE phase' = "prefill"
                    BY <3>6, <5>1
                <5>2. CASE phase' # "prefill" /\ phase # "prefill"
                    BY <1>1, <1>2, <3>3, <3>5, <3>6, <5>2
                <5>3. CASE phase' # "prefill" /\ phase = "prefill"
                    <6>1. hPos + 1 = Last
                        BY <1>1, <1>2, <3>1, <3>3, <5>3
                    <6>2. opt.prefixLen = 0
                        BY <1>2, <3>5, <3>6, <3>8, <5>3
                    <6>3. Last = Len(prompt) - 1
                        BY <6>2 DEF Last
                    <6> QED BY <1>1, <1>2, <3>5, <3>6, <5>3, <6>1, <6>3
                <5> QED BY <5>1, <5>2, <5>3
            <4>2. hPos' < Len(prompt) => hTok' = prompt[hPos' + 1]
                <5>1. CASE phase' = "prefill"
                    BY <3>6, <5>1
                <5>2. CASE phase' # "prefill"
                    <6>1. hPos' < Len(prompt) => j = 0
                        BY <1>1, <1>2, <3>2, <3>6, <5>2
                    <6> QED BY <1>1, <1>2, <3>2, <3>6, <5>2, <6>1
                <5> QED BY <5>1, <5>2
            <4>3. /\ Len(covered') = hPos + 1
                  /\ \A i \in 1 .. Len(covered') : i <= Len(prompt) => covered'[i] = prompt[i]
                BY <1>6, <2>1, Covers
            <4>4. IF phase' = "prefill" THEN hPos' < Last
                  ELSE jj' < opt.maxNew /\ hPos' = Len(prompt) - 1 + jj'
                BY <3>6, <3>8, <4>1
            <4> QED BY <2>1, <3>3, <3>8, <4>1, <4>2, <4>3, <4>4 DEF PromptInv
        <3> QED BY <3>6, <3>7, <3>8
    <2> QED BY <2>2, <2>3
<1>7. CASE Start
    <2>1. /\ phase' = (IF First < Last THEN "prefill" ELSE "decode") /\ Proceed(First, 0, 0)
          /\ opt' = opt /\ prompt' = prompt /\ Last' = Last
          /\ covered' = (IF opt.load THEN file.ids ELSE <<>>)
          /\ ~Refused /\ ~BadLen
        BY <1>3, <1>7 DEF Start
    <2>2. opt.load => VerifyPrefix
        BY <2>1 DEF Refused
    <2>3. First \in Nat /\ First = Len(covered')
        BY <1>1, <2>1 DEF First
    <2>4. Last <= Len(prompt) /\ (opt.prefixLen # 0 => First < Last)
        BY <1>2, <2>1, <2>3 DEF Last, BadLen
    <2>5. \A i \in 1 .. Len(covered') : i <= Len(prompt) => covered'[i] = prompt[i]
        BY <2>1, <2>2 DEF VerifyPrefix
    <2>6. First < Len(prompt)
        BY <1>2, <2>2 DEF VerifyPrefix, First
    <2>7. 0 \in Tokens /\ 0 \in Nat /\ (phase' = "prefill" => First < Last)
        BY <2>1, CsrAssumption
    <2>8. /\ loc' \in {"old", "finish"}
          /\ phase' = "prefill" =>
               loc' = "old" /\ hPos' = First /\ hTok' = prompt[First + 1] /\ First < Last
          /\ phase' # "prefill" =>
               /\ hPos' = Len(prompt) - 1 + 0 /\ jj' = 0
               /\ hTok' = prompt[Len(prompt)]
               /\ loc' = "old" => 0 < opt.maxNew
        BY <1>1, <2>1, <2>3, <2>4, <2>7, ProceedTo
    <2>9. CASE loc' = "finish"
        BY <2>1, <2>5, <2>9 DEF PromptInv, InToken
    <2>10. CASE loc' = "old"
        <3>1. CASE phase' = "prefill"
            BY <2>1, <2>3, <2>4, <2>5, <2>8, <2>10, <3>1 DEF PromptInv
        <3>2. CASE phase' # "prefill"
            <4>1. opt.prefixLen = 0
                BY <1>2, <2>8, <2>10, <3>2
            <4>2. Last = Len(prompt) - 1
                BY <4>1 DEF Last
            <4>3. ~(First < Last)
                BY <2>1, <3>2
            <4>4. First = Len(prompt) - 1
                BY <1>2, <2>3, <2>6, <4>2, <4>3
            <4>5. hPos' = Len(covered') /\ hTok' = prompt[hPos' + 1]
                BY <1>2, <2>3, <2>8, <3>2, <4>4
            <4>6. jj' < opt.maxNew /\ hPos' = Len(prompt) - 1 + jj'
                BY <1>2, <2>8, <2>10, <3>2
            <4> QED BY <2>1, <2>4, <2>5, <2>10, <3>2, <4>5, <4>6 DEF PromptInv
        <3> QED BY <3>1, <3>2
    <2> QED BY <2>8, <2>9, <2>10
<1>8. CASE Save \/ Exit
    <2>1. loc' = "boot" /\ covered' = <<>>
        BY <1>8 DEF Save, Exit, Reboot
    <2> QED BY <2>1 DEF PromptInv, InToken
<1>9. CASE Stopped
    BY <1>6, <1>9 DEF Stopped, InToken, Locs
<1>10. CASE Argmax
    BY <1>6, <1>10 DEF Argmax, InToken, Locs
<1>11. CASE Eos
    BY <1>5, <1>11 DEF Eos, InToken, Locs
<1>12. CASE Status
    <2>1. CASE "ERR" \in seen'
        BY <1>6, <1>12, <2>1 DEF Status, InToken, Locs
    <2>2. CASE "ERR" \notin seen'
        BY <1>4, <1>12, <2>2 DEF Status, Go, InToken, Locs
    <2> QED BY <2>1, <2>2
<1>13. CASE Final
    <2>1. CASE "ERR" \in seen'
        BY <1>6, <1>13, <2>1 DEF Final, InToken, Locs
    <2>2. CASE "ERR" \notin seen'
        BY <1>4, <1>13, <2>2 DEF Final, Go, InToken, Locs
    <2> QED BY <2>1, <2>2
<1>14. CASE SetRow \/ Poll
    BY <1>4, <1>14 DEF SetRow, Poll, Go, InToken, Locs
<1>15. CASE ReadOld \/ ClearOld \/ SetPc \/ SetTok \/ SetPos \/ Launch \/ Ack
    BY <1>4, <1>15
    DEF ReadOld, ClearOld, SetPc, SetTok, SetPos, Launch, Ack, Op, Go, InToken, Locs
<1> QED
    BY <1>7, <1>8, <1>9, <1>10, <1>11, <1>12, <1>13, <1>14, <1>15
    DEF HostNext, Goes, HostOp

-----------------------------------------------------------------------------
(* The core at rest under each operation of the host *)

\* What the host writes at each of its operations.
OpWrite ==
    IF loc \in {"clear", "ack"} THEN [reg |-> "STATUS", val |-> seen]
    ELSE IF loc = "pc" THEN [reg |-> "PC", val |-> Program[phase].addr]
    ELSE IF loc = "tok" THEN [reg |-> "TOK", val |-> hTok]
    ELSE IF loc = "pos" THEN [reg |-> "POS", val |-> hPos]
    ELSE IF loc = "row" THEN [reg |-> "ROW_EN", val |-> {0}]
    ELSE IF loc = "go"
    THEN [reg |-> "CTRL", val |-> IF opt.step THEN {"STEP"} ELSE {"START"}]
    ELSE NoWrite

\* The port takes each of them: POS too reaches the position of every token.
LEMMA OpWrites ==
    ASSUME HostTypes, PromptInv
    PROVE  OpWrite \in HostOps /\ NoWrite \in HostOps
<1>1. /\ opt \in Options /\ prompt \in Prompts /\ phase \in Phases
      /\ hPos \in Nat /\ hTok \in Tokens /\ jj \in Nat /\ seen \in SUBSET StatusBits
    BY DEF HostTypes
<1>2. HostDoes \subseteq HostOps
    BY HostAssumption
<1>3. ASSUME loc = "pos"
      PROVE  hPos \in Positions
    <2>1. /\ opt.maxNew \in Nat /\ Len(prompt) \in Nat \ {0} /\ Last \in Nat
          /\ 0 .. (Len(prompt) + opt.maxNew - 1) \subseteq Positions
        BY <1>1, HostFacts
    <2>2. /\ Last <= Len(prompt)
          /\ IF phase = "prefill" THEN hPos < Last
             ELSE jj < opt.maxNew /\ hPos = Len(prompt) - 1 + jj
        BY <1>3 DEF PromptInv, InToken, Locs
    <2>3. hPos \in 0 .. (Len(prompt) + opt.maxNew - 1)
        BY <1>1, <2>1, <2>2
    <2> QED BY <2>1, <2>3
<1>4. OpWrite \in HostDoes
    <2>1. CASE loc \in {"clear", "ack"}
        BY <1>1, <2>1 DEF OpWrite, HostDoes
    <2>2. CASE loc = "pc"
        BY <1>1, <2>2 DEF OpWrite, HostDoes
    <2>3. CASE loc = "tok"
        BY <1>1, <2>3 DEF OpWrite, HostDoes
    <2>4. CASE loc = "pos"
        BY <1>3, <2>4 DEF OpWrite, HostDoes
    <2>5. CASE loc = "row"
        BY <2>5 DEF OpWrite, HostDoes
    <2>6. CASE loc = "go"
        BY <2>6 DEF OpWrite, HostDoes
    <2>7. CASE loc \notin {"clear", "ack", "pc", "tok", "pos", "row", "go"}
        BY <2>7 DEF OpWrite, HostDoes
    <2> QED BY <2>1, <2>2, <2>3, <2>4, <2>5, <2>6, <2>7
<1>5. NoWrite \in HostDoes
    BY DEF HostDoes
<1> QED BY <1>2, <1>4, <1>5

LEMMA OpClocks ==
    ASSUME HostOp \/ Stopped
    PROVE  Clock(OpWrite) /\ loc \in InToken
<1>1. CASE ReadOld
    BY <1>1 DEF ReadOld, Op, Read, OpWrite, InToken, Locs
<1>2. CASE ClearOld
    BY <1>2 DEF ClearOld, Op, Write, OpWrite, InToken, Locs
<1>3. CASE SetPc
    BY <1>3 DEF SetPc, Op, Write, OpWrite, InToken, Locs
<1>4. CASE SetTok
    BY <1>4 DEF SetTok, Op, Write, OpWrite, InToken, Locs
<1>5. CASE SetPos
    BY <1>5 DEF SetPos, Op, Write, OpWrite, InToken, Locs
<1>6. CASE SetRow
    BY <1>6 DEF SetRow, Write, OpWrite, InToken, Locs
<1>7. CASE Launch
    BY <1>7 DEF Launch, Op, Write, OpWrite, InToken, Locs
<1>8. CASE Ack
    BY <1>8 DEF Ack, Op, Write, OpWrite, InToken, Locs
<1>9. CASE Poll \/ Stopped
    BY <1>9 DEF Poll, Stopped, Read, OpWrite, InToken, Locs
<1>10. CASE Status \/ Final \/ Argmax \/ Eos
    BY <1>10 DEF Status, Final, Argmax, Eos, Op, Read, OpWrite, InToken, Locs
<1> QED
    BY <1>1, <1>2, <1>3, <1>4, <1>5, <1>6, <1>7, <1>8, <1>9, <1>10 DEF HostOp

\* An operation on a core at rest does its write, and nothing else.
LEMMA RestEdge ==
    ASSUME IInv, HostTypes, PromptInv, RestInv, loc \in AtRest, HostOp
    PROVE  /\ ~busy' /\ out' = Quiet /\ ~abortQ' /\ ~abortRun'
           /\ start' = (loc = "go" /\ ~opt.step) /\ step' = (loc = "go" /\ opt.step)
           /\ ran' = ran /\ code' = code /\ kv' = kv /\ clean' = clean
           /\ rowEn' = (IF loc = "row" THEN {0} ELSE rowEn)
           /\ tok' = (IF loc = "tok" THEN hTok ELSE tok)
           /\ pos' = (IF loc = "pos" THEN hPos ELSE pos)
           /\ pc' = (IF loc = "pc" THEN Program[phase].addr ELSE pc)
           /\ PcNow' = pc' /\ PcNow = pc
           /\ StatusNow' = (IF loc \in {"clear", "ack"} THEN {} ELSE StatusNow)
<1> DEFINE w == OpWrite
<1>1. w \in HostOps
    BY OpWrites
<1>2. Clock(w)
    BY OpClocks
<1>3. clean \in BOOLEAN /\ CoreRests /\ ~abortQ /\ ~abortRun /\ opt \in Options
    BY DEF HostTypes, RestInv
<1>4. loc \in {"clear", "ack"} => seen = StatusNow
    BY DEF RestInv
<1>5. opt.step \in BOOLEAN
    BY <1>3, HostAssumption
<1> HIDE DEF w
<1>6. /\ ~busy' /\ out' = Quiet /\ ~abortQ' /\ ~abortRun'
      /\ start' = Ctrl(w, "START") /\ step' = (Ctrl(w, "STEP") /\ ~Ctrl(w, "START"))
      /\ ran' = ran /\ code' = code /\ kv' = kv /\ clean' = clean
      /\ rowEn' = (IF w.reg = "ROW_EN" THEN w.val ELSE rowEn)
      /\ tok' = (IF w.reg = "TOK" THEN w.val ELSE tok)
      /\ pos' = (IF w.reg = "POS" THEN w.val ELSE pos)
      /\ pc' = (IF w.reg = "PC" THEN w.val ELSE pc)
      /\ PcNow' = pc' /\ PcNow = pc
      /\ StatusNow' = StatusNow \ Clears(w)
    BY <1>1, <1>2, <1>3, RestTick
<1>7. /\ (w.reg = "ROW_EN") = (loc = "row") /\ (loc = "row" => w.val = {0})
      /\ (w.reg = "TOK") = (loc = "tok") /\ (loc = "tok" => w.val = hTok)
      /\ (w.reg = "POS") = (loc = "pos") /\ (loc = "pos" => w.val = hPos)
      /\ (w.reg = "PC") = (loc = "pc") /\ (loc = "pc" => w.val = Program[phase].addr)
    BY DEF w, OpWrite, NoWrite
<1>8. /\ Ctrl(w, "START") = (loc = "go" /\ ~opt.step)
      /\ Ctrl(w, "STEP") = (loc = "go" /\ opt.step)
    BY <1>5 DEF w, OpWrite, NoWrite, Ctrl
<1>9. Clears(w) = (IF loc \in {"clear", "ack"} THEN seen ELSE {})
    BY DEF w, OpWrite, NoWrite, Clears
<1>10. StatusNow' = (IF loc \in {"clear", "ack"} THEN {} ELSE StatusNow)
    BY <1>4, <1>6, <1>9
<1>11. start' = (loc = "go" /\ ~opt.step) /\ step' = (loc = "go" /\ opt.step)
    BY <1>5, <1>6, <1>8
<1> QED BY <1>6, <1>7, <1>10, <1>11

-----------------------------------------------------------------------------
(* The run of a token *)

\* The descriptor after the i-th.
LEMMA AtNext ==
    ASSUME NEW ph \in Phases, NEW i \in Nat
    PROVE  At(ph, i + 1) = (At(ph, i) + DescBytes) % AddrMod /\ At(ph, 0) = Program[ph].addr
<1>1. AddrMod \in Nat \ {0} /\ Addrs \subseteq 0 .. (AddrMod - 1)
    BY CsrAssumption
<1>2. Program[ph].addr \in 0 .. (AddrMod - 1)
    BY <1>1, HostAssumption
<1> DEFINE b == Program[ph].addr
<1>3. b \in Int
    BY <1>1, <1>2
<1> HIDE DEF b
<1> DEFINE x == b + 32 * i
<1>4. x \in Int /\ 32 \in Int /\ b + 32 * (i + 1) = x + 32
    BY <1>3
<1> HIDE DEF x
<1>5. ((x % AddrMod) + 32) % AddrMod = (x + 32) % AddrMod
    <2>1. \A m \in Nat \ {0}, u, v \in Int : ((u % m) + v) % m = (u + v) % m
        BY ModAdd
    <2> QED BY ONLY <1>1, <1>4, <2>1
<1>6. At(ph, i + 1) = (At(ph, i) + DescBytes) % AddrMod
    BY <1>4, <1>5 DEF At, DescBytes, x, b
<1>7. b % AddrMod = b
    BY <1>1, <1>2, ModSmall DEF b
<1>8. b + 32 * 0 = b
    BY <1>3
<1> QED BY <1>6, <1>7, <1>8 DEF At, b, DescBytes

\* The HALT of a token is its last descriptor; what is neither a HALT nor
\* unknown is not the last.
LEMMA LastHalts ==
    ASSUME code \in Programs, phase \in Phases, NEW i \in 0 .. (Count - 1)
    PROVE  /\ code[At(phase, i)].op = "HALT" => i + 1 = Count
           /\ code[At(phase, i)].op \notin {"HALT", "BAD"} => i + 1 < Count
<1>1. Count \in Nat \ {0}
    BY HostAssumption DEF Count
<1>2. /\ \A j \in 0 .. (Count - 1 - 1) : code[At(phase, j)].op # "HALT"
      /\ code[At(phase, Count - 1)].op \in {"HALT", "BAD"}
    BY ImageAssumption DEF Count
<1>3. i = Count - 1 \/ i \in 0 .. (Count - 1 - 1)
    BY <1>1
<1> QED BY <1>1, <1>2, <1>3

\* A token that ran to its end has written its K/V.
LEMMA TokenStores ==
    ASSUME code \in Programs, phase \in Phases, Wrote(Count)
    PROVE  Stored
<1>1. Count \in Nat \ {0}
    BY HostAssumption DEF Count
<1>2. PICK j \in 0 .. (Count - 1 - 1) :
          code[At(phase, j)].op = "KVWRITE" /\ 0 \in code[At(phase, j)].rows
    BY ImageAssumption DEF Count
<1>3. j \in 0 .. (Count - 1) /\ Stores(code[At(phase, j)])
    BY <1>1, <1>2 DEF Stores
<1> QED BY <1>3 DEF Wrote

\* The token and the process are the same after a step.
SameToken ==
    /\ opt' = opt /\ phase' = phase /\ hPos' = hPos /\ hTok' = hTok /\ index' = index

\* What was stored stays stored ...
LEMMA StoredKept ==
    ASSUME SameToken, code' = code, Kept, Stored
    PROVE  Stored'
BY DEF SameToken, Kept, Stored

\* ... and so does where the run stands.
LEMMA StandsKept ==
    ASSUME SameToken, code' = code, Kept, PcNow' = PcNow, NEW i \in Nat, Stands(i)
    PROVE  Stands(i)'
<1>1. At(phase, i)' = At(phase, i) /\ \A j : At(phase, j)' = At(phase, j)
    BY DEF SameToken, At
<1>2. Wrote(i)'
    BY <1>1, StoredKept DEF Stands, Wrote, SameToken
<1> QED BY <1>1, <1>2 DEF Stands

\* A write into the region at POS stores the token.
LEMMA PutsStores ==
    ASSUME SameToken, code' = code, Puts, pos = hPos, tok = hTok, kv \in [Context -> Cells]
    PROVE  Stored'
BY DEF SameToken, Puts, Stored

\* An executed descriptor moves the run one on.
LEMMA StandsNext ==
    ASSUME SameToken, code' = code, Executes, pos = hPos, tok = hTok, rowEn = {0},
           kv \in [Context -> Cells], phase \in Phases, NEW i \in Nat, Stands(i)
    PROVE  Stands(i + 1)'
<1>1. \A j : At(phase, j)' = At(phase, j)
    BY DEF SameToken, At
<1>2. PcNow' = At(phase, i + 1)'
    BY <1>1, AtNext DEF Executes, NextPc, Stands
<1>3. ASSUME NEW j \in 0 .. i, Stores(code[At(phase, j)])
      PROVE  Stored'
    <2>1. CASE Puts
        BY <2>1, PutsStores
    <2>2. CASE Kept
        <3>1. CASE j = i
            BY <1>3, <2>1, <3>1 DEF Executes, Stands
        <3>2. CASE j # i
            <4>1. j \in 0 .. (i - 1)
                BY <3>2
            <4>2. Stored
                BY <1>3, <4>1 DEF Stands, Wrote
            <4> QED BY <2>2, <4>2, StoredKept
        <3> QED BY <3>1, <3>2
    <2> QED BY <2>1, <2>2 DEF Executes
<1>4. Wrote(i + 1)'
    <2>1. (i + 1) - 1 = i
        OBVIOUS
    <2> QED BY <1>1, <1>3, <2>1 DEF Wrote, SameToken
<1> QED BY <1>2, <1>4 DEF Stands

\* The facts of a poll that its edge leaves.
Polled ==
    /\ ~start' /\ ~step' /\ ~abortQ' /\ ~abortRun'
    /\ rowEn' = rowEn /\ pos' = pos /\ tok' = tok /\ code' = code
    /\ Kept \/ Puts

\* A run that has ended stays where it is until its report is read.
LEMMA EndedKept ==
    ASSUME SameToken, code' = code, Kept, PcNow' = PcNow, ran' = ran,
           phase \in Phases, NEW S, NEW i \in 0 .. Count, Ended(S, i)
    PROVE  /\ i \in 0 .. Count' /\ Stands(i)'
           /\ "ERR" \notin S =>
                /\ ran' >= 1 /\ (opt'.step => i = index' + 1)
                /\ IF "DONE" \in S THEN i = Count' ELSE opt'.step /\ i < Count'
<1>1. Count' = Count /\ Count \in Nat
    BY HostAssumption DEF SameToken, Count
<1>2. Stands(i)'
    BY <1>1, StandsKept DEF Ended
<1> QED BY <1>1, <1>2 DEF Ended, SameToken

\* A clock of a poll moves the run on, brings its report to STATUS, or reads it.
LEMMA PollEdge ==
    ASSUME RunInv, HostInv, loc = "poll", Clock(NoWrite), SameToken
    PROVE  /\ Polled
           /\ ~ShowsHalt => (Running \/ Halted)'
           /\ ShowsHalt => /\ CoreRests' /\ StatusNow' # {}
                           /\ \E i \in 0 .. Count' : Ended(StatusNow, i)'
<1>1. /\ IInv /\ PlaceInv /\ HostTypes /\ PromptInv /\ RestInv /\ RegsInv /\ RunAt
      /\ clean \in BOOLEAN /\ kv \in [Context -> Cells] /\ opt \in Options /\ phase \in Phases
      /\ ~abortQ /\ ~abortRun /\ tok = hTok /\ pos = hPos /\ rowEn = {0} /\ index \in Nat
    BY DEF RunInv, HostInv, HostTypes, RestInv, RegsInv, InToken, Locs
<1>2. /\ index < Count /\ (~opt.step => index = 0) /\ (Launched \/ Running \/ Halted)
    BY <1>1 DEF RunAt
<1>3. /\ Count \in Nat \ {0} /\ opt.step \in BOOLEAN /\ code \in Programs
      /\ start \in BOOLEAN /\ step \in BOOLEAN /\ busy \in BOOLEAN
    BY <1>1, HostAssumption DEF Count, IInv, TypeOK, CsrTypeOK, DispTypeOK
<1>4. Count' = Count /\ opt' = opt /\ index' = index
    BY DEF SameToken, Count
<1>5. CASE Launched
    <2>1. ~busy /\ (start \/ step) /\ out = Quiet /\ StatusNow = {} /\ Stands(index)
          /\ start = ~opt.step /\ step = opt.step
        BY <1>3, <1>5 DEF Launched
    <2>2. /\ busy' /\ ~start' /\ ~step' /\ ~abortQ' /\ ~abortRun' /\ out' = Quiet
          /\ stepMode' = (step /\ ~start) /\ ran' = 0
          /\ rowEn' = rowEn /\ pos' = pos /\ tok' = tok /\ PcNow' = PcNow
          /\ code' = code /\ kv' = kv /\ clean' = clean /\ StatusNow' = {}
        BY <1>1, <2>1, LaunchTick
    <2>3. Kept
        BY <2>2 DEF Kept
    <2>4. Stands(index)'
        BY <1>1, <1>4, <2>1, <2>2, <2>3, StandsKept
    <2>5. OutBits' = {}
        BY <2>2 DEF OutBits, Quiet, StatusBits
    <2>6. index \in 0 .. (Count - 1) /\ index = index + ran' /\ stepMode' = opt'.step
        BY <1>1, <1>2, <1>3, <1>4, <2>1, <2>2
    <2>7. Running'
        BY <1>4, <2>2, <2>4, <2>5, <2>6 DEF Running
    <2>8. ~ShowsHalt
        BY <2>1 DEF ShowsHalt
    <2> QED BY <2>2, <2>3, <2>7, <2>8 DEF Polled
<1>6. CASE Running
    <2>1. /\ busy /\ ~start /\ ~step /\ StatusNow = {} /\ OutBits = {} /\ stepMode = opt.step
        BY <1>6 DEF Running
    <2>2. PICK i \in 0 .. (Count - 1) : Stands(i) /\ (opt.step => i = index + ran)
        BY <1>6 DEF Running
    <2>3. /\ ~start' /\ ~step' /\ ~abortQ' /\ ~abortRun' /\ StatusNow' = {}
          /\ rowEn' = rowEn /\ pos' = pos /\ tok' = tok /\ code' = code
          /\ GoesOn \/ Executes
        BY <1>1, <2>1, BusyTick
    <2>4. ~ShowsHalt
        BY <2>1 DEF ShowsHalt
    <2>5. i \in Nat /\ i + 1 \in Nat /\ i < Count /\ i \in 0 .. Count /\ ran \in 0 .. 2
        BY <1>1, <1>3 DEF IInv, TypeOK
    <2>6. CASE GoesOn
        <3>1. PcNow' = PcNow /\ ran' = ran /\ Kept
            BY <2>6 DEF GoesOn
        <3>2. Stands(i)'
            BY <2>2, <2>3, <2>5, <3>1, StandsKept
        <3>3. CASE busy'
            <4>1. OutBits' = {} /\ stepMode' = stepMode
                BY <2>6, <3>3 DEF GoesOn
            <4>2. Running'
                BY <1>4, <2>1, <2>2, <2>3, <3>1, <3>2, <3>3, <4>1 DEF Running
            <4> QED BY <2>3, <2>4, <3>1, <4>2 DEF Polled
        <3>4. CASE ~busy'
            <4>1. /\ OutBits' # {}
                  /\ "ERR" \notin OutBits' => stepMode /\ ran = 1 /\ "DONE" \notin OutBits'
                BY <2>6, <3>4 DEF GoesOn
            <4>2. Ended(OutBits, i)'
                BY <1>4, <2>1, <2>2, <2>5, <3>1, <3>2, <4>1 DEF Ended
            <4>3. Halted'
                BY <1>4, <2>3, <2>5, <3>4, <4>1, <4>2 DEF Halted
            <4> QED BY <2>3, <2>4, <3>1, <4>3 DEF Polled
        <3> QED BY <3>3, <3>4
    <2>7. CASE Executes
        <3>1. /\ ran' = (IF ran < 2 THEN ran + 1 ELSE ran) /\ NowOp # "BAD"
              /\ Kept \/ Puts
              /\ stepMode => ran = 0
              /\ IF NowOp = "HALT" THEN ~busy' /\ "ERR" \notin OutBits' /\ "DONE" \in OutBits'
                 ELSE IF busy' THEN OutBits' = {} /\ stepMode' = stepMode
                 ELSE stepMode /\ OutBits' # {} /\ "ERR" \notin OutBits' /\ "DONE" \notin OutBits'
            BY <2>7 DEF Executes
        <3>2. Stands(i + 1)'
            BY <1>1, <2>2, <2>3, <2>5, <2>7, StandsNext
        <3>3. NowOp = code[At(phase, i)].op
            BY <2>2 DEF NowOp, Stands
        <3>4. (NowOp = "HALT" => i + 1 = Count) /\ (NowOp # "HALT" => i + 1 < Count)
            BY <1>1, <1>3, <3>1, <3>3, LastHalts
        <3>5. ran' >= 1 /\ (opt.step => i + 1 = index + 1 /\ i + 1 = index + ran')
            BY <1>1, <2>1, <2>2, <2>5, <3>1
        <3>6. CASE busy'
            <4>1. OutBits' = {} /\ stepMode' = stepMode /\ i + 1 \in 0 .. (Count - 1)
                BY <1>3, <2>5, <3>1, <3>4, <3>6
            <4>2. Running'
                BY <1>4, <2>1, <2>3, <3>2, <3>5, <3>6, <4>1 DEF Running
            <4> QED BY <2>3, <2>4, <3>1, <4>2 DEF Polled
        <3>7. CASE ~busy'
            <4>1. /\ OutBits' # {} /\ "ERR" \notin OutBits'
                  /\ IF "DONE" \in OutBits' THEN i + 1 = Count ELSE opt.step /\ i + 1 < Count
                BY <2>1, <3>1, <3>4, <3>7
            <4>2. i + 1 \in 0 .. Count
                BY <1>3, <2>5
            <4>3. Ended(OutBits, i + 1)'
                BY <1>4, <3>2, <3>5, <4>1, <4>2 DEF Ended
            <4>4. Halted'
                BY <1>4, <2>3, <3>7, <4>1, <4>2, <4>3 DEF Halted
            <4> QED BY <2>3, <2>4, <3>1, <4>4 DEF Polled
        <3> QED BY <3>6, <3>7
    <2> QED BY <2>3, <2>6, <2>7
<1>7. CASE Halted
    <2>1. ~busy /\ ~start /\ ~step
        BY <1>7 DEF Halted
    <2>2. PICK i \in 0 .. Count :
             \/ StatusNow = {} /\ OutBits # {} /\ Ended(OutBits, i)
             \/ out = Quiet /\ StatusNow # {} /\ Ended(StatusNow, i)
        BY <1>7 DEF Halted
    <2>3. CASE StatusNow = {} /\ OutBits # {} /\ Ended(OutBits, i)
        <3>1. /\ ~busy' /\ ~start' /\ ~step' /\ ~abortQ' /\ ~abortRun' /\ out' = Quiet
              /\ StatusNow' = OutBits
              /\ rowEn' = rowEn /\ pos' = pos /\ tok' = tok /\ code' = code
              /\ PcNow' = PcNow /\ ran' = ran /\ Kept
            BY <1>1, <2>1, <2>3, ReportTick
        <3>2. /\ i \in 0 .. Count' /\ Stands(i)'
              /\ "ERR" \notin OutBits =>
                   /\ ran' >= 1 /\ (opt'.step => i = index' + 1)
                   /\ IF "DONE" \in OutBits THEN i = Count' ELSE opt'.step /\ i < Count'
            BY <1>1, <2>3, <3>1, EndedKept
        <3>3. Ended(StatusNow, i)'
            BY <3>1, <3>2 DEF Ended
        <3>4. Halted'
            BY <2>3, <3>1, <3>2, <3>3 DEF Halted
        <3>5. ~ShowsHalt
            BY <2>3 DEF ShowsHalt
        <3> QED BY <3>1, <3>4, <3>5 DEF Polled
    <2>4. CASE out = Quiet /\ StatusNow # {} /\ Ended(StatusNow, i)
        <3> DEFINE w == NoWrite
        <3>1. w \in HostOps /\ CoreRests /\ Clock(w)
            BY <1>1, <2>1, <2>4, OpWrites DEF CoreRests
        <3>2. w.reg = "NONE"
            BY DEF NoWrite
        <3> HIDE DEF w
        <3>3. /\ ~busy' /\ out' = Quiet /\ ~abortQ' /\ ~abortRun'
              /\ start' = Ctrl(w, "START") /\ step' = (Ctrl(w, "STEP") /\ ~Ctrl(w, "START"))
              /\ ran' = ran /\ code' = code /\ kv' = kv /\ clean' = clean
              /\ rowEn' = (IF w.reg = "ROW_EN" THEN w.val ELSE rowEn)
              /\ tok' = (IF w.reg = "TOK" THEN w.val ELSE tok)
              /\ pos' = (IF w.reg = "POS" THEN w.val ELSE pos)
              /\ pc' = (IF w.reg = "PC" THEN w.val ELSE pc)
              /\ PcNow' = pc' /\ PcNow = pc
              /\ StatusNow' = StatusNow \ Clears(w)
            BY <1>1, <3>1, RestTick
        <3>4. ~Ctrl(w, "START") /\ ~Ctrl(w, "STEP") /\ Clears(w) = {}
            BY <3>2 DEF Ctrl, Clears
        <3>5. /\ ~start' /\ ~step' /\ StatusNow' = StatusNow /\ PcNow' = PcNow
              /\ rowEn' = rowEn /\ tok' = tok /\ pos' = pos
            BY <3>2, <3>3, <3>4
        <3>6. Kept
            BY <3>3 DEF Kept
        <3>7. /\ i \in 0 .. Count' /\ Stands(i)'
              /\ "ERR" \notin StatusNow =>
                   /\ ran' >= 1 /\ (opt'.step => i = index' + 1)
                   /\ IF "DONE" \in StatusNow THEN i = Count' ELSE opt'.step /\ i < Count'
            BY <1>1, <2>4, <3>3, <3>5, <3>6, EndedKept
        <3>8. Ended(StatusNow, i)'
            BY <3>5, <3>7 DEF Ended
        <3>9. CoreRests'
            BY <3>3, <3>5 DEF CoreRests
        <3>10. ShowsHalt
            BY <2>1, <2>4 DEF ShowsHalt
        <3> QED BY <2>4, <3>3, <3>5, <3>6, <3>7, <3>8, <3>9, <3>10 DEF Polled
    <2> QED BY <2>2, <2>3, <2>4
<1> QED BY <1>2, <1>5, <1>6, <1>7

\* A poll that goes on, and one that is given up.
LEMMA PollIs ==
    ASSUME Poll \/ Stopped
    PROVE  /\ loc = "poll" /\ Clock(NoWrite) /\ SameToken
           /\ seen' = seen /\ prompt' = prompt /\ jj' = jj
           /\ Poll => loc' = (IF ShowsHalt THEN "status" ELSE "poll") /\ covered' = covered
           /\ Stopped => loc' = "failed" /\ ~ShowsHalt
<1>1. /\ loc = "poll" /\ Clock(NoWrite) /\ SameToken
      /\ seen' = seen /\ prompt' = prompt /\ jj' = jj
    BY DEF Poll, Stopped, Go, StayToken, EndToken, Read, SameToken
<1>2. /\ Poll => loc' = (IF ShowsHalt THEN "status" ELSE "poll") /\ covered' = covered
      /\ Stopped => loc' = "failed" /\ ~ShowsHalt
    BY DEF Poll, Stopped, Go, StayToken, EndToken
<1> QED BY <1>1, <1>2

\* Every operation but the poll is one on a core at rest.
LEMMA OpsAtRest ==
    ASSUME HostOp
    PROVE  IF loc = "poll" THEN Poll ELSE loc \in AtRest
BY DEF HostOp, ReadOld, ClearOld, SetPc, SetTok, SetPos, SetRow, Launch, Poll, Status, Ack,
       Final, Argmax, Eos, Op, AtRest, Locs

\* Where an operation other than the poll leads.
LEMMA OpLeads ==
    ASSUME HostOp, loc # "poll"
    PROVE  /\ loc = "go" <=> loc' = "poll"
           /\ loc' # "boot" /\ loc' \in Locs
           /\ loc' \in {"pc", "tok", "pos", "row", "go"} =>
                loc \in {"clear", "pc", "tok", "pos", "row", "ack"}
           /\ loc' \in {"clear", "ack"} => loc \in {"old", "status"} /\ seen' = StatusNow
           /\ loc' = "failed" => loc \in {"status", "final"}
<1>1. CASE ReadOld \/ ClearOld \/ SetPc \/ SetTok \/ SetPos \/ SetRow \/ Launch \/ Ack
    BY <1>1 DEF ReadOld, ClearOld, SetPc, SetTok, SetPos, SetRow, Launch, Ack, Op, Go, Locs
<1>2. CASE Status \/ Final \/ Eos
    BY <1>2 DEF Status, Final, Eos, EndToken, Go, Locs
<1>3. CASE Argmax
    BY <1>3 DEF Argmax, EndToken, Proceed, Locs
<1> QED BY <1>1, <1>2, <1>3 DEF HostOp, Poll

LEMMA RestStep ==
    ASSUME RunInv, HostInv, HostNext
    PROVE  RestInv'
<1>1. /\ IInv /\ HostTypes /\ PromptInv /\ RestInv
      /\ ~abortQ /\ ~abortRun
    BY DEF RunInv, HostInv, RestInv
<1>2. CASE Start
    <2>1. loc = "boot" /\ loc' \in {"old", "finish"} /\ UNCHANGED vars
        BY <1>2 DEF Start, Proceed
    <2>2. CoreRests
        BY <1>1, <2>1 DEF RestInv, AtRest, Locs
    <2>3. CoreRests' /\ ~abortQ' /\ ~abortRun'
        BY <1>1, <2>1, <2>2 DEF CoreRests, vars, csrVars, pulseVars, dispVars, fsmVars, cmdVars
    <2> QED BY <2>1, <2>3 DEF RestInv
<1>3. CASE HostOp /\ loc # "poll"
    <2>1. loc \in AtRest
        BY <1>3, OpsAtRest
    <2>2. /\ ~busy' /\ out' = Quiet /\ ~abortQ' /\ ~abortRun'
          /\ start' = (loc = "go" /\ ~opt.step) /\ step' = (loc = "go" /\ opt.step)
          /\ StatusNow' = (IF loc \in {"clear", "ack"} THEN {} ELSE StatusNow)
        BY <1>1, <1>3, <2>1, RestEdge
    <2>3. /\ loc = "go" <=> loc' = "poll"
          /\ loc' \in {"pc", "tok", "pos", "row", "go"} =>
               loc \in {"clear", "pc", "tok", "pos", "row", "ack"}
          /\ loc' \in {"clear", "ack"} => loc \in {"old", "status"} /\ seen' = StatusNow
          /\ loc' = "failed" => loc \in {"status", "final"}
        BY <1>3, OpLeads
    <2>4. loc' \in AtRest => CoreRests'
        BY <2>2, <2>3 DEF AtRest, CoreRests
    <2>5. loc' \in {"pc", "tok", "pos", "row", "go"} => StatusNow' = {}
        <3>1. loc \in {"pc", "tok", "pos", "row"} => StatusNow = {}
            BY <1>1 DEF RestInv
        <3> QED BY <2>2, <2>3, <3>1
    <2>6. loc' \in {"clear", "ack"} => seen' = StatusNow'
        BY <2>2, <2>3
    <2>7. loc' = "failed" => ~start' /\ ~step'
        BY <2>2, <2>3
    <2> QED BY <2>2, <2>4, <2>5, <2>6, <2>7 DEF RestInv
<1>4. CASE Poll \/ Stopped
    <2>1. /\ loc = "poll" /\ Clock(NoWrite) /\ SameToken
          /\ loc' \in {"failed", "status", "poll"} /\ (loc' = "status" => ShowsHalt)
        BY <1>4, PollIs
    <2>2. Polled /\ (ShowsHalt => CoreRests')
        BY <2>1, PollEdge
    <2> QED BY <2>1, <2>2 DEF RestInv, Polled, AtRest
<1>5. CASE Save \/ Exit
    <2>1. Reset /\ loc' = "boot"
        BY <1>5 DEF Save, Exit, Reboot
    <2>2. CoreRests' /\ ~abortQ' /\ ~abortRun'
        BY <2>1 DEF Reset, CoreRests
    <2> QED BY <2>1, <2>2 DEF RestInv
<1> QED
    BY <1>2, <1>3, <1>4, <1>5, OpsAtRest DEF HostNext, Goes

LEMMA RegsStep ==
    ASSUME RunInv, HostInv, HostNext
    PROVE  RegsInv'
<1>1. IInv /\ HostTypes /\ PromptInv /\ RestInv /\ RegsInv
    BY DEF RunInv, HostInv
<1>2. CASE Start
    BY <1>2 DEF Start, Proceed, RegsInv, InToken
<1>3. CASE HostOp /\ loc # "poll"
    <2>1. loc \in AtRest
        BY <1>3, OpsAtRest
    <2>2. /\ rowEn' = (IF loc = "row" THEN {0} ELSE rowEn)
          /\ tok' = (IF loc = "tok" THEN hTok ELSE tok)
          /\ pos' = (IF loc = "pos" THEN hPos ELSE pos)
          /\ pc' = (IF loc = "pc" THEN Program[phase].addr ELSE pc)
        BY <1>1, <1>3, <2>1, RestEdge
    <2>3. CASE ReadOld \/ ClearOld \/ SetPc \/ SetTok \/ SetPos \/ SetRow
        BY <1>1, <2>2, <2>3
        DEF ReadOld, ClearOld, SetPc, SetTok, SetPos, SetRow, Op, Go, StayToken, RegsInv, InToken,
            Locs
    <2>4. CASE Launch \/ Ack
        BY <1>1, <2>2, <2>4 DEF Launch, Ack, Op, Go, StayToken, RegsInv, InToken, Locs
    <2>5. CASE Status \/ Final
        BY <1>1, <2>2, <2>5 DEF Status, Final, EndToken, Go, StayToken, RegsInv, InToken, Locs
    <2>6. CASE Argmax \/ Eos
        BY <2>6 DEF Argmax, Eos, EndToken, Proceed, RegsInv, InToken, Locs
    <2> QED BY <1>3, <2>3, <2>4, <2>5, <2>6 DEF HostOp, Poll
<1>4. CASE Poll \/ Stopped
    <2>1. /\ loc = "poll" /\ Clock(NoWrite) /\ SameToken /\ loc' \in {"failed", "status", "poll"}
        BY <1>4, PollIs
    <2>2. Polled
        BY <2>1, PollEdge
    <2>3. tok = hTok /\ pos = hPos /\ rowEn = {0}
        BY <1>1, <2>1 DEF RegsInv, InToken, Locs
    <2> QED BY <2>1, <2>2, <2>3 DEF RegsInv, Polled, SameToken
<1>5. CASE Save \/ Exit
    BY <1>5 DEF Save, Exit, Reboot, RegsInv, InToken
<1> QED
    BY <1>2, <1>3, <1>4, <1>5, OpsAtRest DEF HostNext, Goes

LEMMA RunAtStep ==
    ASSUME RunInv, HostInv, HostTypes', HostNext
    PROVE  RunAt'
<1>1. /\ IInv /\ HostTypes /\ PromptInv /\ RestInv /\ RegsInv /\ RunAt
      /\ opt \in Options /\ phase \in Phases /\ index \in Nat
    BY DEF RunInv, HostInv, HostTypes
<1>2. Count \in Nat \ {0} /\ opt.step \in BOOLEAN
    BY <1>1, HostAssumption DEF Count
<1>3. CASE Start
    BY <1>3 DEF Start, Proceed, RunAt
<1>4. CASE HostOp /\ loc # "poll"
    <2>1. loc \in AtRest
        BY <1>4, OpsAtRest
    <2>2. /\ ~busy' /\ out' = Quiet
          /\ start' = (loc = "go" /\ ~opt.step) /\ step' = (loc = "go" /\ opt.step)
          /\ ran' = ran /\ code' = code /\ kv' = kv /\ clean' = clean
          /\ pc' = (IF loc = "pc" THEN Program[phase].addr ELSE pc)
          /\ PcNow' = pc' /\ PcNow = pc
          /\ StatusNow' = (IF loc \in {"clear", "ack"} THEN {} ELSE StatusNow)
        BY <1>1, <1>4, <2>1, RestEdge
    <2>3. Kept /\ (loc # "pc" => PcNow' = PcNow)
        BY <2>2 DEF Kept
    <2>4. CASE ReadOld \/ ClearOld \/ SetPc \/ SetTok \/ SetPos
        BY <2>4 DEF ReadOld, ClearOld, SetPc, SetTok, SetPos, Op, Go, RunAt
    <2>5. CASE SetRow
        <3>1. loc = "row" /\ loc' = "go" /\ index' = 0 /\ phase' = phase
            BY <2>5 DEF SetRow, Go, StayToken
        <3>2. PcNow' = At(phase, 0) /\ Count' = Count
            BY <1>1, <2>2, <3>1, AtNext DEF RegsInv, Count
        <3>3. Wrote(0)'
            BY DEF Wrote
        <3>4. Stands(0)'
            BY <3>1, <3>2, <3>3 DEF Stands, At
        <3> QED BY <1>2, <3>1, <3>2, <3>4 DEF RunAt
    <2>6. CASE Launch
        <3>1. loc = "go" /\ loc' = "poll" /\ SameToken
            BY <2>6 DEF Launch, Op, Go, StayToken, SameToken
        <3>2. StatusNow = {} /\ Stands(index) /\ index < Count /\ (~opt.step => index = 0)
            BY <1>1, <3>1 DEF RestInv, RunAt
        <3>3. Count' = Count /\ opt' = opt /\ index' = index /\ StatusNow' = {}
            BY <2>2, <3>1, <3>2 DEF SameToken, Count
        <3>4. Stands(index)'
            BY <1>1, <2>2, <2>3, <3>1, <3>2, <3>3, StandsKept
        <3>5. Launched'
            BY <1>2, <2>2, <3>1, <3>3, <3>4 DEF Launched
        <3> QED BY <3>1, <3>2, <3>3, <3>5 DEF RunAt
    <2>7. CASE Status
        <3>1. loc = "status" /\ seen' = StatusNow
            BY <2>7 DEF Status
        <3>2. CASE "ERR" \in seen'
            BY <2>7, <3>2 DEF Status, EndToken, RunAt
        <3>3. CASE "ERR" \notin seen'
            <4>1. /\ index' = (IF opt.step THEN index + 1 ELSE index)
                  /\ loc' = (IF opt.step THEN "ack" ELSE "argmax")
                  /\ opt' = opt /\ phase' = phase /\ hPos' = hPos /\ hTok' = hTok
                BY <2>7, <3>3 DEF Status, Go, StayToken
            <4>2. PICK i \in 0 .. Count : Ended(StatusNow, i)
                BY <1>1, <3>1 DEF RunAt
            <4>3. /\ Stands(i) /\ ran >= 1 /\ (opt.step => i = index + 1)
                  /\ IF "DONE" \in StatusNow THEN i = Count ELSE opt.step /\ i < Count
                BY <3>1, <3>3, <4>2 DEF Ended
            <4>4. Stands(i)'
                <5>1. /\ At(phase, i)' = At(phase, i) /\ \A j : At(phase, j)' = At(phase, j)
                    BY <4>1 DEF At
                <5>2. Stored => Stored'
                    BY <2>2, <4>1 DEF Stored
                <5> QED BY <2>1, <2>2, <2>3, <3>1, <4>1, <4>3, <5>1, <5>2 DEF Stands, Wrote
            <4>5. Count' = Count /\ ran' >= 1
                BY <2>2, <4>1, <4>3 DEF Count
            <4>6. CASE opt.step
                <5>1. loc' = "ack" /\ i = index' /\ opt'.step
                    BY <4>1, <4>3, <4>6
                <5> QED BY <3>1, <4>3, <4>4, <4>5, <5>1 DEF RunAt
            <4>7. CASE ~opt.step
                <5>1. loc' = "argmax" /\ i = Count' /\ ~opt'.step
                    BY <4>1, <4>3, <4>5, <4>7
                <5> QED BY <4>4, <4>5, <5>1 DEF RunAt
            <4> QED BY <4>6, <4>7
        <3> QED BY <3>2, <3>3
    <2>8. CASE Ack
        <3>1. /\ loc = "ack" /\ SameToken /\ loc' = (IF "DONE" \in seen THEN "final" ELSE "go")
            BY <2>8 DEF Ack, Op, Go, StayToken, SameToken
        <3>2. /\ opt.step /\ Stands(index) /\ ran >= 1
              /\ IF "DONE" \in seen THEN index = Count ELSE index < Count
            BY <1>1, <3>1 DEF RunAt
        <3>3. Count' = Count /\ opt' = opt /\ index' = index /\ ran' = ran
            BY <2>2, <3>1 DEF SameToken, Count
        <3>4. Stands(index)'
            BY <1>1, <2>2, <2>3, <3>1, <3>2, <3>3, StandsKept
        <3> QED BY <3>1, <3>2, <3>3, <3>4 DEF RunAt
    <2>9. CASE Final
        <3>1. CASE "ERR" \in seen'
            BY <2>9, <3>1 DEF Final, EndToken, RunAt
        <3>2. CASE "ERR" \notin seen'
            <4>1. loc = "final" /\ loc' = "argmax" /\ SameToken
                BY <2>9, <3>2 DEF Final, Go, StayToken, SameToken
            <4>2. opt.step /\ index = Count /\ Stands(Count) /\ ran >= 1
                BY <1>1, <4>1 DEF RunAt
            <4>3. Count' = Count /\ index' = index /\ ran' = ran
                BY <2>2, <4>1 DEF SameToken, Count
            <4>4. Stands(index)'
                BY <1>1, <2>2, <2>3, <4>1, <4>2, <4>3, StandsKept
            <4>5. Stands(Count)'
                BY <4>2, <4>3, <4>4
            <4> QED BY <4>1, <4>2, <4>3, <4>5 DEF RunAt
        <3> QED BY <3>1, <3>2
    <2>10. CASE Argmax \/ Eos
        BY <2>10 DEF Argmax, Eos, EndToken, Proceed, RunAt
    <2> QED
        BY <1>4, <2>4, <2>5, <2>6, <2>7, <2>8, <2>9, <2>10 DEF HostOp, Poll
<1>5. CASE Poll \/ Stopped
    <2>1. /\ loc = "poll" /\ Clock(NoWrite) /\ SameToken
          /\ \/ loc' = "failed"
             \/ loc' = (IF ShowsHalt THEN "status" ELSE "poll")
        BY <1>5, PollIs
    <2>2. /\ ~ShowsHalt => (Running \/ Halted)'
          /\ ShowsHalt => StatusNow' # {} /\ \E i \in 0 .. Count' : Ended(StatusNow, i)'
        BY <2>1, PollEdge
    <2>3. /\ Count' = Count /\ opt' = opt /\ index' = index
          /\ index < Count /\ (~opt.step => index = 0)
        BY <1>1, <2>1 DEF SameToken, Count, RunAt
    <2> QED BY <2>1, <2>2, <2>3 DEF RunAt
<1>6. CASE Save \/ Exit
    BY <1>6 DEF Save, Exit, Reboot, RunAt
<1> QED
    BY <1>3, <1>4, <1>5, <1>6, OpsAtRest DEF HostNext, Goes

\* A step on a core at rest moves nothing in the region: what was covered is
\* still there.
LEMMA KvInvKept ==
    ASSUME KvInv, loc # "failed", covered' = covered, code' = code, Kept
    PROVE  KvInv'
BY DEF KvInv, Kept

\* A token that completes adds the position it has written.
LEMMA KvInvGrows ==
    ASSUME HostTypes, PromptInv, KvInv, loc \in InToken, covered' = Append(covered, hTok),
           code' = code, kv' = kv, clean' = clean, Stored
    PROVE  KvInv'
<1>1. covered \in Seq(Tokens) /\ Len(covered) \in Nat /\ hPos = Len(covered)
    BY DEF HostTypes, PromptInv
<1>2. /\ Len(covered') = hPos + 1
      /\ \A i \in 1 .. Len(covered) : covered'[i] = covered[i]
      /\ covered'[hPos + 1] = hTok
    BY Covers
<1>3. ASSUME NEW i \in 1 .. Len(covered')
      PROVE  IF i - 1 \in Context THEN kv'[i - 1] = <<covered'[i], code'>> ELSE ~clean'
    <2>1. CASE i \in 1 .. Len(covered)
        BY <1>2, <2>1 DEF KvInv, InToken, Locs
    <2>2. CASE i = hPos + 1
        <3>1. i - 1 = hPos
            BY <1>1, <2>2
        <3> QED BY <1>2, <2>2, <3>1 DEF Stored
    <2>3. i \in 1 .. Len(covered) \/ i = hPos + 1
        BY <1>1, <1>2
    <2> QED BY <2>1, <2>2, <2>3
<1> QED BY <1>3 DEF KvInv

LEMMA KvStep ==
    ASSUME RunInv, HostInv, HostNext
    PROVE  KvInv'
<1>1. /\ IInv /\ HostTypes /\ PromptInv /\ RestInv /\ RegsInv /\ RunAt /\ KvInv
      /\ SavedIsComplete /\ opt \in Options /\ phase \in Phases /\ code \in Programs
      /\ covered \in Seq(Tokens)
    BY DEF RunInv, IInv, TypeOK, HostInv, HostTypes
<1>2. CASE Start
    <2>1. /\ loc = "boot" /\ ~Refused /\ code' = code
          /\ covered' = (IF opt.load THEN file.ids ELSE <<>>)
          /\ kv' = (IF opt.load THEN file.kv ELSE EmptyKv)
        BY <1>2 DEF Start, vars
    <2>2. CASE opt.load
        <3>1. file.whole /\ file.image = code
            BY <2>1, <2>2 DEF Refused, VerifyPrefix
        <3> QED BY <1>1, <2>1, <2>2, <3>1 DEF SavedIsComplete, KvInv
    <2>3. CASE ~opt.load
        BY <2>1, <2>3 DEF KvInv
    <2> QED BY <2>2, <2>3
<1>3. CASE HostOp /\ loc # "poll"
    <2>1. loc \in AtRest /\ loc \in InToken
        BY <1>3, OpsAtRest, OpClocks
    <2>2. ran' = ran /\ code' = code /\ kv' = kv /\ clean' = clean
        BY <1>1, <1>3, <2>1, RestEdge
    <2>3. Kept /\ loc # "failed"
        BY <2>1, <2>2 DEF Kept, InToken
    <2>4. CASE ReadOld \/ ClearOld \/ SetPc \/ SetTok \/ SetPos \/ SetRow \/ Launch \/ Ack
        <3>1. covered' = covered
            BY <2>4
            DEF ReadOld, ClearOld, SetPc, SetTok, SetPos, SetRow, Launch, Ack, Op, Go, StayToken
        <3> QED BY <1>1, <2>2, <2>3, <3>1, KvInvKept
    <2>5. CASE Status \/ Final
        <3>1. loc' = "failed" \/ covered' = covered
            BY <2>5 DEF Status, Final, EndToken, Go, StayToken
        <3>2. CASE loc' = "failed"
            BY <3>2 DEF KvInv
        <3> QED BY <1>1, <2>2, <2>3, <3>1, <3>2, KvInvKept
    <2>6. CASE Argmax \/ Eos
        <3>1. loc = "argmax" /\ covered' = Append(covered, hTok)
            BY <2>6 DEF Argmax, Eos, EndToken
        <3>2. Wrote(Count)
            BY <1>1, <3>1 DEF RunAt, Stands
        <3>3. Stored
            BY <1>1, <3>2, TokenStores
        <3> QED BY <1>1, <2>1, <2>2, <3>1, <3>3, KvInvGrows
    <2> QED BY <1>3, <2>4, <2>5, <2>6 DEF HostOp, Poll
<1>4. CASE Poll
    <2>1. /\ loc = "poll" /\ Clock(NoWrite) /\ SameToken /\ covered' = covered
        BY <1>4, PollIs
    <2>2. code' = code /\ (Kept \/ Puts)
        BY <2>1, PollEdge DEF Polled
    <2>3. hPos = Len(covered) /\ pos = hPos /\ Len(covered) \in Nat
        BY <1>1, <2>1 DEF PromptInv, RegsInv, InToken, Locs
    <2>4. CASE Kept
        BY <1>1, <2>1, <2>2, <2>4, KvInvKept
    <2>5. CASE Puts
        <3>1. \A p \in Context : p # pos => kv'[p] = kv[p]
            BY <1>1, <2>5 DEF Puts, HostTypes
        <3>2. clean' => clean
            BY <2>5 DEF Puts
        <3>3. \A i \in 1 .. Len(covered) : i - 1 # pos
            BY <2>3
        <3> QED BY <1>1, <2>1, <2>2, <3>1, <3>2, <3>3 DEF KvInv
    <2> QED BY <2>2, <2>4, <2>5
<1>5. CASE Stopped
    BY <1>5, PollIs DEF KvInv
<1>6. CASE Save \/ Exit
    BY <1>6 DEF Save, Exit, Reboot, KvInv
<1> QED
    BY <1>2, <1>3, <1>4, <1>5, <1>6, OpsAtRest DEF HostNext, Goes

LEMMA SavedStep ==
    ASSUME RunInv, HostInv, HostNext
    PROVE  SavedIsComplete'
<1>1. /\ IInv /\ PlaceInv /\ HostTypes /\ RestInv /\ KvInv /\ SavedIsComplete
    BY DEF RunInv, HostInv
<1>2. CASE file' = file
    BY <1>1, <1>2 DEF SavedIsComplete
<1>3. CASE file' = NoFile
    BY <1>3 DEF SavedIsComplete, NoFile
<1>4. CASE Save /\ file' # NoFile
    <2>1. /\ loc = "finish" /\ clean
          /\ file' = [whole |-> TRUE, ids |-> covered, image |-> code, kv |-> KvBytes]
        BY <1>4 DEF Save, Saves
    <2>2. state = "IDLE"
        BY <1>1, <2>1 DEF RestInv, AtRest, Locs, CoreRests, IInv, BusyInv, TypeOK, DispTypeOK
    <2>3. opened = 0
        BY <1>1, <2>2 DEF PlaceInv
    <2>4. \A p \in Context : KvBytes[p] = kv[p]
        BY <2>3 DEF KvBytes
    <2>5. \A i \in 1 .. Len(covered) : i - 1 \in Context /\ kv[i - 1] = <<covered[i], code>>
        BY <1>1, <2>1 DEF KvInv
    <2> QED BY <2>1, <2>4, <2>5 DEF SavedIsComplete
<1>5. file' = file \/ file' = NoFile \/ Save
    BY DEF HostNext, Goes, HostOp, Start, ReadOld, ClearOld, SetPc, SetTok, SetPos, SetRow, Launch,
           Poll, Status, Ack, Final, Argmax, Eos, Stopped, Exit, Save, Op, Go, StayToken, EndToken
<1> QED BY <1>2, <1>3, <1>4, <1>5

-----------------------------------------------------------------------------
(* The inductive invariant of the harness and what follows from it *)

LEMMA HostInvInit == HostInit => Init /\ HostInv
<1> SUFFICES ASSUME HostInit PROVE Init /\ HostInv
    OBVIOUS
<1>1. /\ Init /\ loc = "boot" /\ opt \in Options /\ prompt \in Prompts
      /\ phase = "prefill" /\ hPos = 0 /\ hTok = 0 /\ jj = 0
      /\ seen = {} /\ index = 0 /\ covered = <<>> /\ clean = TRUE
      /\ file = NoFile /\ kv = EmptyKv
    BY DEF HostInit
<1>2. ~abortRun /\ ~abortQ /\ CoreRests
    BY <1>1 DEF Init, CsrInit, DispInit, CoreRests
<1>3. HostTypes
    <2>1. EmptyKv \in [Context -> Cells]
        BY DEF EmptyKv, Cells
    <2>2. 0 \in Tokens /\ <<>> \in Seq(Tokens)
        BY CsrAssumption
    <2> QED BY <1>1, <2>1, <2>2 DEF HostTypes, Locs, Phases, Files
<1>4. PromptInv /\ RestInv /\ RegsInv /\ RunAt /\ KvInv
    BY <1>1, <1>2 DEF PromptInv, RestInv, RegsInv, RunAt, KvInv, InToken
<1>5. SavedIsComplete
    BY <1>1 DEF SavedIsComplete, NoFile
<1> QED BY <1>1, <1>3, <1>4, <1>5 DEF HostInv

\* The core under the harness takes a step of its own, rests or is reset.
LEMMA HostMovesCore ==
    ASSUME HostTypes, PromptInv, HostNext
    PROVE  [Next]_vars \/ Init'
<1>1. CASE Start
    BY <1>1 DEF Start
<1>2. CASE HostOp \/ Stopped
    BY <1>2, OpClocks, OpWrites, ClockIsNext
<1>3. CASE Save \/ Exit
    <2>1. Reset
        BY <1>3 DEF Save, Exit, Reboot
    <2> QED BY <2>1 DEF Reset, Init, CsrInit, DispInit, WriteInit, Stream!StreamInit
<1> QED BY <1>1, <1>2, <1>3 DEF HostNext, Goes

LEMMA HostInvStep ==
    RunInv /\ HostInv /\ [HostNext]_hvars => ([Next]_vars \/ Init') /\ HostInv'
<1> SUFFICES ASSUME RunInv, HostInv, [HostNext]_hvars
             PROVE  ([Next]_vars \/ Init') /\ HostInv'
    OBVIOUS
<1>1. CASE UNCHANGED hvars
    <2>1. UNCHANGED vars /\ UNCHANGED hostVars
        BY <1>1 DEF hvars
    <2>2. HostTypes' /\ PromptInv' /\ KvInv' /\ SavedIsComplete'
        BY <2>1 DEF HostInv, hostVars, vars, HostTypes, PromptInv, KvInv, SavedIsComplete, Last
    <2>3. UNCHANGED <<out, busy, start, step, abortRun, abortQ, pc, tok, pos, rowEn, ran, code,
                      stepMode, doneQ, stepHaltedQ, errQ>>
        BY <2>1 DEF vars, csrVars, pulseVars, rwVars, statusVars, dispVars, fsmVars, cmdVars,
                    histVars
    <2>4. StatusNow' = StatusNow /\ OutBits' = OutBits /\ PcNow' = PcNow /\ CoreRests' = CoreRests
        BY <2>3 DEF StatusNow, OutBits, PcNow, CoreRests
    <2>5. RestInv' /\ RegsInv'
        BY <2>1, <2>3, <2>4 DEF HostInv, hostVars, RestInv, RegsInv
    <2>6. /\ Count' = Count /\ \A i : Stands(i)' = Stands(i)
        BY <2>1, <2>3, <2>4 DEF hostVars, Count, Stands, Wrote, Stored, At
    <2>7. /\ \A i : Ended(StatusNow, i)' = Ended(StatusNow, i)
          /\ \A i : Ended(OutBits, i)' = Ended(OutBits, i)
        BY <2>1, <2>3, <2>4, <2>6 DEF hostVars, Ended
    <2>8. Launched' = Launched
        BY <2>1, <2>3, <2>4, <2>6 DEF hostVars, Launched, Stands, Wrote, Stored, At
    <2>9. Running' = Running
        BY <2>1, <2>3, <2>4, <2>6 DEF hostVars, Running
    <2>10. Halted' = Halted
        BY <2>3, <2>4, <2>6, <2>7 DEF Halted
    <2>11. RunAt'
        BY <2>1, <2>3, <2>4, <2>6, <2>7, <2>8, <2>9, <2>10
        DEF HostInv, hostVars, RunAt, Stands, Wrote, Stored, At
    <2> QED BY <2>1, <2>2, <2>5, <2>11 DEF HostInv
<1>2. CASE HostNext
    <2>1. TypeOK /\ HostTypes /\ PromptInv
        BY DEF RunInv, IInv, HostInv
    <2>2. HostTypes'
        BY <1>2, <2>1, TypesStep
    <2>3. PromptInv'
        BY <1>2, <2>1, <2>2, PromptStep
    <2>4. RestInv'
        BY <1>2, RestStep
    <2>5. RegsInv'
        BY <1>2, RegsStep
    <2>6. RunAt'
        BY <1>2, <2>2, RunAtStep
    <2>7. KvInv'
        BY <1>2, KvStep
    <2>8. SavedIsComplete'
        BY <1>2, SavedStep
    <2>9. [Next]_vars \/ Init'
        BY <1>2, <2>1, HostMovesCore
    <2> QED BY <2>2, <2>3, <2>4, <2>5, <2>6, <2>7, <2>8, <2>9 DEF HostInv
<1> QED BY <1>1, <1>2

\* The strengthening holds in every reachable state, through every process and
\* every reset: the core's own invariant and the harness's.
THEOREM HostInductive == HostSpec => [](RunInv /\ HostInv)
BY HostInvInit, HostInvStep, RunInvInit, RunInvStep, PTL DEF HostSpec

\* What the host takes for the end of its run is that: the core is idle with no
\* command on its way, and the run reports an error or has executed something
\* (run_until_halt, step_program).
THEOREM ReportsOwn == HostSpec => []ReportIsOwn
<1>1. HostInv => ReportIsOwn
    <2> SUFFICES ASSUME HostInv, loc \in {"status", "argmax", "ack"}
                 PROVE  ~busy /\ ~start /\ ~step /\ (errQ \/ ran >= 1)
        BY DEF ReportIsOwn
    <2>1. ~busy /\ ~start /\ ~step
        BY DEF HostInv, RestInv, AtRest, Locs, CoreRests
    <2>2. CASE loc = "status"
        <3>1. PICK i \in 0 .. Count : Ended(StatusNow, i)
            BY <2>2 DEF HostInv, RunAt
        <3>2. "ERR" \in StatusNow \/ ran >= 1
            BY <3>1 DEF Ended
        <3> QED BY <2>1, <3>2, StatusBitsAre
    <2>3. CASE loc \in {"argmax", "ack"}
        BY <2>1, <2>3 DEF HostInv, RunAt
    <2> QED BY <2>2, <2>3
<1> QED BY <1>1, HostInductive, PTL

\* A step the host counts is that of the descriptor it counts: PC stands behind
\* exactly the descriptors of the dump plan so far, and behind the whole program
\* when a token is over (step_program, run_token).
THEOREM ReportsPlace == HostSpec => []ReportIsPlace
<1>1. HostInv => ReportIsPlace
    <2> SUFFICES ASSUME HostInv, loc \in {"ack", "argmax"}
                 PROVE  pc = At(phase, IF opt.step THEN index ELSE Count)
        BY DEF ReportIsPlace, At, Count
    <2>1. out = Quiet
        BY DEF HostInv, RestInv, AtRest, Locs, CoreRests
    <2>2. pc = PcNow
        BY <2>1 DEF PcNow, Quiet
    <2>3. Stands(IF opt.step THEN index ELSE Count)
        BY DEF HostInv, RunAt
    <2> QED BY <2>2, <2>3 DEF Stands
<1> QED BY <1>1, HostInductive, PTL

\* A token is launched only over a context that is there: every position before
\* it was computed by this image from this sequence's tokens, whether this
\* process ran them or a prefix file brought them (the token loop, verify_prefix).
THEOREM ContextIsThere == HostSpec => []ContextComplete
<1>1. HostInv => ContextComplete
    <2> SUFFICES ASSUME HostInv, start \/ step, NEW p \in 0 .. (pos - 1), p \in Context
                 PROVE  kv[p] = <<TokenAt(p), code>>
        BY DEF ContextComplete
    <2>1. loc = "poll"
        BY DEF HostInv, HostTypes, RestInv, AtRest, CoreRests
    <2>2. pos = hPos /\ hPos = Len(covered) /\ hPos \in Nat
        BY <2>1 DEF HostInv, HostTypes, RegsInv, PromptInv, InToken, Locs
    <2>3. p + 1 \in 1 .. Len(covered) /\ (p + 1) - 1 = p /\ p \in Nat
        BY <2>2
    <2>4. kv[p] = <<covered[p + 1], code>>
        BY <2>1, <2>3 DEF HostInv, KvInv
    <2>5. covered[p + 1] = TokenAt(p)
        <3>1. prompt \in Seq(Tokens) /\ Len(prompt) \in Nat
            BY HostFacts DEF HostInv, HostTypes
        <3>2. p < Len(prompt) => p + 1 <= Len(prompt)
            BY <2>3, <3>1
        <3> QED BY <2>3, <3>2 DEF HostInv, PromptInv, TokenAt
    <2> QED BY <2>4, <2>5
<1> QED BY <1>1, HostInductive, PTL

\* A whole prefix file covers only positions whose K/V it carries, computed from
\* its own ids by its own image, after any processes and crashes (save_prefix).
THEOREM SavedComplete == HostSpec => []SavedIsComplete
<1>1. HostInv => SavedIsComplete
    BY DEF HostInv
<1> QED BY <1>1, HostInductive, PTL

=============================================================================
