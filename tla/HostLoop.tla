------------------------------ MODULE HostLoop ------------------------------
(***************************************************************************)
(* The host harness on top of the control path: the token loop of          *)
(* sim/verilator/main.cpp, run_token and step_program under it, the prefix *)
(* file one process leaves for the next.  The host port takes one register *)
(* operation a clock, so every host action that touches the core is one    *)
(* Tick of Control, with the write the host makes in it; a read sees the   *)
(* registers as they were before that edge.                                *)
(***************************************************************************)
EXTENDS Control, Sequences

CONSTANTS
    Prompts,     \* the prompts a process may be given: sequences of Tokens
    Options,     \* command lines: [prefixLen, maxNew, step, save, load]
    Program,     \* Program["prefill"], Program["decode"]: [addr, count]
    MaxCtx       \* positions the KV region holds

Phases == {"prefill", "decode"}

\* The i-th descriptor of a program.
At(ph, i) == (Program[ph].addr + DescBytes * i) % AddrMod

\* What the harness writes, and that the port and the registers take it.
HostDoes ==
         {NoWrite}
    \cup [reg : {"CTRL"}, val : {{"START"}, {"STEP"}}]
    \cup [reg : {"STATUS"}, val : SUBSET StatusBits]
    \cup [reg : {"PC"}, val : {Program[ph].addr : ph \in Phases}]
    \cup [reg : {"TOK"}, val : Tokens] \cup [reg : {"POS"}, val : Positions]
    \cup [reg : {"ROW_EN"}, val : {{0}}]

\* A command line with a prefix length generates nothing (cfg.hpp); a prompt
\* has an id; POS reaches every position a run can come to.
ASSUME HostAssumption ==
    /\ HostDoes \subseteq HostOps
    /\ MaxCtx \in Nat
    /\ Prompts \subseteq Seq(Tokens) \ {<<>>}
    /\ Options \subseteq [prefixLen : Nat, maxNew : Nat, step : BOOLEAN,
                          save : BOOLEAN, load : BOOLEAN]
    /\ \A o \in Options : o.prefixLen # 0 => o.maxNew = 0
    /\ \A o \in Options, p \in Prompts : 0 .. (Len(p) + o.maxNew - 1) \subseteq Positions
    /\ Program \in [Phases -> [addr : Addrs, count : Nat \ {0}]]

\* What the compiler emits of a token: the last descriptor, and no other, ends
\* the run (or faults), and one before it writes the K/V of row 0.
ASSUME ImageAssumption ==
    \A c \in Programs, ph \in Phases :
        LET last == Program[ph].count - 1 IN
        /\ \A i \in 0 .. (last - 1) : c[At(ph, i)].op # "HALT"
        /\ c[At(ph, last)].op \in {"HALT", "BAD"}
        /\ \E i \in 0 .. (last - 1) : c[At(ph, i)].op = "KVWRITE" /\ 0 \in c[At(ph, i)].rows

NoKv == <<>>

VARIABLES
    loc,            \* where the host is
    opt, prompt,    \* what this process was started with
    phase,          \* "prefill" or "decode": the program this token runs
    hPos, hTok, jj, \* the token's POS and TOK, and the decode index
    seen,           \* the STATUS bits of the last read the host kept
    index,          \* descriptors step_program has counted
    covered,        \* the token fed in at every position, as the host keeps it
    clean,          \* nothing failed and nothing was counted so far
    file,           \* the prefix file on disk
    kv              \* what the KV region holds at each position

hostVars == <<loc, opt, prompt, phase, hPos, hTok, jj, seen, index, covered, clean, file, kv>>
hvars == <<vars, hostVars>>

Context == 0 .. (MaxCtx - 1)
NoFile  == [whole |-> FALSE, ids |-> <<>>, image |-> <<>>, kv |-> <<>>]
EmptyKv == [p \in Context |-> NoKv]

HostInit ==
    /\ Init
    /\ loc = "boot" /\ opt \in Options /\ prompt \in Prompts
    /\ phase = "prefill" /\ hPos = 0 /\ hTok = 0 /\ jj = 0
    /\ seen = {} /\ index = 0 /\ covered = <<>> /\ clean = TRUE
    /\ file = NoFile /\ kv = EmptyKv

-----------------------------------------------------------------------------
(* The core under the host *)

StatusNow == {b \in StatusBits : CASE b = "DONE" -> doneQ
                                   [] b = "STEP_HALTED" -> stepHaltedQ
                                   [] b = "ERR" -> errQ}

\* A KVWRITE that retires has written its position, if the region has it; one
\* past the end counts an event and writes nothing.
KvTick(in) ==
    LET writes == state = "RUN" /\ ARetire(in) /\ d.op = "KVWRITE" IN
    /\ kv' = IF writes /\ cmdPos \in Context
             THEN [kv EXCEPT ![cmdPos] = <<cmdTok, code>>] ELSE kv
    /\ clean' = (clean /\ ~(writes /\ cmdPos \notin Context) /\ out.errb = 0)

\* One clock of the core with the host write w.
Clock(w) ==
    \E fin \in Maybe(MayFinish), drained \in Maybe(streamBusy), wrReady \in Maybe(wqValid),
       wrAck \in Maybe(issued # acked), appears \in Maybe(sOn) :
        \E more \in Maybe(CanPresent(wrReady)) :
            /\ Tick(w, fin, drained, more, wrReady, wrAck, appears)
            /\ KvTick(Sampled(fin))

Write(r, v) == Clock([reg |-> r, val |-> v])
Read        == Clock(NoWrite)

-----------------------------------------------------------------------------
(* A process starts *)

\* Fault: a prefix of another prompt is restored.
VerifyPrefixAnyIds ==
    /\ file.whole /\ file.image = code
    /\ Len(file.ids) # 0 /\ Len(file.ids) < Len(prompt)

VerifyPrefix ==
    /\ file.whole /\ file.image = code
    /\ Len(file.ids) # 0 /\ Len(file.ids) < Len(prompt)
    /\ \A i \in 1 .. Len(file.ids) : file.ids[i] = prompt[i]

Refused == opt.load /\ ~VerifyPrefix

\* The positions the file covers, or none.
First == IF opt.load THEN Len(file.ids) ELSE 0

\* Where the prefill ends.
Last == IF opt.prefixLen # 0 THEN opt.prefixLen ELSE Len(prompt) - 1

BadLen == opt.prefixLen # 0 /\ (opt.prefixLen > Len(prompt) \/ opt.prefixLen <= First)

\* The next token: a prefill position, then the decode passes, then the end.
Proceed(p, j, t) ==
    IF phase' = "prefill" /\ p < Last
    THEN loc' = "old" /\ hPos' = p /\ hTok' = prompt[p + 1] /\ jj' = 0
    ELSE /\ loc' = IF j < opt.maxNew THEN "old" ELSE "finish"
         /\ jj' = j
         /\ hPos' = Len(prompt) - 1 + j
         /\ hTok' = IF j = 0 THEN prompt[Len(prompt)] ELSE t

Start ==
    /\ loc = "boot" /\ ~Refused /\ ~BadLen
    /\ covered' = IF opt.load THEN file.ids ELSE <<>>
    /\ kv' = IF opt.load THEN file.kv ELSE EmptyKv
    /\ phase' = IF First < Last THEN "prefill" ELSE "decode"
    /\ Proceed(First, 0, 0)
    /\ seen' = {} /\ index' = 0 /\ clean' = TRUE
    /\ UNCHANGED <<vars, opt, prompt, file>>

-----------------------------------------------------------------------------
(* run_token: one host operation after the other *)

StayToken == UNCHANGED <<opt, prompt, phase, hPos, hTok, jj, covered, file>>
Go(l)     == loc' = l /\ StayToken

Op(l, next) == loc = l /\ Go(next) /\ UNCHANGED index

\* Fault: what the last run left is not cleared.
ClearOldNot == Op("clear", "pc") /\ Read /\ UNCHANGED seen

ReadOld  == Op("old", "clear") /\ Read /\ seen' = StatusNow
ClearOld == Op("clear", "pc") /\ Write("STATUS", seen) /\ UNCHANGED seen
SetPc    == Op("pc", "tok") /\ Write("PC", Program[phase].addr) /\ UNCHANGED seen
SetTok   == Op("tok", "pos") /\ Write("TOK", hTok) /\ UNCHANGED seen
SetPos   == Op("pos", "row") /\ Write("POS", hPos) /\ UNCHANGED seen
SetRow   == /\ loc = "row" /\ Go("go") /\ index' = 0
            /\ Write("ROW_EN", {0}) /\ UNCHANGED seen

Launch == /\ Op("go", "poll")
          /\ Write("CTRL", IF opt.step THEN {"STEP"} ELSE {"START"})
          /\ UNCHANGED seen

\* run_until_halt: STATUS is read until it shows a halt and no BUSY.
\* Fault: the end of a free run is not taken for a halt.
ShowsHaltNoDone == StatusNow \ {"DONE"} # {} /\ ~busy

ShowsHalt == StatusNow # {} /\ ~busy

Poll == /\ loc = "poll"
        /\ Go(IF ShowsHalt THEN "status" ELSE "poll")
        /\ Read /\ UNCHANGED <<seen, index>>

\* The token ends: its id is kept whether or not it succeeded.
EndToken(ok) ==
    /\ covered' = Append(covered, hTok)
    /\ UNCHANGED <<opt, prompt, file, index>>
    /\ IF ok
       THEN \E t \in Tokens :
               /\ phase' = IF phase = "prefill" /\ hPos + 1 < Last THEN "prefill" ELSE "decode"
               /\ Proceed(hPos + 1, IF phase = "prefill" THEN 0 ELSE jj + 1, t)
       ELSE loc' = "failed" /\ UNCHANGED <<phase, hPos, hTok, jj>>

\* The cycle budget is spent before the core halts.
Stopped == loc = "poll" /\ ~ShowsHalt /\ Read /\ EndToken(FALSE) /\ UNCHANGED seen

Status ==
    /\ loc = "status" /\ Read /\ seen' = StatusNow
    /\ IF "ERR" \in seen' THEN EndToken(FALSE)
       ELSE /\ index' = IF opt.step THEN index + 1 ELSE index
            /\ Go(IF opt.step THEN "ack" ELSE "argmax")

\* Fault: the bits of the step just seen are left set.
AckNot ==
    /\ Op("ack", IF "DONE" \in seen THEN "final" ELSE "go")
    /\ Read /\ UNCHANGED seen

\* step_program: the bits are written back, and the next step follows.
Ack ==
    /\ Op("ack", IF "DONE" \in seen THEN "final" ELSE "go")
    /\ Write("STATUS", seen) /\ UNCHANGED seen

Final == loc = "final" /\ Read /\ seen' = StatusNow
         /\ IF "ERR" \in seen' THEN EndToken(FALSE) ELSE Go("argmax") /\ UNCHANGED index

\* ARGMAX_TOK; a generated id may be an end-of-sequence id.
Argmax == loc = "argmax" /\ Read /\ EndToken(TRUE) /\ UNCHANGED seen

Eos == /\ loc = "argmax" /\ phase = "decode" /\ Read
       /\ covered' = Append(covered, hTok) /\ loc' = "finish"
       /\ UNCHANGED <<opt, prompt, phase, hPos, hTok, jj, seen, index, file>>

-----------------------------------------------------------------------------
(* The process ends, and another one starts on a reset core *)

\* The KV region as the host reads it back: a write still on its way is not
\* in it.
KvBytes == [p \in Context |-> IF opened # 0 /\ p = pos THEN NoKv ELSE kv[p]]

\* Reset: the core is in an initial state again.
Reset ==
    /\ start' = FALSE /\ step' = FALSE /\ abortRun' = FALSE
    /\ pc' = 0 /\ rowEn' = {} /\ tok' = 0 /\ pos' = 0
    /\ doneQ' = FALSE /\ stepHaltedQ' = FALSE /\ errQ' = FALSE
    /\ faultQ' = "NONE" /\ faultOpQ' = "NONE" /\ errBounds' = 0
    /\ state' = "IDLE" /\ busy' = FALSE /\ d' = NoDesc
    /\ stepMode' = FALSE /\ abortQ' = FALSE /\ stopErr' = FALSE /\ stopStep' = FALSE
    /\ gemvDone' = FALSE /\ srR' = 0 /\ srPh' = FALSE /\ sxRows' = {} /\ errbQ' = 0
    /\ faultCode' = "NONE" /\ faultOp' = "NONE" /\ cmdPos' = 0 /\ cmdTok' = 0
    /\ out' = Quiet
    /\ kValid' = FALSE /\ dValid' = FALSE /\ wqValid' = FALSE /\ issued' = 0 /\ acked' = 0
    /\ sOn' = FALSE /\ sNext' = 0 /\ sValid' = FALSE
    /\ unit' = "none" /\ streamBusy' = FALSE
    /\ dAt' = 0 /\ ran' = 0 /\ opened' = 0 /\ retiredErrb' = 0
    /\ code' \in Programs

Reboot ==
    /\ Reset /\ loc' = "boot" /\ opt' \in Options /\ prompt' \in Prompts
    /\ phase' = "prefill" /\ hPos' = 0 /\ hTok' = 0 /\ jj' = 0
    /\ seen' = {} /\ index' = 0 /\ covered' = <<>> /\ clean' = TRUE /\ kv' = EmptyKv

\* Fault: a run that failed leaves a prefix as well.
SavesAlways == opt.save /\ loc \in {"finish", "failed"}

Saves == opt.save /\ loc = "finish" /\ clean

Save ==
    /\ Saves
    /\ \/ file' = [whole |-> TRUE, ids |-> covered, image |-> code, kv |-> KvBytes]
       \/ file' = NoFile     \* the process dies before the file is whole
    /\ Reboot

Exit ==
    /\ \/ loc \in {"finish", "failed"} /\ ~Saves
       \/ loc = "boot" /\ (Refused \/ BadLen)
    /\ UNCHANGED file
    /\ Reboot

HostOp ==
    \/ ReadOld \/ ClearOld \/ SetPc \/ SetTok \/ SetPos \/ SetRow \/ Launch
    \/ Poll \/ Status \/ Ack \/ Final \/ Argmax \/ Eos

\* The host goes on, whatever its cycle budget.
Goes == Start \/ HostOp \/ Save \/ Exit

HostNext == Goes \/ Stopped

HostSpec == HostInit /\ [][HostNext]_hvars

-----------------------------------------------------------------------------
(* Safety *)

\* What the host takes for the end of the run it launched is that: never a
\* report of the run before, never one that another step is about to undo.
ReportIsOwn ==
    loc \in {"status", "argmax", "ack"} =>
        /\ ~busy /\ ~start /\ ~step
        /\ errQ \/ ran >= 1

\* A step the host counts is the step of that descriptor: entry "index" of the
\* dump plan is dumped after exactly index + 1 descriptors have executed; a
\* free run has executed the whole program.
ReportIsPlace ==
    loc \in {"ack", "argmax"} =>
        pc = (Program[phase].addr
              + DescBytes * (IF opt.step THEN index ELSE Program[phase].count)) % AddrMod

TokenAt(p) == IF p < Len(prompt) THEN prompt[p + 1] ELSE covered[p + 1]

\* A token is launched only into a KV region that holds every position before
\* it, computed by this image from the tokens of this sequence: those of the
\* prompt, then those generated (the token loop, verify_prefix).
ContextComplete ==
    (start \/ step) => \A p \in 0 .. (pos - 1) :
        p \in Context => kv[p] = <<TokenAt(p), code>>

\* A prefix file that is whole covers only positions whose K/V it carries,
\* written and acknowledged, whatever run left it.
SavedIsComplete ==
    file.whole => \A i \in 1 .. Len(file.ids) :
        i - 1 \in Context /\ file.kv[i - 1] = <<file.ids[i], file.image>>

(* Liveness: under the fairness of the core, every process ends.             *)

Finished   == unit # "none" /\ unit' = "none" /\ HostNext
Paused     == (kValid \/ dValid) /\ kValid' = FALSE /\ dValid' = FALSE /\ HostNext
WriteTaken == wqValid /\ issued' = (issued + 1) % WrMod /\ HostNext
Acked      == acked' = (acked + 1) % WrMod /\ HostNext
Appeared   == ~sValid /\ sValid' = TRUE /\ HostNext

CoreFairness ==
    /\ WF_hvars(Goes) /\ SF_hvars(Finished) /\ SF_hvars(Paused)
    /\ WF_hvars(WriteTaken) /\ WF_hvars(Acked) /\ WF_hvars(Appeared)

FairHostSpec == HostSpec /\ CoreFairness

\* Every process ends: no poll waits for a report that never comes, no step
\* is launched into a core that ignores it.
ProcessEnds == loc # "boot" ~> loc = "boot"
=============================================================================
