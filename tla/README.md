# Verification of the Quettos core in TLA+

Quettos is a small accelerator for transformer inference: a SystemVerilog core
(`rtl/`) that executes programs of 32-byte descriptors, a C++ harness that runs
it under Verilator (`sim/verilator/`), and Python that compiles models into
programs and predicts every number the core produces (`sw/quettos/`). The
numbers are held down by bit-exact comparison against the golden model. What a
comparison of results reaches badly is *when* things happen: fences, prefetch,
flushes, aborts, single steps, a host that polls while the core runs, a file one
process leaves for the next. That is what these modules are about.

## 1. The system

| Part | Source | State | Operations | Meets |
|---|---|---|---|---|
| CSR block | `rtl/qcore_csr.sv` | CTRL pulses, PC, TOK, POS, ROW_EN, STATUS, event counters | host read and write, pulses from the dispatcher | host, dispatcher |
| Dispatcher | `rtl/qcore_seq_dispatch.sv` | state machine, descriptor in flight, abort and stop bits, SREG read, registered pulses | pop, decode, prepare, fence, SREG, issue, retire, stop, end | everything |
| Descriptor fetch | `rtl/qcore_seq_fetch.sv` | request, outstanding beats, half-assembled group, queue, head | restart, flush, request, take or discard a beat, pop | dispatcher, arbiter |
| Memory arbiter | `rtl/qcore_mem_arb.sv` | read stage, write stage, issued / acked counters, fetch slot | grant, route, acknowledge, `wr_idle` | fetch, stream, vector unit, KV writer, requant |
| Weight stream | `rtl/qcore_stream_ctrl.sv` | FSM, weight and meta FIFOs, outstanding counts | request, gather, stream, serialise | arbiter, rows, requant |
| Rows | `rtl/qcore_row.sv`, `qcore_mac_lane_group.sv` | activation ring, accumulators, SREG | feed, accumulate, hand over | stream, requant |
| Requant | `rtl/qcore_requant.sv` | pipe, dump queue, absmax, argmax | drain a tile, dump, report | rows, arbiter, CSR |
| KV writer | `rtl/qcore_kv_writer.sv` | row loop, beat assembly | write one position of K or V | VSRAM, arbiter |
| Vector unit | `rtl/qcore_vpu_*.sv` | phase machine, lanes, scalar unit | six row operations | VSRAM, arbiter, CSR |
| PERF | `rtl/qcore_perf.sv` | buckets and their snapshot | clear, count, snapshot | all event strobes |
| Harness | `sim/verilator/*.hpp`, `main.cpp` | bus, memory model, token loop, prefix file | run a token, step a program, save and restore KV | the CSR port, QMEM |
| ISA and simulator | `sw/quettos/isa.py`, `isa_sim.py` | VSRAM, SREG, QMEM, CSRs, event and PERF counters | run a token, step, restart, fault | compiler, golden model |
| Compiler | `compiler.py` | none of its own: an image directory | regions, VSRAM and SREG allocation, two programs, dump plan, `layout.json` | simulator, harness, every comparison |
| Numerics | `numerics.py`, `calibrate.py`, `quantize.py`, `program.py` | a calibration record, a report, a quantised model | calibrate, centre, smooth, quantise, choose shifts, every operation | compiler, golden model, simulator |
| Golden model | `golden.py` | K/V cache | one token | simulator, comparisons |
| Comparisons | `compare.py`, `stepcmp.py`, `determinism.py` | none: runs in, a verdict out | compare, step, generate, timing, undefined start, width | harness, simulator, golden model |
| Commands | `cli.py`, `prefix.py`, `quality.py`, `corpus.py`, `scripts/` | files under `build/` and `docs/` | quantize, golden, compile, run, demo-report, quality, provenance, synth_report | one another, through files |
| Netlist tools | `sim/gatesim/gatesim.py`, `scripts/synth_report.py` | a table of cells, a page a block, a row of the front page | measure, check, rewrite | the installed Yosys |

A run: the host writes PC, TOK, POS and ROW_EN and then START (or STEP). The
dispatcher restarts the fetch at PC and pops one descriptor at a time. Opcodes
that read QMEM wait until every write is acknowledged; a unit is given an issue
pulse and answers with a done pulse; the retire advances PC through the CSR
block. HALT, a fault, an ABORT and a finished step end the run behind the same
write fence, flush the fetch and report through STATUS, which the host polls.

**What is hard here.** Registered pulses that take effect one cycle after the
state that raised them; two sources of done for one descriptor; a fence sampled
cycles before the issue it protects; requests in flight when their run is
flushed; ABORT, START and STEP racing the end of a run; STATUS bits that the
last run left; a register write that loses to the core's own; a process that
dies between a KV write and its acknowledge and leaves a file behind. The Python
is sequential, so what is hard there is of another kind: shifts and windows
chosen once for every vector to come; tiles, heads, padding and positions that
meet at boundaries; a machine that older tokens, faults and bring-up runs have
used; a comparison that passes because it looked at too little; files that
commands leave for commands run much later, after an edit or an interrupt.
`PROJECT.json` lists each of these at its line.

**What makes each part correct.**

* CSR: no report of an end is lost to a clear; ROW_EN, POS, TOK and PC belong to
  the core while it runs; ERR_BOUNDS counts exactly the retired descriptors.
* Dispatcher: one descriptor in flight; no reader behind an unacknowledged
  write; the bundle it drives holds while a unit works; a run is the sequential
  machine of docs/ISA.md whatever ABORT does; every run with an end ends.
* Fetch: the head is the descriptor PC names next, whole, whatever was in
  flight; no overflow; no beat lost or kept; a waiting dispatcher is served.
* Arbiter: `wr_idle` is exact; the fetch is owed its slot by the true count.
* Harness: the halt it sees is that of the run it launched; the step it dumps is
  the descriptor it names; a token runs only on a complete context; a prefix
  file carries what it says.
* Simulator and compiler: every descriptor of an accepted shape computes the
  golden value, over any history; it writes what the dump plan says, and counts
  what the layout promises.
* Numerics: what is chosen at compile time holds for any integers, a result is
  rounded once, block and scalar forms agree, folding changes no score.
* Comparisons: ok exactly when nothing they claim to compare differs.
* Commands and netlist tools: a demo script that says OK has run the image of one
  compile to the golden ids; what is published is what a clone would measure.
* Stream, rows, requant, KV writer: a descriptor leaves what the simulator says
  it leaves, whatever the timing; nothing is sent where there is no place; each
  descriptor ends.
* PERF and the phases of the vector unit are not modelled (section 8).

## 2. Modules

| Module | Models | Kind |
|---|---|---|
| `Descriptors` | decode of rows, extents, faults, zero work, bounds events | operators |
| `Csr` | the register block, one operator per register group | component |
| `SeqDispatch` | the dispatcher, one action per branch of its state machine | component |
| `WritePath`, `ReadArb` | the two halves of the arbiter | components |
| `SeqFetch` | the descriptor prefetch, register by register | component |
| `DescStream` | what the dispatcher relies on in the fetch | abstract specification |
| `ProgramRun` | what the core promises about a program | abstract specification |
| `Control` | CSR + dispatcher + write path, on `DescStream` | composition |
| `FetchPath` | fetch + both halves of the arbiter under a dispatcher and units | composition |
| `HostLoop` | the harness's token loop and prefix file on `Control` | composition |
| `MCControl`, `MCHost` | instances for TLC | model checking |
| `LateAbort` | `MCControl` with a memory of late ABORTs | model checking |
| `Wraps` | lemmas about remainders (wrapping counters and addresses) and about sequences | proofs |
| `Control_proofs` | theorems about `Control`, its refinement of `ProgramRun` included | proofs |
| `FetchPath_proofs` | theorems about `FetchPath`, its refinement of `DescStream` included | proofs |
| `HostLoop_proofs` | theorems about `HostLoop`, on those about `Control` | proofs |
| `UnitIssue` | the bundle the units get at an issue, extents from POS | operators |
| `StreamCtrl`, `GemvRow`, `Requant`, `KvWriter` | the units, register by register | components |
| `Units` | the units at the crossbar of `qcore_top`, memory and a write port, beside the effects of `IsaSim` | composition |
| `Units_proofs` | theorems about `Units` | proofs |
| `Tools_proofs` | theorems about `Tools`: the order of the steps, the published figures | proofs |
| `Demo_proofs` | theorems about its demos, on those of `Tools_proofs` | proofs |
| `Isa` | descriptors and the rules they are built under; which operand each operation takes, and where it goes | operators |
| `Layout`, `Compiler` | tiling, regions, VSRAM and SREG maps; both programs, the dump plan, `layout.json` | operators |
| `Golden`, `IsaSim` | the golden model; the simulator, one effect an opcode | operators, component |
| `TokenRun` | a host that runs tokens, steps, faults and bring-up on the simulator | composition |
| `Numerics` | `numerics.py` at scaled widths | operators |
| `Calibrate` | calibration, smoothing, quantisation; the constants of a program | operators |
| `NumericsRun` | calibrate, quantise, choose, then any vector through any operation | composition |
| `Compare` | the comparison tools (compare, stepcmp), each a verdict on recorded runs | operators |
| `Checks` | a job of one tool on an RTL that may be wrong somewhere | composition |
| `Artifacts` | the files the commands leave, and the reports of the two demos on them | operators |
| `Reports` | scores and provenance; netlist figures | operators |
| `Tools` | a user at the command line, with edits and interrupts | composition |
| `MCUnits`, `MCTokenRun`, `MCNumericsRun`, `MCChecks`, `MCTools` | instances for TLC | model checking |

`Control` and `FetchPath` meet at `DescStream`: `Control` uses it in place of
the fetch, `FetchPath` shows that the fetch implements it
(`StreamsInOrder`). `Control` in turn is shown to implement `ProgramRun`
(`RunsAsPromised`). `Units` takes the other side of the issue pulse: it has a
dispatcher of one state, which issues when no unit is at work and retires as
`SeqDispatch` does, and shows what `Control` assumes of a unit: it comes to its
done, with nothing left under way.

Four chains of modules follow the imports of the Python: `Isa` - `Layout` -
`Compiler` and `Golden` - `IsaSim` - `TokenRun`; `Numerics` - `Calibrate` -
`NumericsRun`; `Compare` - `Checks`; `Artifacts` - `Reports` - `Tools`.
`Units` instantiates `IsaSim` on its own banks, a row at a time, so one
definition of an opcode serves as the golden model's subject and as the RTL's
reference.

**How the code becomes a step.** The RTL has one clock, so a step of `Control`
and of `FetchPath` is one rising edge: `Tick` is the conjunction of the edges of
all the modules composed, each of which reads unprimed what the others registered
and takes their combinational outputs as operators. The nondeterminism is that
of the environment: which register the host writes this cycle, whether memory is
ready, answers or acknowledges, when a unit is done. In `SeqDispatch` the
disjuncts of `DispTick` are the branches of the state machine and each assigns
every register of the module; pulses default to `Quiet` as the RTL clears them at
every edge. `out` is the record of the registered one-cycle pulses, so what the
CSR block or a unit sees of a decision is one step late, as in the code.

In `HostLoop` the port takes one register operation a clock (`CsrBus`), so each
host action that touches the core is one `Tick` with that write; a read returns
the registers before the edge. Events of the host alone (start of a process, the
file) are steps of their own.

In `Units` a step is one clock edge as in `Control`, with four free bits: the
dispatcher issues, memory takes the request, memory answers, the write port takes
a beat. The Python is sequential: a step of `TokenRun` is a descriptor, of
`NumericsRun` an operation, of `Checks` a harness process or the verdict, of
`Tools` one file read or written by a command.

**What is abstracted.** A descriptor keeps the fields the loop branches on;
addresses of operands, VSRAM indices, scales and flags a unit alone reads are
data. A prefetched beat is the address it was read at, so "the right descriptor"
is "the right address, all its beats". Writes carry no payload. SREG values are
the set of rows whose scale was loaded for the descriptor in hand. In
`HostLoop` the KV content of a position is the pair of the token and the image
that computed it. `errBounds` is the share of ERR_BOUNDS the dispatcher
contributes; `qcore_top.sv:553-561` adds those of other units.

In `Units` a queue is a sequence instead of a memory with pointers, an element in
the requant carries its operands down the pipe and is computed where it leaves
it, and beats reach memory in the order the port takes them. What stages P2 to P7
compute is one function, `Isa`'s `requant`. Saturation and shift counts,
`ev_beat`, `stream_done` and the errors of an SREG index are left out. An issue
may follow a retire at once, sooner than the dispatcher can.

`Isa` writes a rounding formula as a mixing function of its operands, so
that a result made of any other operand, index or scale differs; sums, maxima and
narrowings are the real ones. The formulas themselves are `Numerics`', at scaled
widths: mantissas of 6 bits, accumulators of 16, outputs of 12, narrowed values of
3, shifts to 28, where the source has 16, 40, 32, 8 and 63. Real numbers of the
calibration are fixed-point, smoothing factors powers of two, the model has one
layer. `Compare` has one VSRAM bank and values that are stamps of what was
executed: what the values are is `TokenRun`'s subject. In `Tools` a hash is the
content it is taken of, a figure what it was measured on, and edits happen between
commands. An interrupted write leaves a torn file; of a page, which is text, the
model keeps what a reader still finds in it (`CutShort`): nothing, its tool line,
or all its figures with the notes below them gone, broken off or whole.

What the models of the demos generate and how long their prefill takes are constant
operators, `Greedy` and `PrefillCycles`: ids of two models or of two prompts may be
equal, and so may the cycles of two images. A run that goes wrong may emit any other
ids the core could. Nothing in the model tells two images apart that the code cannot:
a record keeps the path, which is the one directory there is, and the size.

**History variables**, read by properties only: `dAt`, `ran`, `opened`,
`retiredErrb` in `Control`; `nextPc`, `granted`, `overtook` in `FetchPath`;
`late`, `carried` in `LateAbort`; `want` in `Units`.

## 3. Runs

| Run | Question | Instance |
|---|---|---|
| `control_run` | Are fences, the descriptor in hand, the issue bundle and the counts right in free runs and single steps, with ABORT and register writes at any cycle? Does the control path implement the sequential machine? | 2 rows, programs of up to 4 descriptors (every opcode class, every fault, bounds events, zero work, a HALT in mid-program), misaligned PC |
| `control_live` | Does every run end? | 1 row, a program that halts and one that loops for ever |
| `fetch_wide` | Is the prefetch in order and bounded when a beat holds several descriptors? | 2 descriptors a beat, 3 groups, starts at a beat boundary and inside a beat |
| `fetch_narrow` | ... and when a descriptor takes several beats? Is a waiting dispatcher served? | 2 beats a descriptor, 2 groups |
| `host_run` | Does the harness read the core right, and is a prefix file sound? | 2 images (one faults), 2 prompts of 3 ids, 3 command lines, 3 KV positions |
| `token_run` | Does a compiled program compute the golden value at every descriptor, write what its plan says and count what its layout says, over any history? | 6 shapes: tile narrower and wider than a head, 1 and 2 query heads a KV head, partial tiles, VSRAM and SREG exactly enough; 3 of them one short and refused. Contexts of 3 and 4, one mishap (abandoned step, damaged descriptor, bring-up) |
| `numerics_run` | Do the constants chosen from a calibration hold for every vector? | 4 heads over 2, contexts to 8, 3 tokens at the extremes of a score, vectors over 5 levels with both ends of the output range |
| `checks_run` | Does a comparison say ok exactly when nothing it claims differs? | 2 port widths, 9 places of every kind, descriptors 1 and 4 struck, under any of the settings |
| `tools_run` | Can commands, edits and interrupts make a demo or a published figure say what is not so? | commands and interrupts together: 4 in each demo, 6 in the quality session, 3 in that of the figures; 1 or 2 edits, 1 interrupt; 2 ids, runs of one or two of which the first is always the same; 3 blocks, 2 Yosys builds, 6 outcomes of a bench |
| `units_run` | Does a descriptor leave what the simulator says, on any timing, without overflow or lock? | 8 lanes, VSRAM words of 4, 2 rows, FIFOs of 4 beats and bursts of 2, ring and dump queue of 2; 5 programs of 2 or 3 descriptors |
| `late_abort` | An ABORT after the retire of a step: does the next STEP take it, as docs/RTL.md says? | violated |
| `old_word` | Is the old word of an accumulate that of its own row, as docs/RTL.md says? | violated |

**Why the bounds are enough.** Two rows distinguish a row that participates, one
the descriptor masks and one ROW_EN masks, and let the SREG read skip a row.
Four descriptors put a write, a reader, an end and something after the end in one
program. Counters that wrap do so after two or four (`CounterMod`, `WrMod`), so
every wrap is reached; the true modulus is covered by the proofs. One
unacknowledged write in memory (`MaxUnacked = 1`) with one in the stage and one
presented puts a write at each of the places `wr_idle` must see. In the fetch,
`GD` groups of 3 and 2 with two bursts outstanding reach the queue limit with
every split between queue, flight and request; the address space holds one group
more than the queue, so that an old and a new descriptor never share an address
by accident. `BeatCap` and `BeatMod` let the stream count saturate, and would let
it wrap. Three KV positions give a prefix, its continuation and a position past
the region. Wider instances were run while the modules were written and found
nothing else; these are the largest that finish in the time a check should take.

In `units_run` the FIFOs hold two bursts, the ring two words and the dump queue
two beats, so each fills, empties and blocks the one before it; the programs have
a partial last tile, a last tile that dumps, activations and outputs past the end
of the VSRAM, banks that differ, extents rounded up past the field, tiles of one
beat without meta records, an EMBED over two tiles, a KVWRITE at every alignment
of a head, of a position past the region, and a descriptor without work. In
`token_run` a shape is small enough that every boundary is one element away. The
last tile of `units_run` with an accumulate and a dump has two channels: with one,
the core is wrong (section 7).

In `tools_run` a continuation of one id is the same for every model and prompt, of two
ids only some differ, and cycles do not depend on the port width: runs of different
builds do agree, and do not. Four commands are enough to build, spoil a file or edit
the prompt, build again under other settings and report; six to score two
configurations, calibrate and quantise anew, and score over the stored rows.

Deadlock is checked in the runs of the RTL and the harness: the clock never stops.
`token_run`, `numerics_run`, `checks_run` and `tools_run` switch it off, because a
job, a line of tokens or a session of commands comes to its end or its bound.

## 4. What the properties say

*Control.* `WrIdleExact`, `EndFenced`, `ReadFenced`: the fence is exact, DONE and
STEP_HALTED are behind it on every path, and so is every QMEM reader although
SREG reads lie between the fence and the issue. `OneInFlight`: an issue finds
every unit and the stream idle, which the VSRAM port sharing of `qcore_top`
relies on. `InHandIsPc`, `BundleHolds`, `ScalesCurrent`: what a unit is handed
belongs to the descriptor PC names and holds until it retires. `BoundsCounted`:
aborted and faulted descriptors count nothing, retired ones exactly once.
`EndNotLost`: the clear of a new START never meets the report of the old run.
`RunsAsPromised`: refinement of `ProgramRun`. `RunEnds`: a program with a HALT
ends, and so does any program once it is aborted.

*Fetch.* `NoOverflow` and `OutBeatsExact` are the two assertions of the module,
in terms of what memory really owes. `HeadIsNext`, `StreamsInOrder`: in order
and whole, over flushes and restarts. `FetchSlot`: the arbitration slot rests on
true counts of beats and of queued descriptors. `OneOvertakes`: at most one read passes a
write, the one already presented. `HeadArrives`: liveness.

*Host.* `ReportIsOwn`, `ReportIsPlace`: a poll never takes the report of an
earlier run or step for the one launched, and the index under which a step is
dumped is the number of descriptors executed. `ContextComplete`,
`SavedIsComplete`: no token runs over a hole in its context and no file claims
a position it does not carry, across processes, faults and spent budgets.
`ProcessEnds`: liveness.

*Units.* `OutputsExact`: when no unit is at work, VSRAM, SREG, QMEM, the ARGMAX
registers and ERR_BOUNDS are those the simulator would be left with, and nothing
is under way; no order of memory answers, stalls of the write port or of the meta
stream shows. `SpaceReserved`: beats and words come only where there is a place.
`UnitsEnd`: the FIFOs, the ring, the handoff and the dump queue do not wait on
each other for ever.

*Simulator and compiler.* `OutputsAreGolden`: after every descriptor, what it
wrote is the value golden.py has for it, although the machine carries older
tokens, abandoned steps and faults. `PlanDescribesWrites`: it wrote what the dump
plan says and nothing else, inside its region. `CacheIsHistory`: the cache holds
exactly the positions of the context, and no token changed the image.
`CountersMatchLayout`: MACs, bytes and descriptors of a token are those of
`layout.json`. `NothingRaised`: an accepted shape never raises or counts a bounds
event.

*Numerics.* `ShiftsProven`: shifts and exponents are in range and nothing
saturates that was proven not to, for any vector. `ResultsRounded`: a result is
within one unit in the last place of the exact product, and no code leaves its
width. `RowsAreScalars`: the vector forms are the
scalar forms, events included. `CalibrationFits`: centring and smoothing change
no score of the head a query reads, and what was recorded keeps its headroom.

*Comparisons.* `VerdictIsExact`: ok exactly when nothing differs that the tool
claims to compare, and the descriptor named is the one struck.

*Commands.* `DemoReportIsTrue` has two parts. `DemoReportsItsRun`: the report a
demo script ends with says OK exactly when the directory is of one compile, the
image in it ran that prompt to a clean end, and the ids are those of the golden
record; with a reused turn, also those of the same image without reuse. This is of
the script's own run. `DemoOkIsGolden`: a report given by hand reads whatever
record is there, and is of less: golden ids of the compiled model, from a clean
run, on the compiled prompt, of an image of that path and size (section 7 has the
case it accepts). `PublishedIsMeasured`: the rows of the quality report, the table
of gatesim and the pages of synth_report, once accepted, are what a clone would
measure.

## 5. Fairness

A property of liveness holds under the fairness named `Fairness` in its module,
and under nothing else. The clock runs: weak fairness of
`Clocked`, a clock edge on which the host writes nothing (in `FetchPath`, on
which the dispatcher neither starts nor flushes), so no liveness rests on a
command being given. Memory takes
and acknowledges writes, and takes and answers reads: `mem_model.hpp` does so
after a fixed latency, so weak fairness is weaker than what it gives. A unit
pauses between writes and pulses done: both are strong in `Control`, because a
unit is busy and not-yet-able to finish in turns while the arbiter takes its
writes; every unit has a bounded descriptor, so it cannot present writes for
ever. The stream drains and a head appears: the second is what `HeadArrives`
proves of the fetch, from the fairness of memory alone. The host is asked for
nothing in `Control`. In `HostLoop` the host is a program that runs, so each of
its steps comes with the clock (`Goes`); the cycle budget may end a poll at any time and
is not needed for `ProcessEnds`. In `Units` the clock runs, memory takes and answers
what it is asked, and the write port takes what it is given; no unit is asked for
anything else. The runs of the Python assume no fairness: they check safety only.

## 6. Proofs

Each theorem is proved for every value of the constants: any number of rows, any
word, queue and field width, any set of programs, prompts and command lines, any
counter modulus. The arguments follow the composition: the fetch is the stream
(`FetchPath_proofs`), the control path on that stream is the sequential machine
(`Control_proofs`), the harness on the control path reads and keeps what that
machine did (`HostLoop_proofs`). On the other side of the issue pulse,
`Units_proofs` is about the space of the units. The commands have two modules:
`Tools_proofs` for what is published, `Demo_proofs` for the demos. `Wraps` holds the
arithmetic of `%` and the facts about sequences they share.

**Control** (`Control_proofs`): `TypeOK`, `WrIdleExact`, `EndFenced`,
`ReadFenced`, `OneInFlight`, `EndNotLost`, `InHandIsPc`, `BoundsCounted`,
`ScalesCurrent`, the action property `BundleHolds` and the refinement
`RunsAsPromised`. None of them is inductive. The invariant is

    IInv   == TypeOK /\ WriteInv /\ UnitInv /\ FenceInv /\ BusyInv /\ HandInv
    RunInv == IInv /\ BoundsInv /\ ScalesInv /\ PlaceInv

* `WriteInv`: the writes opened are those presented, in the stage, and counted
  by the difference of two wrapping counters. Equality of the counters then
  means no write, because the difference is below the modulus.
* `UnitInv`: in which states a unit may be in flight, that it is the unit of the
  descriptor, and that the issue pulse is up for one cycle.
* `FenceInv`: from the fence to the issue of a reader, and from a stop to its
  end, no write is presented: no unit is at work that could.
* `BusyInv`: `busy` is the state not being IDLE, and an end pulse does not meet a
  start, because CTRL was refused while busy.
* `HandInv`: the descriptor in hand is the one popped, and PC moves only by the
  pulse of its retire, which `pop_ok` keeps apart from the next pop.
* `BoundsInv`: the counter, the pulse on its way and the events latched of the
  descriptor at work add up to those of the retired ones, modulo the counter.
* `ScalesInv`: the SREG read has loaded every participating row below the row it
  stands at, all of them when it leaves; rows it skips do not participate.
* `PlaceInv`: PC is on a whole descriptor, a step has executed nothing before its
  retire, a stop that waits behind its fence knows why it stops, and an idle core
  has no write open. It is what the steps of `ProgramRun` need to be recognised.

**Fetch** (`FetchPath_proofs`): `OutBeatsExact`, `NoOverflow`, `HeadIsNext`,
`OneOvertakes`, `FetchSlot` and the refinement `StreamsInOrder` of `DescStream`.
The invariant `PathInv` has a part for each thing in flight: beats and bursts
owed by memory, the addresses of those beats in order (of the present run, or of
one that was flushed and is to be discarded), the request that waits, the space
reserved for a group before it is asked for, the half-assembled descriptor, the
head, and the count the slot is granted by. The order of the addresses is what
makes the head the next descriptor; the split between a present and a discarded
run is what survives a restart in mid-flight.

**Harness** (`HostLoop_proofs`): `ReportIsOwn`, `ReportIsPlace`,
`ContextComplete`, `SavedIsComplete`, for any prompt, image, program length and
sequence of processes. A clock under the harness is one of `Control` or a reset,
so `RunInv` holds throughout, and with it

    HostInv == HostTypes /\ PromptInv /\ RestInv /\ RegsInv /\ RunAt /\ KvInv
               /\ SavedIsComplete

* `PromptInv`: the token under way is the next of the prompt, or of the
  generation; its position is the number of positions covered.
* `RestInv`: between runs the core is at rest with no pulse on its way, and the
  bits that are about to be cleared are those that are set.
* `RegsInv`: PC, TOK, POS and ROW_EN are the token's from the write that sets each.
* `RunAt`: where the run stands - launched, running before descriptor *i* of the
  program, ended before it with the report still in the pulses, or in STATUS -
  and that the K/V of the token is written once its KVWRITE is among the first *i*.
  It needs the two outcomes of an edge of a run nobody aborts (`BusyTick`):
  nothing is executed, or the descriptor PC names is, and a run ends only by a
  HALT, a fault or the retire of a step.
* `KvInv`: every covered position holds this sequence's token computed by this
  image, or an event was counted and no file will be written.

**Units** (`Units_proofs`): `SpaceReserved`, for any FIFO, burst and ring sizes, any
programs, memory contents and timing. It is not inductive: that a count of beats on
their way is what memory owes is lost at an issue that finds beats of the last
descriptor. The invariant is

    SpaceInv == todo \in Seq(Jobs) /\ cmd.k \in Nat /\ GenTypes /\ ReqTypes
                /\ FifoTypes /\ RowTypes /\ StreamRests /\ SpaceReserved

* `StreamRests`: the stream is at rest unless a GEMV or an EMBED is at work. The
  dispatcher retires one only when the stream is not busy, and a stream at rest
  stays so: it asks for nothing, and a beat that came back would be one it is owed.
* The argument is an account. A FIFO and its output register together hold what they
  held, less what was taken, and what came in (`FifoStep`). What memory and the
  request register owe grows by what is loaded and falls by the beat that returns
  (`OwedStep`), and so does the counter; a load fits what is free. The ring is the
  same with one read of port A on its way (`RingSpace`).

**Commands** (`Tools_proofs`): `PublishedIsMeasured`, for any blocks, Yosys builds,
benches and held-out cuts, and any number of commands, edits and stops. A step
checks a file that another wrote, so what a verdict rests on is what the steps
still to come will find. The invariant is

    PublishInv == Shape /\ FiguresType /\ FiguresInv /\ QualityInv

* `Shape`: the steps left are of the session's commands, and so is the verdict.
* `FiguresType`: a table, a page and the front row are torn or hold the figures of
  one build, whoever wrote them.
* `FiguresInv`: a table or a page about to be written is of the design and the build
  there are, since no edit comes inside a command; the row is judged against pages
  that are so already, or that are written before its turn (`Relies`).
* `QualityInv`: every row of `quality.json`, held-out rows included, was scored on the
  ids its protocol names by a model of the calibration the file names, and the checks
  left are of a cut there is.

**Demos** (`Demo_proofs`): `DemoReportIsTrue`, that is `DemoReportsItsRun` and
`DemoOkIsGolden`, for any widths, lengths, continuations and cycles, over any
files left by commands before. The invariant is

    DemoInv == session \in {"demo", "toolcall"} =>
                   DemoType /\ DemoTodo /\ DemoDone /\ DemoReportsItsRun /\ DemoOkIsGolden

* `DemoType`: each file is absent, torn, or what a command writes: a run of some
  image (`IsRun`), a layout (`IsLayout`), a golden record (`IsRecord`). Files of
  different commands need not agree, which is what the report has to find.
* `DemoTodo`: the order of the steps. A script ends with its runs and the report, so
  nothing is built between them; a command by hand runs nothing.
* `DemoDone`: what the steps that are done have left *of the directory as it is*: the
  run of a demo, if the harness started; of the prefix demo the cache of the first
  turn, a prompt longer than it (the header check), the restored run, the run
  without reuse. Each step adds its part, and none of the later ones disturbs it.
* The record the report of a script reads is then of the image in the directory,
  unless the harness refused to start on that directory; and then a file of it is torn
  or of another compile, which a hash finds. That is why no property of the ids is
  needed: which image ran is known from the order of the steps, not from what it
  emitted.
* `DemoOkIsGolden` rests on no order: the golden record is held to the
  calibration, the layers and the width of the compiled model, which are all that a
  record depends on besides its prompt (`RecordIs`), and cutting a continuation twice
  cuts it once (`FirstFirst`).

**Assumptions.** Those of the modules; TLC evaluates each on its runs' constants.
`DescriptorsAssumption`, `CsrAssumption`, `RowModAssumption`, `WritePathAssumption`,
`ReadArbAssumption`, `SeqFetchAssumption`, `ControlAssumption`, `FetchPathAssumption`,
and for the units `IsaAssumption`, `UnitIssueAssumption`, `StreamCtrlAssumption` and
`GemvRowAssumption`, are ranges and divisibilities of the parameters (2 ^ KBits is
said to be a number because the provers do not compute powers). `UnitsAssumption`: a
descriptor's K and a position are numbers. For the commands `MaxNewsAssumption`,
`BlocksAssumption`, `BuildsAssumption` and `CyclesAssumption` are ranges;
`CutsAssumption` is that a cut is what `source_record` makes of its split and windows,
`BenchesAssumption` that the bench of an equivalent netlist is among the benches and
passes. `GreedyAssumption` is that `Greedy` gives ids up to an end of sequence and
none after it; where `--max-new` comes first, what lies behind does not matter. Two of
the control side have content: memory holds fewer unacknowledged writes, and fewer
beats of a stream, than a counter can count (2^32 and the width of the saturating
count in the core). `HostAssumption`: a command line with a prefix length generates
nothing (`cfg.hpp:321`), a prompt is not empty (`main.cpp:556`), POS reaches the
positions of a run. `ImageAssumption`: the last descriptor of a token's program, and
no other, is a HALT (or is damaged), and one before it is a KVWRITE of row 0, as
`compiler.py` emits them; `Compiler` models that program.

TLC checked every invariant on a run before it was proved, and the properties
themselves are still checked on every run of section 3.

**Only model-checked:** the properties of `TokenRun` and `NumericsRun`,
`VerdictIsExact` of `Checks` and `OutputsExact` of `Units`: what they say is of the
values that folds and recursive functions over data compute; and all liveness.
**Out of the prover's reach:** liveness under fairness and ENABLED, induction over
data, recursive operators.

## 7. Where code and documents part

* **An ABORT after a stepped descriptor's retire is forgotten** (`late_abort`).
  docs/RTL.md 3.5 says it takes effect at the next STEP. The end of a run clears
  the bit, and so does the start of the next.
* **An accumulate may take another row's old word** (`old_word`). The requant
  reads the old word of an output on port B and captures it two cycles later, and
  holds other rows' reads back for the cycle in which the row select would have to
  turn (`qcore_requant.sv:304-308`). The condition looks at the cycle of the read
  only. When the dump queue is full in that cycle the pipeline freezes, the
  capture comes one cycle later, and by then another row's read may have turned
  the port: the old word is what that row's bank last returned. It takes two rows,
  an accumulate with VSRAM_DUMP, and a last tile of channels = 1 mod 8, so that the
  other row's first read follows at once. `OutputsExact` fails on the same
  instance. The hidden sizes of the models at hand are multiples of 8, so
  their programs do not meet it.

Smaller things met while modelling, each without a run:

* A descriptor read already presented when `fetch_hold` rises keeps its valid and
  may pass one KV or dump write; docs/RTL.md:423-424 says so, the header of
  `qcore_seq_fetch.sv` (8-11) says none passes. `OneOvertakes` bounds it to one.
  It is harmless unless a program writes into its own descriptors.
* A row counts a bounds event for the source range of an EMBED, which reads no
  VSRAM; the simulator does not. No compiled program has such a range.
* The requant's branch for a tile that waits at the end of the last one is never
  taken: the rows hand over only when the requant waits or fires the last element.
* The row of another Yosys build in the front page is held to nothing, though
  `synth_report.py:25` says there is no drift.
* A run record names its image by path and size (`cli.py:613`): when the image is
  rebuilt in place to the same size and the ids are the same, `demo-report` by hand
  takes the old record for a run of the new image. In a script the run comes
  between the build and the report, so it cannot happen there
  (`DemoReportsItsRun`); by hand the ids are still the golden ones
  (`DemoOkIsGolden`).
* A golden record belongs to a layout by layers, calibration and width
  (`compiler.py:1032-1050`); the prompt it continues is known by its file name. A
  record of an earlier edit of the prompt is taken, and a right run fails against it,
  or passes when the ids happen to agree.
* A page whose writing was interrupted below its last needed row still passes
  `synth_report.py --check` on another Yosys build; on its own build only when nothing
  of it is missing (`PagesAreMeasured`).
* `compare.run_rtl` with `allow_error` reads records an earlier run left.
* `compile` without `--prompt` leaves an older `prompt.tokens` in the directory.
* An interrupted `write_quality` leaves a torn `quality.json` that no check can
  repair; an interrupted page write loses the notes kept by hand.

## 8. Not modelled, and what is left

* **PERF** (`qcore_perf.sv`): buckets counted from the pulses of every unit, the
  vector unit included. Their sum at the snapshot is the property to state.
* **Vector unit** (`qcore_vpu_*.sv`): the phases and lanes of the six row
  operations, and their side of the crossbar and of the SREG port. What they
  compute is in `Numerics` and, by operand, in `Isa`; how they take turns on
  the two ports is not.
* **Readers and generators**: `safetensors_np.py`, `tokenizer_io.py`,
  `csrgen.py`, `lutgen.py`, the ROM contents: no state, formats of others.
* **Float reference and synthetic checkpoints** (`reference_np.py`,
  `synthetic.py`): floating point has no counterpart here.
* **Test benches, probes, CI and Yosys scripts**: read as references, not as
  parts of the program.
* **Proofs**: every safety property of the control path, the fetch, the harness and the
  commands is a theorem. `SpaceReserved` is the one of the units; `OutputsExact`
  and the properties of `TokenRun` compare a machine with sums, maxima and
  programs built by recursion over rows, tiles and descriptors, `NumericsRun`'s
  with the rounding and shifting of numbers, `VerdictIsExact` a tool's walk over
  recorded runs with the runs themselves. Each would be an induction over data.
