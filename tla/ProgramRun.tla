----------------------------- MODULE ProgramRun -----------------------------
(***************************************************************************)
(* What the core promises a host about a program (docs/ISA.md, program     *)
(* end; docs/RTL.md 3.5): descriptors execute one at a time in address     *)
(* order, none that faults executes, a step executes at most one, and a    *)
(* run is reported over, with PC on the first descriptor that did not      *)
(* execute, only once every write it made has landed.                      *)
(***************************************************************************)
EXTENDS Descriptors

CONSTANTS AddrMod, DescBytes

VARIABLES
    prog,       \* the program in memory
    at,         \* PC: the first descriptor not executed
    rows, p,    \* the registers ROW_EN and POS
    running, stepping,
    count,      \* descriptors executed by this run, counted up to 2
    asked,      \* the host asked to abort
    dirty,      \* a write of the program has not landed
    report      \* how the run just ended, for one step

runVars == <<prog, at, rows, p, running, stepping, count, asked, dirty, report>>

RunInit ==
    /\ ~running /\ ~asked /\ ~dirty /\ count = 0 /\ report = "none"

Faulty == at % DescBytes # 0 \/ Fault(prog[at], rows) # "NONE"

Halts == prog[at].op = "HALT"

\* Writes land at any time; new ones come only from a run.
WritesMove == dirty' => dirty \/ running

HostIdle == ~running /\ UNCHANGED prog

\* The host sets registers between runs.
Configure ==
    /\ HostIdle /\ ~running'
    /\ ~dirty' /\ report' = "none"
    /\ UNCHANGED <<stepping, count, asked>>

\* START or STEP.
Go ==
    /\ HostIdle /\ running'
    /\ count' = 0 /\ ~asked' /\ ~dirty' /\ report' = "none"

\* The registers and the program hold while a run is on; an ABORT may arrive.
Held == UNCHANGED <<prog, rows, p, stepping>>

Continue == running' /\ report' = "none" /\ (asked => asked')

\* The end of a run: every write has landed.
End(kind) == ~running' /\ ~dirty /\ ~dirty' /\ ~asked' /\ report' = kind

Advance ==
    /\ ~Faulty
    /\ stepping => count = 0
    /\ at' = (at + DescBytes) % AddrMod
    /\ count' = IF count < 2 THEN count + 1 ELSE count

\* A descriptor executes; a step may end with it, and so may a run the host
\* asked to abort.
Exec ==
    /\ running /\ Held /\ Advance /\ ~Halts
    /\ \/ Continue
       \/ stepping /\ End("halted")
       \/ asked /\ End("done")
    /\ WritesMove

ExecHalt == running /\ Held /\ Advance /\ Halts /\ End("done")

\* Work between two descriptors.
Between == running /\ Held /\ UNCHANGED <<at, count>> /\ Continue /\ WritesMove

\* A run ends between two descriptors: on a fault, an ABORT or a finished step.
Finish ==
    /\ running /\ Held /\ UNCHANGED <<at, count>>
    /\ \/ Faulty /\ End("error")
       \/ asked /\ End("done")
       \/ stepping /\ count = 1 /\ End("halted")

RunNext == Configure \/ Go \/ Exec \/ ExecHalt \/ Between \/ Finish

RunSpec == RunInit /\ [][RunNext]_runVars
=============================================================================
