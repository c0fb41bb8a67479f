-------------------------------- MODULE Csr --------------------------------
(***************************************************************************)
(* qcore_csr: the control and status registers the host programs the core  *)
(* through.  One Tick is one clock edge: a host write (or none) and the    *)
(* dispatcher's registered pulses are sampled together.                    *)
(*                                                                         *)
(* A host write is a record [reg, val]; val is a set of bit names for CTRL *)
(* and STATUS and the written value for the rw registers.                  *)
(***************************************************************************)
EXTENDS Descriptors

CONSTANTS
    Addrs,       \* byte addresses a PC can hold; Addrs = 0 .. AddrMod - 1
    AddrMod,     \* 2^32 in the core
    CounterMod,  \* 2^32 in the core: the event counters wrap
    Positions,   \* values the host writes to POS
    Tokens       \* values the host writes to TOK

DescBytes == 32

ASSUME CsrAssumption ==
    /\ AddrMod \in Nat \ {0} /\ AddrMod % DescBytes = 0
    /\ Addrs \subseteq 0 .. (AddrMod - 1)
    /\ \A a \in Addrs : (a + DescBytes) % AddrMod \in Addrs
    /\ 0 \in Addrs
    /\ CounterMod \in Nat \ {0}
    /\ Positions \subseteq Nat /\ 0 \in Positions
    /\ 0 \in Tokens

CtrlBits   == {"START", "STEP", "ABORT"}
StatusBits == {"DONE", "STEP_HALTED", "ERR"}
Faults     == {"NONE", "OPCODE", "ROW", "PC_ALIGN", "CLASS"}

\* What the fault_op field can name: an opcode, or 0.
FaultOps   == KnownOps \cup {"BAD", "NONE"}

NoWrite == [reg |-> "NONE", val |-> {}]

HostWrites ==
         {NoWrite}
    \cup [reg : {"CTRL"}, val : SUBSET CtrlBits]
    \cup [reg : {"STATUS"}, val : SUBSET StatusBits]
    \cup [reg : {"PC"}, val : Addrs]
    \cup [reg : {"ROW_EN"}, val : SUBSET Rows]
    \cup [reg : {"POS"}, val : Positions]
    \cup [reg : {"TOK"}, val : Tokens]

VARIABLES
    start, step, abortRun,        \* the one-cycle command pulses
    pc, rowEn, tok, pos,          \* the rw registers
    doneQ, stepHaltedQ, errQ,     \* STATUS bits
    faultQ, faultOpQ,             \* STATUS.FAULT and STATUS.FAULT_OP
    errBounds                     \* the dispatcher's share of ERR_BOUNDS

pulseVars  == <<start, step, abortRun>>
rwVars     == <<pc, rowEn, tok, pos>>
statusVars == <<doneQ, stepHaltedQ, errQ, faultQ, faultOpQ>>
csrVars    == <<pulseVars, rwVars, statusVars, errBounds>>

CsrTypeOK ==
    /\ start \in BOOLEAN /\ step \in BOOLEAN /\ abortRun \in BOOLEAN
    /\ pc \in Addrs /\ rowEn \in SUBSET Rows
    /\ tok \in Tokens /\ pos \in Positions
    /\ doneQ \in BOOLEAN /\ stepHaltedQ \in BOOLEAN /\ errQ \in BOOLEAN
    /\ faultQ \in Faults /\ faultOpQ \in FaultOps
    /\ errBounds \in 0 .. (CounterMod - 1)

\* Reset: every register is zero.
CsrInit ==
    /\ start = FALSE /\ step = FALSE /\ abortRun = FALSE
    /\ pc = 0 /\ rowEn = {} /\ tok = 0 /\ pos = 0
    /\ doneQ = FALSE /\ stepHaltedQ = FALSE /\ errQ = FALSE
    /\ faultQ = "NONE" /\ faultOpQ = "NONE"
    /\ errBounds = 0

-----------------------------------------------------------------------------
Ctrl(w, b) == w.reg = "CTRL" /\ b \in w.val

\* Fault: STEP accepted while the core runs.
CtrlTickStepAnyTime(w, busy) ==
    /\ start'    = (Ctrl(w, "START") /\ ~busy)
    /\ step'     = (Ctrl(w, "STEP") /\ ~Ctrl(w, "START"))
    /\ abortRun' = (Ctrl(w, "ABORT") /\ busy)

\* CTRL: START and STEP act only while the core is idle, ABORT only while it
\* is busy, and START wins over STEP.
CtrlTick(w, busy) ==
    /\ start'    = (Ctrl(w, "START") /\ ~busy)
    /\ step'     = (Ctrl(w, "STEP") /\ ~busy /\ ~Ctrl(w, "START"))
    /\ abortRun' = (Ctrl(w, "ABORT") /\ busy)

\* Fault: the host reaches the registers while the core runs.
HostWrAnyTime(w, busy, r) == w.reg = r

\* The rw registers belong to the core while it runs.
HostWr(w, busy, r) == ~busy /\ w.reg = r

RwTick(w, busy, o) ==
    /\ rowEn' = IF HostWr(w, busy, "ROW_EN") THEN w.val ELSE rowEn
    /\ tok'   = IF HostWr(w, busy, "TOK") THEN w.val ELSE tok
    /\ pos'   = IF HostWr(w, busy, "POS") THEN w.val ELSE pos
    /\ pc'    = IF o.pcSet THEN o.pcVal
                ELSE IF HostWr(w, busy, "PC") THEN w.val ELSE pc

Cleared(w, b) == w.reg = "STATUS" /\ b \in w.val

\* START and STEP clear the whole block; otherwise a set pulse wins over a
\* write-one-to-clear of the same cycle.
StatusTick(w, o, code, fop) ==
    IF start \/ step
    THEN /\ doneQ' = FALSE /\ stepHaltedQ' = FALSE /\ errQ' = FALSE
         /\ faultQ' = "NONE" /\ faultOpQ' = "NONE"
    ELSE /\ doneQ' = (o.done \/ (doneQ /\ ~Cleared(w, "DONE")))
         /\ stepHaltedQ' = (o.halted \/ (stepHaltedQ /\ ~Cleared(w, "STEP_HALTED")))
         /\ errQ' = (o.err \/ (errQ /\ ~Cleared(w, "ERR")))
         /\ faultQ' = IF o.err THEN code
                      ELSE IF Cleared(w, "ERR") THEN "NONE" ELSE faultQ
         /\ faultOpQ' = IF o.err THEN fop
                        ELSE IF Cleared(w, "ERR") THEN "NONE" ELSE faultOpQ

CounterTick(o) ==
    errBounds' = IF start THEN 0 ELSE (errBounds + o.errb) % CounterMod

\* One clock edge: w is the host write, o the dispatcher's registered pulses,
\* code and fop its latched fault.
CsrTick(w, busy, o, code, fop) ==
    /\ CtrlTick(w, busy)
    /\ RwTick(w, busy, o)
    /\ StatusTick(w, o, code, fop)
    /\ CounterTick(o)
=============================================================================
