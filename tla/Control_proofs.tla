--------------------------- MODULE Control_proofs ---------------------------
(***************************************************************************)
(* Proofs about Control, for every value of the constants: types, writes,  *)
(* stops and the descriptor in hand; then what becomes of a whole program. *)
(***************************************************************************)
EXTENDS Control, Wraps, FiniteSetTheorems

-----------------------------------------------------------------------------
(* Types of the decode *)

\* The bounds events of a descriptor are a number of events.
LEMMA BoundsErrorsType ==
    ASSUME NEW e, NEW re \in SUBSET Rows, NEW q
    PROVE  BoundsErrors(e, re, q) \in Nat
<1>1. IsFiniteSet(Rows)
    BY FS_Interval, DescriptorsAssumption DEF Rows
<1>2. IsFiniteSet(RowsC(e, re))
    BY <1>1, FS_Subset DEF RowsC
<1>3. Cardinality(RowsC(e, re)) \in Nat
    BY <1>2, FS_CardinalityType
<1> DEFINE k == (IF NOver(e, q) THEN 1 ELSE 0) + (IF KOver(e, q) THEN 1 ELSE 0)
                    + (IF LenErr(e, q) THEN 1 ELSE 0)
<1>4. k \in Nat
    OBVIOUS
<1> HIDE DEF k
<1>5. Cardinality(RowsC(e, re)) * k \in Nat
    BY <1>3, <1>4
<1> QED
    BY <1>5 DEF BoundsErrors, k

\* A decode fault is a fault code.
LEMMA FaultType == ASSUME NEW e, NEW re PROVE Fault(e, re) \in Faults
BY DEF Fault, Faults

\* The pulse records are pulse records.
LEMMA QuietType == Quiet \in Pulses
BY CsrAssumption DEF Quiet, Pulses

LEMMA RetireOutType ==
    ASSUME CsrTypeOK PROVE RetireOut \in Pulses
<1>1. (pc + DescBytes) % AddrMod \in Addrs
    BY CsrAssumption DEF CsrTypeOK
<1>2. (IF state = "DEC" THEN BoundsErrors(d, rowEn, pos) ELSE 0) \in Nat
    BY BoundsErrorsType DEF CsrTypeOK
<1> QED
    BY <1>1, <1>2 DEF RetireOut, Quiet, Pulses

LEMMA EndOutType ==
    ASSUME NEW o \in Pulses, NEW s \in BOOLEAN, NEW e \in BOOLEAN
    PROVE  EndOut(o, s, e) \in Pulses
BY DEF EndOut, Pulses

LEMMA IssueOutType ==
    ASSUME NEW o \in Pulses, NEW g \in BOOLEAN, NEW v \in BOOLEAN, NEW k \in BOOLEAN,
           NEW e \in Nat
    PROVE  [o EXCEPT !.gemv = g, !.vpu = v, !.kv = k, !.errb = e] \in Pulses
BY DEF Pulses

-----------------------------------------------------------------------------
(* Types of the registers *)

\* A host write carries a value of the register it names.
LEMMA HostWriteTypes ==
    ASSUME NEW w \in HostWrites
    PROVE  /\ w.reg = "PC" => w.val \in Addrs
           /\ w.reg = "ROW_EN" => w.val \in SUBSET Rows
           /\ w.reg = "POS" => w.val \in Positions
           /\ w.reg = "TOK" => w.val \in Tokens
BY DEF HostWrites, NoWrite

\* The register block keeps its types over an edge.
LEMMA CsrTypes ==
    ASSUME CsrTypeOK, NEW w \in HostWrites, NEW b, NEW o \in Pulses,
           NEW c \in Faults, NEW f \in FaultOps, CsrTick(w, b, o, c, f)
    PROVE  CsrTypeOK'
<1>1. start' \in BOOLEAN /\ step' \in BOOLEAN /\ abortRun' \in BOOLEAN
    BY DEF CsrTick, CtrlTick
<1>2. pc' \in Addrs /\ rowEn' \in SUBSET Rows /\ tok' \in Tokens /\ pos' \in Positions
    BY HostWriteTypes DEF CsrTick, RwTick, HostWr, CsrTypeOK, Pulses
<1>3. doneQ' \in BOOLEAN /\ stepHaltedQ' \in BOOLEAN /\ errQ' \in BOOLEAN
    <2>1. CASE start \/ step
        BY <2>1 DEF CsrTick, StatusTick
    <2>2. CASE ~(start \/ step)
        BY <2>2 DEF CsrTick, StatusTick
    <2> QED BY <2>1, <2>2
<1>4. faultQ' \in Faults /\ faultOpQ' \in FaultOps
    BY DEF CsrTick, StatusTick, CsrTypeOK, Faults, FaultOps
<1>5. errBounds' \in 0 .. (CounterMod - 1)
    <2>1. errBounds + o.errb \in Int
        BY CsrAssumption DEF CsrTypeOK, Pulses
    <2>2. (errBounds + o.errb) % CounterMod \in 0 .. (CounterMod - 1)
        BY <2>1, ModType, CsrAssumption
    <2> QED
        BY <2>2, CsrAssumption DEF CsrTick, CounterTick
<1> QED
    BY <1>1, <1>2, <1>3, <1>4, <1>5 DEF CsrTypeOK

\* The row counter of the SREG read and the set of rows read.
LEMMA SregTypes ==
    ASSUME DispTypeOK, PrepTick
    PROVE  srR' \in 0 .. (RowMod - 1) /\ srPh' \in BOOLEAN /\ sxRows' \in SUBSET Rows
<1>1. srR \in 0 .. (RowMod - 1) /\ srPh \in BOOLEAN /\ sxRows \in SUBSET Rows
    BY DEF DispTypeOK
<1>2. CASE state = "PREP"
    <2>1. 0 \in 0 .. (RowMod - 1)
        BY RowModAssumption
    <2>2. Rows \in SUBSET Rows
        OBVIOUS
    <2> QED BY <1>1, <1>2, <2>1, <2>2 DEF PrepTick
<1>3. CASE state = "SREG"
    <2>1. (srR + 1) % RowMod \in 0 .. (RowMod - 1)
        BY <1>1, RowModAssumption
    <2>2. srPh' \in BOOLEAN
        BY <1>3 DEF PrepTick, SregTick
    <2>3. srR' \in 0 .. (RowMod - 1)
        BY <1>1, <1>3, <2>1 DEF PrepTick, SregTick
    <2>4. SrActive => srR \in Rows
        BY DEF SrActive, RowsC, DispTypeOK, Desc
    <2>5. sxRows' \in SUBSET Rows
        BY <1>1, <1>3, <2>4 DEF PrepTick, SregTick
    <2> QED BY <2>2, <2>3, <2>5
<1>4. CASE state \notin {"PREP", "SREG"}
    BY <1>1, <1>4 DEF PrepTick, SregTick, KeepSreg
<1> QED
    BY <1>2, <1>3, <1>4

\* The bounds events latched by the decode.
LEMMA ErrbType ==
    ASSUME CsrTypeOK, DispTypeOK, LatchErrb PROVE errbQ' \in Nat
BY BoundsErrorsType DEF CsrTypeOK, DispTypeOK, LatchErrb

\* The dispatcher's registers keep their types over an edge.
LEMMA DispTypes ==
    ASSUME CsrTypeOK, DispTypeOK, NEW in, in.dqDesc \in Desc, DispTick(in)
    PROVE  DispTypeOK'
<1> USE DEF States
<1>1. Quiet \in Pulses /\ RetireOut \in Pulses
    BY QuietType, RetireOutType
<1>2. /\ state \in States /\ busy \in BOOLEAN /\ d \in Desc
      /\ stepMode \in BOOLEAN /\ abortQ \in BOOLEAN
      /\ stopErr \in BOOLEAN /\ stopStep \in BOOLEAN /\ gemvDone \in BOOLEAN
      /\ srR \in 0 .. (RowMod - 1) /\ srPh \in BOOLEAN /\ sxRows \in SUBSET Rows
      /\ faultCode \in Faults /\ faultOp \in FaultOps
      /\ cmdPos \in Positions /\ cmdTok \in Tokens
      /\ pos \in Positions /\ tok \in Tokens /\ abortRun \in BOOLEAN
    BY DEF DispTypeOK, CsrTypeOK
<1>3. SUFFICES ASSUME TRUE
               PROVE  /\ state' \in States /\ busy' \in BOOLEAN /\ d' \in Desc
                      /\ stepMode' \in BOOLEAN /\ abortQ' \in BOOLEAN
                      /\ stopErr' \in BOOLEAN /\ stopStep' \in BOOLEAN
                      /\ gemvDone' \in BOOLEAN
                      /\ srR' \in 0 .. (RowMod - 1) /\ srPh' \in BOOLEAN /\ sxRows' \in SUBSET Rows
                      /\ errbQ' \in Nat
                      /\ faultCode' \in Faults /\ faultOp' \in FaultOps
                      /\ cmdPos' \in Positions /\ cmdTok' \in Tokens
                      /\ out' \in Pulses
    BY DEF DispTypeOK
<1>4. Steady(in) => /\ d' \in Desc /\ abortQ' \in BOOLEAN /\ gemvDone' \in BOOLEAN
                    /\ srR' \in 0 .. (RowMod - 1) /\ srPh' \in BOOLEAN /\ sxRows' \in SUBSET Rows
                    /\ errbQ' \in Nat
                    /\ cmdPos' \in Positions /\ cmdTok' \in Tokens
    BY <1>2, SregTypes, ErrbType DEF Steady, LatchAbort, LatchGemv, KeepDesc
<1>5. Waits(in) => /\ stopErr' \in BOOLEAN /\ stopStep' \in BOOLEAN
                   /\ faultCode' \in Faults /\ faultOp' \in FaultOps
                   /\ busy' \in BOOLEAN /\ stepMode' \in BOOLEAN /\ out' \in Pulses
    BY <1>1, <1>2 DEF Waits, KeepStop, KeepFault, KeepRun
<1>6. Waits(in) => Steady(in)
    BY DEF Waits
<1>7. CASE Rest(in) BY <1>7, <1>4, <1>5, <1>6 DEF Rest
<1>8. CASE Begin(in)
    BY <1>8, <1>1, <1>2, SregTypes, ErrbType
    DEF Begin, LatchGemv, KeepDesc, KeepStop, KeepFault
<1>9. CASE StartFetch(in)
    <2>1. out' \in Pulses
        BY <1>1, <1>9 DEF StartFetch, Pulses
    <2> QED BY <2>1, <1>9, <1>2, <1>4 DEF StartFetch, KeepStop, KeepFault, KeepRun
<1>10. CASE AwaitHead(in) BY <1>10, <1>4, <1>5, <1>6 DEF AwaitHead
<1>11. CASE Pop(in)
    BY <1>11, <1>1, <1>2, ErrbType
    DEF Pop, LatchAbort, KeepStop, KeepFault, KeepRun
<1>12. CASE Decode(in) BY <1>12, <1>4, <1>5, <1>6 DEF Decode
<1>13. CASE Prepare(in) BY <1>13, <1>4, <1>5, <1>6 DEF Prepare
<1>14. CASE AwaitFence(in) BY <1>14, <1>4, <1>5, <1>6 DEF AwaitFence
<1>15. CASE PassFence(in) BY <1>15, <1>4, <1>5, <1>6 DEF PassFence
<1>16. CASE ReadSreg(in) BY <1>16, <1>4, <1>5, <1>6 DEF ReadSreg
<1>17. CASE Issue(in)
    <2>1. errbQ \in Nat
        BY DEF DispTypeOK
    <2> DEFINE g == d.op \in GemvOps
               v == d.op \in VpuOps
               k == d.op = "KVWRITE"
    <2>3. g \in BOOLEAN /\ v \in BOOLEAN /\ k \in BOOLEAN
        OBVIOUS
    <2>4. out' = [Quiet EXCEPT !.gemv = g, !.vpu = v, !.kv = k, !.errb = errbQ]
        BY <1>17 DEF Issue
    <2> HIDE DEF g, v, k
    <2>2. out' \in Pulses
        BY <1>1, <2>1, <2>3, <2>4, IssueOutType
    <2> QED
        BY <2>2, <1>17, <1>2, SregTypes, ErrbType
        DEF Issue, LatchAbort, KeepDesc, KeepStop, KeepFault, KeepRun
<1>18. CASE AwaitUnit(in) BY <1>18, <1>4, <1>5, <1>6 DEF AwaitUnit
<1>19. CASE RetireNext(in)
    BY <1>19, <1>1, <1>2, <1>4 DEF RetireNext, KeepStop, KeepFault, KeepRun
<1>20. CASE RetireHalt(in)
    BY <1>20, <1>1, <1>2, EndOutType, SregTypes, ErrbType
    DEF RetireHalt, LatchGemv, KeepDesc, KeepStop, KeepFault
<1>21. CASE Stop(in)
    <2> DEFINE o == IF ARetire(in) THEN RetireOut ELSE Quiet
    <2>1. o \in Pulses
        BY <1>1
    <2>2. EndOut(o, AStepStop(in), AFault) \in Pulses
        BY <2>1, EndOutType DEF AStepStop, AFault
    <2>3. out' \in Pulses
        BY <1>21, <2>1, <2>2 DEF Stop
    <2>4. DecodeFault \in Faults /\ "PC_ALIGN" \in Faults
        BY FaultType DEF DecodeFault, Faults
    <2>5. d.op \in FaultOps /\ "NONE" \in FaultOps
        BY <1>2 DEF Desc, FaultOps
    <2>6. faultCode' \in Faults /\ faultOp' \in FaultOps
        BY <1>2, <1>21, <2>4, <2>5 DEF Stop
    <2>7. stopErr' \in BOOLEAN /\ stopStep' \in BOOLEAN
        BY <1>21 DEF Stop, AFault, AStepStop
    <2>8. state' \in States /\ busy' \in BOOLEAN /\ abortQ' \in BOOLEAN
        BY <1>2, <1>21 DEF Stop, LatchAbort
    <2> QED
        BY <1>2, <1>21, <2>3, <2>6, <2>7, <2>8, SregTypes, ErrbType
        DEF Stop, LatchGemv, KeepDesc
<1>22. CASE AwaitStop(in) BY <1>22, <1>4, <1>5, <1>6 DEF AwaitStop
<1>23. CASE CloseStop(in)
    <2>1. EndOut(Quiet, stopStep, ~stopStep /\ stopErr) \in Pulses
        BY <1>1, <1>2, EndOutType
    <2> QED
        BY <1>23, <1>2, <2>1, SregTypes, ErrbType
        DEF CloseStop, LatchGemv, KeepDesc, KeepStop, KeepFault
<1> QED
    BY <1>7, <1>8, <1>9, <1>10, <1>11, <1>12, <1>13, <1>14, <1>15, <1>16, <1>17,
       <1>18, <1>19, <1>20, <1>21, <1>22, <1>23 DEF DispTick

-----------------------------------------------------------------------------
(* Type correctness *)

\* The write path keeps its types.
LEMMA WriteTypes ==
    ASSUME WriteTypeOK, NEW fin, NEW more, NEW wrReady, NEW wrAck,
           PresentTick(fin, more, wrReady), WriteTick(wrReady, wrAck)
    PROVE  WriteTypeOK'
<1>1. kValid' \in BOOLEAN /\ dValid' \in BOOLEAN
    BY DEF PresentTick
<1>2. wqValid' \in BOOLEAN
    BY DEF WriteTypeOK, WriteTick
<1>3. (issued + 1) % WrMod \in 0 .. (WrMod - 1) /\ (acked + 1) % WrMod \in 0 .. (WrMod - 1)
    BY ModType, WritePathAssumption DEF WriteTypeOK
<1>4. issued' \in 0 .. (WrMod - 1) /\ acked' \in 0 .. (WrMod - 1)
    BY <1>3 DEF WriteTypeOK, WriteTick
<1> QED
    BY <1>1, <1>2, <1>4, WritePathAssumption DEF WriteTypeOK

\* The descriptor stream keeps its types, whatever the pulses.
LEMMA StreamTypes ==
    ASSUME Stream!StreamTypeOK, NEW a \in Addrs, NEW fs, NEW fl, NEW r, NEW p,
           Stream!StreamTick(fs, fl, a, r, p)
    PROVE  Stream!StreamTypeOK'
<1>1. (sNext + DescBytes) % AddrMod \in Addrs
    BY CsrAssumption DEF Stream!StreamTypeOK
<1> QED
    BY <1>1 DEF Stream!StreamTypeOK, Stream!StreamTick, Stream!Restart, Stream!Flush,
                Stream!Deliver

LEMMA TypeInit == Init => TypeOK
<1> SUFFICES ASSUME Init PROVE TypeOK
    OBVIOUS
<1>0. 0 \in 0 .. (CounterMod - 1) /\ 0 \in 0 .. (WrMod - 1)
    BY CsrAssumption, WritePathAssumption
<1>1. CsrTypeOK
    BY <1>0, CsrAssumption DEF Init, CsrInit, CsrTypeOK, Faults, FaultOps
<1>2. DispTypeOK
    <2>1. NoDesc \in Desc
        BY DEF NoDesc, Desc, KnownOps
    <2>2. 0 \in 0 .. (RowMod - 1)
        BY RowModAssumption
    <2> QED
        BY <2>1, <2>2, QuietType, CsrAssumption
        DEF Init, DispInit, DispTypeOK, States, Faults, FaultOps
<1>3. WriteTypeOK
    BY <1>0 DEF Init, WriteInit, WriteTypeOK
<1>4. Stream!StreamTypeOK
    BY CsrAssumption DEF Init, Stream!StreamInit, Stream!StreamTypeOK
<1>5. code \in Programs /\ unit \in Units /\ streamBusy \in BOOLEAN
    BY DEF Init, Units
<1>6. dAt \in Addrs /\ ran \in 0 .. 2 /\ opened \in Int
    BY CsrAssumption DEF Init
<1>7. retiredErrb \in 0 .. (CounterMod - 1)
    BY <1>0 DEF Init
<1> QED
    BY <1>1, <1>2, <1>3, <1>4, <1>5, <1>6, <1>7 DEF TypeOK

\* A step of Next is an edge with some host write and some choices.
LEMMA NextIsTick ==
    ASSUME Next
    PROVE  \E w \in HostOps, fin, drained, more, wrReady, wrAck, appears \in BOOLEAN :
               Tick(w, fin, drained, more, wrReady, wrAck, appears)
<1>1. \A b : Maybe(b) \subseteq BOOLEAN
    BY DEF Maybe
<1>2. PICK fin \in Maybe(MayFinish), drained \in Maybe(streamBusy), wrReady \in Maybe(wqValid),
           wrAck \in Maybe(issued # acked), appears \in Maybe(sOn) :
        \E more \in Maybe(CanPresent(wrReady)) :
            /\ CoreTick(fin, drained, more, wrReady, wrAck, appears)
            /\ \E w \in HostOps : CsrTick(w, busy, out, faultCode, faultOp)
    BY DEF Next, NextUnder
<1>3. PICK more \in Maybe(CanPresent(wrReady)) :
            /\ CoreTick(fin, drained, more, wrReady, wrAck, appears)
            /\ \E w \in HostOps : CsrTick(w, busy, out, faultCode, faultOp)
    BY <1>2
<1>4. PICK w \in HostOps : CsrTick(w, busy, out, faultCode, faultOp)
    BY <1>3
<1>5. /\ fin \in BOOLEAN /\ drained \in BOOLEAN /\ more \in BOOLEAN
      /\ wrReady \in BOOLEAN /\ wrAck \in BOOLEAN /\ appears \in BOOLEAN
    BY <1>1, <1>2, <1>3
<1>6. Tick(w, fin, drained, more, wrReady, wrAck, appears)
    BY <1>3, <1>4 DEF Tick
<1> QED
    BY <1>4, <1>5, <1>6

LEMMA TypeStep == TypeOK /\ [Next]_vars => TypeOK'
<1> SUFFICES ASSUME TypeOK, [Next]_vars PROVE TypeOK'
    OBVIOUS
<1>1. CASE UNCHANGED vars
    BY <1>1 DEF TypeOK, vars, csrVars, pulseVars, rwVars, statusVars, dispVars, fsmVars,
                cmdVars, writeVars, unitVars, histVars, CsrTypeOK, DispTypeOK,
                WriteTypeOK, Stream!StreamTypeOK
<1>2. ASSUME NEW w \in HostOps, NEW fin \in BOOLEAN, NEW drained \in BOOLEAN,
             NEW more \in BOOLEAN, NEW wrReady \in BOOLEAN, NEW wrAck \in BOOLEAN,
             NEW appears \in BOOLEAN, Tick(w, fin, drained, more, wrReady, wrAck, appears)
      PROVE  TypeOK'
    <2> DEFINE in == Sampled(fin)
    <2>1. /\ UnitTick(fin, drained) /\ PresentTick(fin, more, wrReady)
          /\ WriteTick(wrReady, wrAck) /\ DispTick(in)
          /\ CsrTick(w, busy, out, faultCode, faultOp)
          /\ Stream!StreamTick(out.fstart, out.flush, pc, PopOk, appears)
          /\ HistTick(in, more, wrAck) /\ UNCHANGED code
        BY <1>2 DEF Tick, CoreTick, MemoryTick
    <2>2. CsrTypeOK /\ DispTypeOK /\ WriteTypeOK /\ Stream!StreamTypeOK
        BY DEF TypeOK
    <2>3. in.dqDesc \in Desc
        BY ControlAssumption DEF TypeOK, Sampled, Stream!StreamTypeOK
    <2>4. w \in HostWrites
        BY ControlAssumption
    <2>5. out \in Pulses /\ faultCode \in Faults /\ faultOp \in FaultOps /\ pc \in Addrs
        BY <2>2 DEF DispTypeOK, CsrTypeOK
    <2>6. CsrTypeOK'
        BY <2>1, <2>2, <2>4, <2>5, CsrTypes
    <2> HIDE DEF in
    <2>7. DispTypeOK'
        BY <2>1, <2>2, <2>3, DispTypes
    <2>8. WriteTypeOK'
        BY <2>1, <2>2, WriteTypes
    <2>9. Stream!StreamTypeOK'
        BY <2>1, <2>2, <2>5, StreamTypes
    <2>10. unit' \in Units /\ streamBusy' \in BOOLEAN
        BY <2>1 DEF UnitTick, TypeOK, Units
    <2>11. dAt' \in Addrs /\ ran' \in 0 .. 2 /\ opened' \in Int
        BY <2>1, <2>2 DEF HistTick, TypeOK, One, Stream!StreamTypeOK
    <2>12. retiredErrb' \in 0 .. (CounterMod - 1)
        <3>1. retiredErrb + BoundsErrors(d, rowEn, pos) \in Int
            BY <2>2, BoundsErrorsType, CsrAssumption DEF TypeOK, CsrTypeOK
        <3>2. (retiredErrb + BoundsErrors(d, rowEn, pos)) % CounterMod \in 0 .. (CounterMod - 1)
            BY <3>1, ModType, CsrAssumption
        <3> QED
            BY <2>1, <3>2, CsrAssumption DEF HistTick, TypeOK
    <2> QED
        BY <2>1, <2>6, <2>7, <2>8, <2>9, <2>10, <2>11, <2>12 DEF TypeOK
<1> QED
    BY <1>1, <1>2, NextIsTick

\* Every register of the control path holds a value of its width in every
\* reachable state: the row counter wraps, the counters wrap, PC stays an address
\* of the program memory (the registers of qcore_csr, qcore_seq_dispatch and
\* qcore_mem_arb).
THEOREM ControlTypes == Spec => []TypeOK
BY TypeInit, TypeStep, PTL DEF Spec

-----------------------------------------------------------------------------
(* The write path: opened writes are somewhere on it *)

WriteInv == opened = One(kValid) + One(dValid) + One(wqValid) + Unacked

LEMMA UnackedValue ==
    ASSUME WriteTypeOK
    PROVE  Unacked = IF issued >= acked THEN issued - acked ELSE issued + WrMod - acked
<1>1. issued + WrMod - acked \in 1 .. (2 * WrMod - 1)
    BY WritePathAssumption DEF WriteTypeOK
<1>2. CASE issued >= acked
    <2>1. issued + WrMod - acked \in WrMod .. (2 * WrMod - 1)
        BY <1>1, <1>2, WritePathAssumption DEF WriteTypeOK
    <2>2. (issued + WrMod - acked) % WrMod = (issued + WrMod - acked) - WrMod
        BY <2>1, ModWrap, WritePathAssumption
    <2> QED
        BY <1>2, <2>2, WritePathAssumption DEF WriteTypeOK, Unacked
<1>3. CASE issued < acked
    <2>1. issued + WrMod - acked \in 0 .. (WrMod - 1)
        BY <1>1, <1>3, WritePathAssumption DEF WriteTypeOK
    <2>2. (issued + WrMod - acked) % WrMod = issued + WrMod - acked
        BY <2>1, ModSmall, WritePathAssumption
    <2> QED
        BY <1>3, <2>2, WritePathAssumption DEF WriteTypeOK, Unacked
<1> QED
    BY <1>2, <1>3, WritePathAssumption DEF WriteTypeOK

\* The counters agree exactly when nothing is unacknowledged.
LEMMA UnackedZero ==
    ASSUME WriteTypeOK
    PROVE  Unacked \in 0 .. (WrMod - 1) /\ (Unacked = 0 <=> issued = acked)
BY UnackedValue, WritePathAssumption DEF WriteTypeOK

\* A register that counts one up and wraps.
LEMMA Increment ==
    ASSUME NEW x \in 0 .. (WrMod - 1)
    PROVE  (x + 1) % WrMod = IF x = WrMod - 1 THEN 0 ELSE x + 1
<1>1. CASE x = WrMod - 1
    <2>1. x + 1 \in WrMod .. (2 * WrMod - 1)
        BY <1>1, WritePathAssumption
    <2>2. (x + 1) % WrMod = (x + 1) - WrMod
        BY <2>1, ModWrap, WritePathAssumption
    <2> QED BY <1>1, <2>2, WritePathAssumption
<1>2. CASE x # WrMod - 1
    <2>1. x + 1 \in 0 .. (WrMod - 1)
        BY <1>2, WritePathAssumption
    <2>2. (x + 1) % WrMod = x + 1
        BY <2>1, ModSmall, WritePathAssumption
    <2> QED BY <1>2, <2>2
<1> QED BY <1>1, <1>2

\* An edge of the write path moves the number of unacknowledged writes by the
\* writes memory takes and acknowledges, through the wrap of either counter.
LEMMA UnackedStep ==
    ASSUME WriteTypeOK, WriteTypeOK', NEW wrReady \in BOOLEAN, NEW wrAck \in BOOLEAN,
           MemoryTick(wrReady, wrAck)
    PROVE  Unacked' = Unacked + One(wrReady) - One(wrAck)
<1>1. /\ wrReady => wqValid /\ Unacked < MaxUnacked
      /\ wrAck => issued # acked
      /\ issued' = IF wrReady THEN (issued + 1) % WrMod ELSE issued
      /\ acked' = IF wrAck THEN (acked + 1) % WrMod ELSE acked
    BY DEF MemoryTick, WriteTick
<1>2. issued \in 0 .. (WrMod - 1) /\ acked \in 0 .. (WrMod - 1)
    BY DEF WriteTypeOK
<1>3. issued' = IF wrReady THEN (IF issued = WrMod - 1 THEN 0 ELSE issued + 1) ELSE issued
    BY <1>1, <1>2, Increment
<1>4. acked' = IF wrAck THEN (IF acked = WrMod - 1 THEN 0 ELSE acked + 1) ELSE acked
    BY <1>1, <1>2, Increment
<1> DEFINE U(i, a) == IF i >= a THEN i - a ELSE i + WrMod - a
<1>5. Unacked = U(issued, acked)
    BY UnackedValue
<1>6. Unacked' = U(issued', acked')
    <2>1. (WriteTypeOK => Unacked = IF issued >= acked THEN issued - acked
                                    ELSE issued + WrMod - acked)'
        BY UnackedValue, PTL
    <2> QED BY <2>1
<1>7. wrReady => Unacked < WrMod - 1
    BY <1>1, UnackedZero, ControlAssumption, WritePathAssumption
<1> QED
    BY <1>1, <1>2, <1>3, <1>4, <1>5, <1>6, <1>7, WritePathAssumption DEF One

\* A presented write is opened once and travels from the requester over the
\* stage to memory without being lost or doubled.
LEMMA WriteInvStep ==
    ASSUME TypeOK, TypeOK', WriteInv,
           NEW in, NEW fin \in BOOLEAN, NEW more \in BOOLEAN,
           NEW wrReady \in BOOLEAN, NEW wrAck \in BOOLEAN,
           PresentTick(fin, more, wrReady), MemoryTick(wrReady, wrAck),
           HistTick(in, more, wrAck)
    PROVE  WriteInv'
<1>1. Unacked' = Unacked + One(wrReady) - One(wrAck)
    BY UnackedStep DEF TypeOK
<1>2. opened' = opened + One(more) - One(wrAck)
    BY DEF HistTick
<1>3. /\ kValid \in BOOLEAN /\ dValid \in BOOLEAN /\ wqValid \in BOOLEAN
      /\ Unacked \in Int
    BY UnackedZero, WritePathAssumption DEF TypeOK, WriteTypeOK
<1>4. wrReady => wqValid
    BY DEF MemoryTick
<1>5. wqValid' = IF ~wqValid \/ wrReady THEN kValid \/ dValid ELSE wqValid
    BY <1>3 DEF MemoryTick, WriteTick, WStageFree, TakeK, TakeD
<1>6. One(kValid') = One(kValid) - One(TakeK(wrReady)) + One(more /\ unit = "kv")
    BY <1>3 DEF PresentTick, CanPresent, TakeK, TakeD, WStageFree, One
<1>7. One(dValid') = One(dValid) - One(TakeD(wrReady)) + One(more /\ unit = "gemv")
    BY <1>3 DEF PresentTick, CanPresent, TakeK, TakeD, WStageFree, One
<1>8. One(more) = One(more /\ unit = "kv") + One(more /\ unit = "gemv")
    BY DEF PresentTick, CanPresent, One
<1>9. One(wqValid') = One(wqValid) - One(wrReady) + One(TakeK(wrReady)) + One(TakeD(wrReady))
    BY <1>3, <1>4, <1>5 DEF TakeK, TakeD, WStageFree, One
<1>10. /\ One(kValid) \in Int /\ One(dValid) \in Int /\ One(wqValid) \in Int
       /\ One(TakeK(wrReady)) \in Int /\ One(TakeD(wrReady)) \in Int
       /\ One(wrReady) \in Int /\ One(wrAck) \in Int
       /\ One(more /\ unit = "kv") \in Int /\ One(more /\ unit = "gemv") \in Int
    BY DEF One
<1> QED
    BY <1>1, <1>2, <1>3, <1>6, <1>7, <1>8, <1>9, <1>10 DEF WriteInv

\* Nothing opened, nothing anywhere on the path: and the other way round.
LEMMA IdleExact == TypeOK /\ WriteInv => WrIdleExact
<1> SUFFICES ASSUME TypeOK, WriteInv PROVE WrIdle <=> opened = 0
    BY DEF WrIdleExact
<1>1. Unacked \in Nat /\ (Unacked = 0 <=> issued = acked)
    BY UnackedZero, WritePathAssumption DEF TypeOK
<1>2. kValid \in BOOLEAN /\ dValid \in BOOLEAN /\ wqValid \in BOOLEAN
    BY DEF TypeOK, WriteTypeOK
<1> QED
    BY <1>1, <1>2 DEF WriteInv, WrIdle, One

-----------------------------------------------------------------------------
(* One unit at a time *)

\* A unit works, and the stream drains, only between the issue and the retire of
\* the descriptor in hand, and it is the unit of that descriptor.
UnitInv ==
    /\ state # "RUN" => unit = "none" /\ ~streamBusy /\ ~Issues
    /\ Issues => unit = "none" /\ ~streamBusy /\ ~gemvDone
    /\ out.gemv \/ unit = "gemv" \/ streamBusy => d.op \in GemvOps
    /\ out.vpu \/ unit = "vpu" => d.op \in VpuOps
    /\ out.kv \/ unit = "kv" => d.op = "KVWRITE"
    /\ gemvDone /\ state = "RUN" => unit = "none"

\* A retire from RUN finds the unit done and the stream drained.
LEMMA RetireFrees ==
    ASSUME TypeOK, UnitInv, NEW fin \in BOOLEAN, NEW drained \in BOOLEAN,
           UnitTick(fin, drained), state = "RUN", RetireRun(Sampled(fin))
    PROVE  /\ unit' = "none" /\ ~streamBusy' /\ ~Issues
           /\ unit = "none" \/ fin
<1>1. CASE d.op \in GemvOps
    <2>1. (gemvDone \/ (fin /\ unit = "gemv")) /\ ~streamBusy
        BY <1>1 DEF RetireRun, Sampled
    <2>2. unit = "none" \/ (fin /\ unit = "gemv")
        BY <2>1 DEF UnitInv
    <2>3. ~Issues
        BY <2>1 DEF UnitInv
    <2> QED
        BY <2>1, <2>2, <2>3 DEF UnitTick, Issues
<1>2. CASE d.op \notin GemvOps
    <2>1. fin /\ unit \in {"vpu", "kv"}
        BY <1>2 DEF RetireRun, Sampled
    <2>2. ~Issues /\ ~streamBusy
        BY <1>2, <2>1 DEF UnitInv
    <2> QED
        BY <2>1, <2>2 DEF UnitTick, Issues
<1> QED BY <1>1, <1>2

\* Only Issue raises an issue pulse, and only Issue enters RUN.
LEMMA IssueOnly ==
    ASSUME TypeOK, NEW in, DispTick(in), ~Issue(in)
    PROVE  ~Issues' /\ (state' = "RUN" => AwaitUnit(in))
<1> DEFINE NoIssue(o) == ~o.gemv /\ ~o.vpu /\ ~o.kv
<1>1. NoIssue(Quiet) /\ NoIssue(RetireOut)
    BY DEF Quiet, RetireOut
<1>2. ASSUME NEW o \in Pulses, NEW s \in BOOLEAN, NEW e \in BOOLEAN, NoIssue(o)
      PROVE  NoIssue(EndOut(o, s, e))
    BY <1>2 DEF EndOut, Pulses
<1>3. Quiet \in Pulses /\ RetireOut \in Pulses
    BY QuietType, RetireOutType DEF TypeOK
<1>4. SUFFICES NoIssue(out') /\ (state' = "RUN" => AwaitUnit(in))
    BY DEF Issues
<1> HIDE DEF NoIssue
<1>5. CASE Rest(in) BY <1>5, <1>1 DEF Rest, Waits
<1>6. CASE Begin(in) BY <1>6, <1>1 DEF Begin
<1>7. CASE StartFetch(in)
    BY <1>7 DEF StartFetch, NoIssue, Quiet
<1>8. CASE AwaitHead(in) BY <1>8, <1>1 DEF AwaitHead, Waits
<1>9. CASE Pop(in) BY <1>9, <1>1 DEF Pop
<1>10. CASE Decode(in) BY <1>10, <1>1 DEF Decode, Waits
<1>11. CASE Prepare(in) BY <1>11, <1>1 DEF Prepare, Waits
<1>12. CASE AwaitFence(in) BY <1>12, <1>1 DEF AwaitFence, Waits
<1>13. CASE PassFence(in) BY <1>13, <1>1 DEF PassFence, Waits
<1>14. CASE ReadSreg(in) BY <1>14, <1>1 DEF ReadSreg, Waits
<1>15. CASE AwaitUnit(in) BY <1>15, <1>1 DEF AwaitUnit, Waits
<1>16. CASE RetireNext(in) BY <1>16, <1>1 DEF RetireNext
<1>17. CASE RetireHalt(in) BY <1>17, <1>1, <1>2, <1>3 DEF RetireHalt
<1>18. CASE Stop(in)
    <2> DEFINE o == IF ARetire(in) THEN RetireOut ELSE Quiet
    <2>1. o \in Pulses /\ NoIssue(o)
        BY <1>1, <1>3
    <2>2. NoIssue(EndOut(o, AStepStop(in), AFault))
        BY <1>2, <2>1 DEF AStepStop, AFault
    <2> QED BY <1>18, <2>1, <2>2 DEF Stop
<1>19. CASE AwaitStop(in) BY <1>19, <1>1 DEF AwaitStop, Waits
<1>20. CASE CloseStop(in)
    <2>1. NoIssue(EndOut(Quiet, stopStep, ~stopStep /\ stopErr))
        BY <1>1, <1>2, <1>3 DEF TypeOK, DispTypeOK
    <2> QED BY <1>20, <2>1 DEF CloseStop
<1> QED
    BY <1>5, <1>6, <1>7, <1>8, <1>9, <1>10, <1>11, <1>12, <1>13, <1>14, <1>15, <1>16,
       <1>17, <1>18, <1>19, <1>20 DEF DispTick

\* Leaving RUN is a retire.
LEMMA LeavesRun ==
    ASSUME NEW in, DispTick(in), state = "RUN", state' # "RUN"
    PROVE  RetireRun(in)
<1>1. CASE RetireNext(in) BY <1>1 DEF RetireNext, ARetire
<1>2. CASE RetireHalt(in) BY <1>2 DEF RetireHalt, ARetire
<1>3. CASE Stop(in)
    BY <1>3 DEF Stop, AStop, AStepStop, AFault, AAbortEnd, ARetire
<1> QED
    BY <1>1, <1>2, <1>3
    DEF DispTick, Rest, Begin, StartFetch, AwaitHead, Pop, Decode, Prepare, AwaitFence,
        PassFence, ReadSreg, Issue, AIssue, AwaitUnit, AwaitStop, CloseStop, PopOk

LEMMA UnitStep ==
    ASSUME TypeOK, UnitInv, NEW fin \in BOOLEAN, NEW drained \in BOOLEAN,
           UnitTick(fin, drained), DispTick(Sampled(fin))
    PROVE  UnitInv'
<1> DEFINE in == Sampled(fin)
<1>1. CASE Issue(in)
    <2>1. state # "RUN" /\ state' = "RUN" /\ d' = d /\ ~gemvDone'
        BY <1>1 DEF Issue, AIssue, KeepDesc
    <2>2. unit' = "none" /\ ~streamBusy'
        BY <2>1 DEF UnitInv, UnitTick, Issues
    <2>3. /\ out'.gemv = (d.op \in GemvOps)
          /\ out'.vpu = (d.op \in VpuOps)
          /\ out'.kv = (d.op = "KVWRITE")
        BY <1>1 DEF Issue, Quiet
    <2> QED
        BY <2>1, <2>2, <2>3 DEF UnitInv, Issues
<1>2. CASE ~Issue(in) /\ state' = "RUN"
    <2>1. AwaitUnit(in) /\ ~Issues'
        BY <1>2, IssueOnly
    <2>2. state = "RUN" /\ d' = d /\ gemvDone' = (gemvDone \/ (fin /\ unit = "gemv"))
        BY <2>1 DEF AwaitUnit, Waits, Steady, KeepDesc, LatchGemv, Sampled
    <2> HIDE DEF in
    <2>3. gemvDone' => unit' = "none"
        BY <2>2 DEF UnitInv, UnitTick, Issues
    <2>4. /\ unit' = "gemv" \/ streamBusy' => d.op \in GemvOps
          /\ unit' = "vpu" => d.op \in VpuOps
          /\ unit' = "kv" => d.op = "KVWRITE"
        BY DEF UnitInv, UnitTick
    <2> QED
        BY <1>2, <2>1, <2>2, <2>3, <2>4 DEF UnitInv, Issues
<1>3. CASE ~Issue(in) /\ state' # "RUN"
    <2>1. ~Issues'
        BY <1>3, IssueOnly
    <2>2. unit' = "none" /\ ~streamBusy'
        <3>1. CASE state = "RUN"
            BY <1>3, <3>1, LeavesRun, RetireFrees
        <3>2. CASE state # "RUN"
            BY <3>2 DEF UnitInv, UnitTick, Issues
        <3> QED BY <3>1, <3>2
    <2> QED
        BY <1>3, <2>1, <2>2 DEF UnitInv, Issues
<1> QED BY <1>1, <1>2, <1>3

-----------------------------------------------------------------------------
(* The fences *)

\* An operation past its fence, the reading unit it issues and the end of a run
\* see no write open.
FenceInv ==
    /\ state = "SREG" /\ NeedsFence(d) => opened = 0
    /\ Issues /\ NeedsFence(d) => opened = 0
    /\ EndFenced

\* An idle write path stays idle over an edge at which no unit can present.
LEMMA StaysIdle ==
    ASSUME TypeOK, WriteInv, opened = 0,
           NEW in, NEW fin \in BOOLEAN, NEW more \in BOOLEAN,
           NEW wrReady \in BOOLEAN, NEW wrAck \in BOOLEAN,
           PresentTick(fin, more, wrReady), MemoryTick(wrReady, wrAck),
           HistTick(in, more, wrAck), unit = "none" \/ fin
    PROVE  opened' = 0
<1>1. ~more
    BY DEF PresentTick, CanPresent
<1>2. ~wrAck
    BY IdleExact DEF WrIdleExact, WrIdle, MemoryTick
<1> QED
    BY <1>1, <1>2 DEF HistTick, One

\* The end pulses are raised where the write path is idle and the unit of the
\* retiring descriptor done: by a HALT out of its fence, and by a stop.
LEMMA EndsIdle ==
    ASSUME TypeOK, UnitInv, NEW fin \in BOOLEAN, NEW drained \in BOOLEAN,
           UnitTick(fin, drained), DispTick(Sampled(fin)), Ends'
    PROVE  WrIdle /\ (unit = "none" \/ fin) /\ state # "IDLE"
<1> DEFINE in == Sampled(fin)
           Over(o) == o.done \/ o.halted
<1>1. ~Over(Quiet) /\ ~Over(RetireOut)
    BY DEF Quiet, RetireOut
<1>2. Over(out')
    BY DEF Ends
<1>3. in.wrIdle = WrIdle
    BY DEF Sampled
<1>4. state = "RUN" /\ RetireRun(in) => unit = "none" \/ fin
    BY RetireFrees
<1>5. state # "RUN" => unit = "none"
    BY DEF UnitInv
<1>6. CASE RetireHalt(in)
    <2>1. ARetire(in) /\ d.op = "HALT"
        BY <1>6 DEF RetireHalt
    <2>2. ~(state = "RUN" /\ RetireRun(in))
        BY <2>1 DEF RetireRun, Sampled, UnitInv, GemvOps, VpuOps
    <2>3. ~Trivial
        BY <2>1 DEF Trivial, ZeroWork, UsesRows
    <2> QED
        BY <2>1, <2>2, <2>3, <1>3, <1>5 DEF ARetire
<1>7. CASE Stop(in)
    <2>1. in.wrIdle
        BY <1>1, <1>2, <1>7 DEF Stop
    <2>2. state = "RUN" => RetireRun(in)
        BY <1>7 DEF Stop, AStop, AStepStop, AFault, AAbortEnd, ARetire
    <2>3. state # "IDLE"
        BY <1>7 DEF Stop, AStop, AStepStop, AFault, AAbortEnd, ARetire
    <2> QED
        BY <1>3, <1>4, <1>5, <2>1, <2>2, <2>3
<1>8. CASE CloseStop(in)
    BY <1>3, <1>5, <1>8 DEF CloseStop
<1>9. CASE Issue(in)
    BY <1>2, <1>9 DEF Issue, Quiet
<1>10. CASE StartFetch(in)
    BY <1>2, <1>10 DEF StartFetch, Quiet
<1> HIDE DEF Over
<1> QED
    BY <1>1, <1>2, <1>6, <1>7, <1>8, <1>9, <1>10
    DEF DispTick, Rest, Begin, AwaitHead, Pop, Decode, Prepare, AwaitFence, PassFence,
        ReadSreg, AwaitUnit, RetireNext, AwaitStop, Waits

LEMMA FenceStep ==
    ASSUME TypeOK, WriteInv, UnitInv, FenceInv,
           NEW fin \in BOOLEAN, NEW drained \in BOOLEAN, NEW more \in BOOLEAN,
           NEW wrReady \in BOOLEAN, NEW wrAck \in BOOLEAN,
           UnitTick(fin, drained), PresentTick(fin, more, wrReady),
           MemoryTick(wrReady, wrAck), DispTick(Sampled(fin)),
           HistTick(Sampled(fin), more, wrAck)
    PROVE  FenceInv'
<1> DEFINE in == Sampled(fin)
<1>1. in.wrIdle => opened = 0
    BY IdleExact DEF Sampled, WrIdleExact
<1>2. (opened = 0 /\ (unit = "none" \/ fin)) => opened' = 0
    BY StaysIdle
<1>3. state # "RUN" => unit = "none"
    BY DEF UnitInv
<1> HIDE DEF in
<1>4. state' = "SREG" /\ NeedsFence(d') => opened' = 0
    <2> SUFFICES ASSUME state' = "SREG", NeedsFence(d') PROVE opened' = 0
        OBVIOUS
    <2>1. \/ PassFence(in) \/ ReadSreg(in) \/ Prepare(in)
        BY DEF in, DispTick, Rest, Begin, StartFetch, AwaitHead, Pop, Decode, AwaitFence, Issue,
               AwaitUnit, RetireNext, RetireHalt, Stop, AwaitStop, CloseStop
    <2>2. d' = d
        BY <2>1 DEF PassFence, ReadSreg, Prepare, Waits, Steady, KeepDesc
    <2>3. opened = 0 /\ state # "RUN"
        BY <1>1, <2>1, <2>2 DEF PassFence, ReadSreg, Prepare, FenceInv
    <2> QED BY <1>2, <1>3, <2>3
<1>5. Issues' /\ NeedsFence(d') => opened' = 0
    <2> SUFFICES ASSUME Issues', NeedsFence(d') PROVE opened' = 0
        OBVIOUS
    <2>1. Issue(in)
        BY IssueOnly DEF in
    <2>2. d' = d
        BY <2>1 DEF Issue, KeepDesc
    <2>3. opened = 0 /\ state # "RUN"
        BY <1>1, <2>1, <2>2 DEF Issue, AIssue, FenceInv
    <2> QED BY <1>2, <1>3, <2>3
<1>6. EndFenced'
    BY <1>1, <1>2, EndsIdle DEF EndFenced, in, Sampled
<1> QED
    BY <1>4, <1>5, <1>6 DEF FenceInv

-----------------------------------------------------------------------------
(* The end report *)

\* BUSY is the state machine away from IDLE; the register block relies on it.
BusyInv == (busy <=> state # "IDLE") /\ EndNotLost

LEMMA BusyStep ==
    ASSUME TypeOK, UnitInv, BusyInv, NEW w, NEW fin \in BOOLEAN, NEW drained \in BOOLEAN,
           UnitTick(fin, drained), DispTick(Sampled(fin)), CtrlTick(w, busy)
    PROVE  BusyInv'
<1> DEFINE in == Sampled(fin)
<1>1. busy' <=> state' # "IDLE"
    <2>1. busy \in BOOLEAN /\ (busy <=> state # "IDLE")
        BY DEF TypeOK, DispTypeOK, BusyInv
    <2> HIDE DEF in
    <2>2. CASE Rest(in) BY <2>1, <2>2 DEF Rest, Waits, KeepRun
    <2>3. CASE Begin(in) BY <2>3 DEF Begin
    <2>4. CASE StartFetch(in) BY <2>1, <2>4 DEF StartFetch, KeepRun
    <2>5. CASE AwaitHead(in) BY <2>1, <2>5 DEF AwaitHead, Waits, KeepRun
    <2>6. CASE Pop(in) BY <2>1, <2>6 DEF Pop, PopOk, KeepRun
    <2>7. CASE Decode(in) BY <2>1, <2>7 DEF Decode, Waits, KeepRun
    <2>8. CASE Prepare(in) BY <2>1, <2>8 DEF Prepare, Waits, KeepRun
    <2>9. CASE AwaitFence(in) BY <2>1, <2>9 DEF AwaitFence, Waits, KeepRun
    <2>10. CASE PassFence(in) BY <2>1, <2>10 DEF PassFence, Waits, KeepRun
    <2>11. CASE ReadSreg(in) BY <2>1, <2>11 DEF ReadSreg, Waits, KeepRun
    <2>12. CASE Issue(in) BY <2>1, <2>12 DEF Issue, AIssue, KeepRun
    <2>13. CASE AwaitUnit(in) BY <2>1, <2>13 DEF AwaitUnit, Waits, KeepRun
    <2>14. CASE RetireNext(in) BY <2>1, <2>14 DEF RetireNext, ARetire, KeepRun
    <2>15. CASE RetireHalt(in) BY <2>15 DEF RetireHalt
    <2>16. CASE Stop(in)
        BY <2>1, <2>16 DEF Stop, AStop, AStepStop, AFault, AAbortEnd, ARetire
    <2>17. CASE AwaitStop(in) BY <2>1, <2>17 DEF AwaitStop, Waits, KeepRun
    <2>18. CASE CloseStop(in) BY <2>18 DEF CloseStop
    <2> QED
        BY <2>2, <2>3, <2>4, <2>5, <2>6, <2>7, <2>8, <2>9, <2>10, <2>11, <2>12, <2>13,
           <2>14, <2>15, <2>16, <2>17, <2>18 DEF in, DispTick
<1>2. out'.err => Ends'
    <2> DEFINE Fine(o) == o.err => o.done \/ o.halted
    <2>1. Fine(Quiet) /\ Fine(RetireOut)
        BY DEF Quiet, RetireOut
    <2>2. ASSUME NEW o \in Pulses, NEW s \in BOOLEAN, NEW e \in BOOLEAN
          PROVE  Fine(EndOut(o, s, e))
        BY DEF EndOut, Pulses
    <2>3. Quiet \in Pulses /\ RetireOut \in Pulses
        BY QuietType, RetireOutType DEF TypeOK
    <2>4. SUFFICES Fine(out')
        BY DEF Ends
    <2>5. CASE Issue(in)
        BY <2>5 DEF Issue, Quiet
    <2>6. CASE StartFetch(in)
        BY <2>6 DEF StartFetch, Quiet
    <2> HIDE DEF Fine
    <2>7. CASE RetireHalt(in)
        BY <2>2, <2>3, <2>7 DEF RetireHalt
    <2>8. CASE Stop(in)
        <3> DEFINE o == IF ARetire(in) THEN RetireOut ELSE Quiet
        <3>1. Fine(EndOut(o, AStepStop(in), AFault)) /\ Fine(o)
            BY <2>1, <2>2, <2>3 DEF AStepStop, AFault
        <3> QED BY <2>8, <3>1 DEF Stop
    <2>9. CASE CloseStop(in)
        <3>1. Fine(EndOut(Quiet, stopStep, ~stopStep /\ stopErr))
            BY <2>2, <2>3 DEF TypeOK, DispTypeOK
        <3> QED BY <2>9, <3>1 DEF CloseStop
    <2> QED
        BY <2>1, <2>5, <2>6, <2>7, <2>8, <2>9
        DEF DispTick, Rest, Begin, AwaitHead, Pop, Decode, Prepare, AwaitFence, PassFence,
            ReadSreg, AwaitUnit, RetireNext, AwaitStop, Waits
<1>3. Ends' => busy
    BY EndsIdle DEF BusyInv
<1>4. busy => ~start' /\ ~step'
    BY DEF CtrlTick
<1> QED
    BY <1>1, <1>2, <1>3, <1>4 DEF BusyInv, EndNotLost

-----------------------------------------------------------------------------
(* The descriptor in hand *)

\* PC trails the stream by the descriptor in hand, and meets it between two
\* descriptors, the PC pulse on its way included.
HandInv ==
    /\ InHandIsPc
    /\ state \in InHand => ~out.pcSet /\ ~out.fstart /\ sNext = (pc + DescBytes) % AddrMod
    /\ state = "FETCH" /\ ~out.fstart => sNext = PcNow
    /\ out.fstart => state = "FETCH" /\ ~out.pcSet

\* Between START and the end the host reaches neither PC nor POS nor TOK.
LEMMA HeldRegisters ==
    ASSUME NEW w, NEW o, busy, RwTick(w, busy, o)
    PROVE  /\ pos' = pos /\ tok' = tok /\ rowEn' = rowEn
           /\ pc' = IF o.pcSet THEN o.pcVal ELSE pc
BY DEF RwTick, HostWr

LEMMA HandStep ==
    ASSUME TypeOK, BusyInv, HandInv, NEW w, NEW fin \in BOOLEAN, NEW more, NEW wrAck,
           NEW appears, DispTick(Sampled(fin)), RwTick(w, busy, out),
           Stream!StreamTick(out.fstart, out.flush, pc, PopOk, appears),
           HistTick(Sampled(fin), more, wrAck), UNCHANGED code
    PROVE  HandInv'
<1> DEFINE in == Sampled(fin)
<1> USE DEF InHand
<1>1. in.dqValid = sValid /\ in.dqDesc = code[sNext]
    BY DEF Sampled
<1>2. dAt' = IF PopOk /\ sValid THEN sNext ELSE dAt
    BY <1>1 DEF HistTick
<1>3. sNext' = IF out.fstart THEN pc
               ELSE IF ~out.flush /\ sValid /\ PopOk THEN (sNext + DescBytes) % AddrMod
               ELSE sNext
    BY DEF Stream!StreamTick, Stream!Restart, Stream!Flush, Stream!Deliver
<1>4. state # "IDLE" => /\ pos' = pos /\ tok' = tok
                        /\ pc' = PcNow
    BY HeldRegisters DEF BusyInv, PcNow
<1>5. /\ ~Quiet.pcSet /\ ~Quiet.fstart
      /\ RetireOut.pcSet /\ ~RetireOut.fstart
      /\ RetireOut.pcVal = (pc + DescBytes) % AddrMod
    BY DEF Quiet, RetireOut
<1>6. ASSUME NEW o \in Pulses, NEW s \in BOOLEAN, NEW e \in BOOLEAN
      PROVE  EndOut(o, s, e).fstart = o.fstart
    BY DEF EndOut, Pulses
<1>7. Quiet \in Pulses /\ RetireOut \in Pulses
    BY QuietType, RetireOutType DEF TypeOK
<1> HIDE DEF in
<1>8. ASSUME state' \in InHand, state \in InHand, ~PopOk, d' = d, ~out'.pcSet, ~out'.fstart,
             UNCHANGED <<cmdPos, cmdTok>>
      PROVE  HandInv'
    BY <1>2, <1>3, <1>4, <1>8 DEF HandInv, InHandIsPc, PcNow
<1>9. ASSUME state' \notin InHand, state' # "FETCH", ~out'.fstart
      PROVE  HandInv'
    BY <1>9 DEF HandInv, InHandIsPc
<1>10. Waits(in) => /\ d' = d /\ ~out'.pcSet /\ ~out'.fstart
                    /\ UNCHANGED <<cmdPos, cmdTok>>
    BY <1>5 DEF Waits, Steady, KeepDesc
<1>11. CASE Rest(in) BY <1>9, <1>10, <1>11 DEF Rest
<1>12. CASE Begin(in) BY <1>5, <1>9, <1>12 DEF Begin
<1>13. CASE StartFetch(in)
    <2>1. out'.fstart /\ ~out'.pcSet
        BY <1>13 DEF StartFetch, Quiet
    <2> QED BY <1>13, <2>1 DEF StartFetch, HandInv, InHandIsPc
<1>14. CASE AwaitHead(in)
    <2>1. /\ state = "FETCH" /\ state' = "FETCH" /\ ~(PopOk /\ sValid)
          /\ ~out'.pcSet /\ ~out'.fstart
        BY <1>1, <1>10, <1>14 DEF AwaitHead
    <2>2. sNext' = pc'
        BY <1>3, <1>4, <2>1 DEF HandInv, PcNow
    <2> QED
        BY <2>1, <2>2 DEF HandInv, InHandIsPc, PcNow
<1>15. CASE Pop(in)
    <2>1. /\ state = "FETCH" /\ state' = "DEC" /\ PopOk /\ sValid /\ ~out.fstart /\ ~out.flush
          /\ d' = code[sNext] /\ cmdPos' = pos /\ cmdTok' = tok
          /\ ~out'.pcSet /\ ~out'.fstart
        BY <1>1, <1>5, <1>15 DEF Pop, PopOk
    <2>2. pc' = sNext /\ dAt' = sNext /\ sNext' = (sNext + DescBytes) % AddrMod
        BY <1>2, <1>3, <1>4, <2>1 DEF HandInv
    <2> QED
        BY <1>4, <2>1, <2>2 DEF HandInv, InHandIsPc
<1>16. CASE Decode(in) BY <1>8, <1>10, <1>16 DEF Decode, PopOk
<1>17. CASE Prepare(in) BY <1>8, <1>10, <1>17 DEF Prepare, PopOk
<1>18. CASE AwaitFence(in) BY <1>8, <1>10, <1>18 DEF AwaitFence, PopOk
<1>19. CASE PassFence(in) BY <1>8, <1>10, <1>19 DEF PassFence, PopOk
<1>20. CASE ReadSreg(in) BY <1>8, <1>10, <1>20 DEF ReadSreg, PopOk
<1>21. CASE Issue(in)
    <2>1. ~out'.pcSet /\ ~out'.fstart
        BY <1>21 DEF Issue, Quiet
    <2> QED BY <1>8, <1>21, <2>1 DEF Issue, AIssue, KeepDesc, PopOk
<1>22. CASE AwaitUnit(in) BY <1>8, <1>10, <1>22 DEF AwaitUnit, PopOk
<1>23. CASE RetireNext(in)
    <2>1. state \in InHand /\ state' = "FETCH" /\ out' = RetireOut /\ ~PopOk
        BY <1>23 DEF RetireNext, ARetire, PopOk
    <2>2. sNext' = (pc + DescBytes) % AddrMod
        BY <1>3, <2>1 DEF HandInv
    <2> QED
        BY <1>5, <2>1, <2>2 DEF HandInv, InHandIsPc, PcNow
<1>24. CASE RetireHalt(in)
    BY <1>5, <1>6, <1>7, <1>9, <1>24 DEF RetireHalt
<1>25. CASE Stop(in)
    <2> DEFINE o == IF ARetire(in) THEN RetireOut ELSE Quiet
    <2>1. o \in Pulses /\ ~o.fstart
        BY <1>5, <1>7
    <2>2. ~EndOut(o, AStepStop(in), AFault).fstart
        BY <1>6, <2>1 DEF AStepStop, AFault
    <2> QED BY <1>9, <1>25, <2>1, <2>2 DEF Stop
<1>26. CASE AwaitStop(in) BY <1>9, <1>10, <1>26 DEF AwaitStop
<1>27. CASE CloseStop(in)
    <2>1. ~EndOut(Quiet, stopStep, ~stopStep /\ stopErr).fstart
        BY <1>5, <1>6, <1>7 DEF TypeOK, DispTypeOK
    <2> QED BY <1>9, <1>27, <2>1 DEF CloseStop
<1> QED
    BY <1>11, <1>12, <1>13, <1>14, <1>15, <1>16, <1>17, <1>18, <1>19, <1>20, <1>21, <1>22,
       <1>23, <1>24, <1>25, <1>26, <1>27 DEF in, DispTick

-----------------------------------------------------------------------------
(* The inductive invariant and what follows from it *)

IInv == TypeOK /\ WriteInv /\ UnitInv /\ FenceInv /\ BusyInv /\ HandInv

LEMMA IInvInit == Init => IInv
<1> SUFFICES ASSUME Init PROVE IInv
    OBVIOUS
<1>1. TypeOK
    BY TypeInit
<1>2. WriteInv
    <2>1. Unacked = 0
        BY <1>1, UnackedZero DEF TypeOK, Init, WriteInit
    <2> QED BY <2>1 DEF WriteInv, Init, WriteInit, One
<1>3. UnitInv /\ FenceInv /\ BusyInv /\ HandInv
    BY DEF Init, CsrInit, DispInit, Quiet, UnitInv, FenceInv, BusyInv, HandInv, Issues,
           Ends, EndFenced, EndNotLost, InHandIsPc, InHand
<1> QED BY <1>1, <1>2, <1>3 DEF IInv

LEMMA IInvStep == IInv /\ [Next]_vars => IInv'
<1> SUFFICES ASSUME IInv, [Next]_vars PROVE IInv'
    OBVIOUS
<1>1. TypeOK'
    BY TypeStep DEF IInv
<1>2. CASE UNCHANGED vars
    BY <1>2 DEF IInv, TypeOK, vars, csrVars, pulseVars, rwVars, statusVars, dispVars, fsmVars,
                cmdVars, writeVars, unitVars, histVars, CsrTypeOK, DispTypeOK,
                WriteTypeOK, Stream!StreamTypeOK, WriteInv, Unacked, UnitInv, Issues, FenceInv,
                EndFenced, Ends, BusyInv, EndNotLost, HandInv, InHandIsPc, PcNow
<1>3. ASSUME NEW w \in HostOps, NEW fin \in BOOLEAN, NEW drained \in BOOLEAN,
             NEW more \in BOOLEAN, NEW wrReady \in BOOLEAN, NEW wrAck \in BOOLEAN,
             NEW appears \in BOOLEAN, Tick(w, fin, drained, more, wrReady, wrAck, appears)
      PROVE  IInv'
    <2>1. /\ UnitTick(fin, drained) /\ PresentTick(fin, more, wrReady)
          /\ MemoryTick(wrReady, wrAck) /\ DispTick(Sampled(fin))
          /\ CtrlTick(w, busy) /\ RwTick(w, busy, out)
          /\ Stream!StreamTick(out.fstart, out.flush, pc, PopOk, appears)
          /\ HistTick(Sampled(fin), more, wrAck) /\ UNCHANGED code
        BY <1>3 DEF Tick, CoreTick, CsrTick
    <2>2. WriteInv'
        BY <1>1, <2>1, WriteInvStep DEF IInv
    <2>3. UnitInv'
        BY <2>1, UnitStep DEF IInv
    <2>4. FenceInv'
        BY <2>1, FenceStep DEF IInv
    <2>5. BusyInv'
        BY <2>1, BusyStep DEF IInv
    <2>6. HandInv'
        BY <2>1, HandStep DEF IInv
    <2> QED
        BY <1>1, <2>2, <2>3, <2>4, <2>5, <2>6 DEF IInv
<1> QED
    BY <1>2, <1>3, NextIsTick

\* The strengthening holds in every reachable state.
THEOREM Inductive == Spec => []IInv
BY IInvInit, IInvStep, PTL DEF Spec

\* wr_idle of qcore_mem_arb is high exactly when every write a unit presented
\* has been acknowledged, for counters of any width that memory cannot fill.
THEOREM WriteIdleExact == Spec => []WrIdleExact
<1>1. IInv => WrIdleExact
    BY IdleExact DEF IInv
<1> QED BY <1>1, Inductive, PTL

\* DONE and STEP_HALTED are raised only with every write acknowledged, whichever
\* of the HALT, the fault, the ABORT and the step ended the run.
THEOREM EndsFenced == Spec => []EndFenced
<1>1. IInv => EndFenced
    BY DEF IInv, FenceInv
<1> QED BY <1>1, Inductive, PTL

\* No unit that reads QMEM is issued over an outstanding write.
THEOREM ReadsFenced == Spec => []ReadFenced
<1>1. IInv => ReadFenced
    BY DEF IInv, FenceInv, ReadFenced, ReadsQmem, NeedsFence, GemvOps
<1> QED BY <1>1, Inductive, PTL

\* An issue finds every unit idle and the weight stream drained.
THEOREM OneUnit == Spec => []OneInFlight
<1>1. IInv => OneInFlight
    BY DEF IInv, UnitInv, OneInFlight
<1> QED BY <1>1, Inductive, PTL

\* The report of a run's end never meets the clear of the next START or STEP.
THEOREM EndsReported == Spec => []EndNotLost
<1>1. IInv => EndNotLost
    BY DEF IInv, BusyInv
<1> QED BY <1>1, Inductive, PTL

\* The descriptor in hand is the one PC names, with the POS and TOK of its pop.
THEOREM HandIsPc == Spec => []InHandIsPc
<1>1. IInv => InHandIsPc
    BY DEF IInv, HandInv
<1> QED BY <1>1, Inductive, PTL

-----------------------------------------------------------------------------
(* What the control path makes of a whole program: the bounds events it     *)
(* counts, the scales it hands over, the bundle it holds, and that it       *)
(* implements ProgramRun.                                                   *)

\* While the core is busy the host reaches neither PC nor ROW_EN nor POS: PC is
\* what it was with the pulse on its way taken in.
LEMMA BusyRegisters ==
    ASSUME BusyInv, state # "IDLE", NEW w, RwTick(w, busy, out)
    PROVE  rowEn' = rowEn /\ pos' = pos /\ tok' = tok /\ pc' = PcNow
BY HeldRegisters DEF BusyInv, PcNow

\* The pulses of a retire and of an end, as far as the counters and PC see them.
LEMMA RetirePulses ==
    /\ Quiet.errb = 0 /\ ~Quiet.pcSet /\ ~Quiet.done /\ ~Quiet.halted /\ ~Quiet.err
    /\ RetireOut.errb = IF state = "DEC" THEN BoundsErrors(d, rowEn, pos) ELSE 0
    /\ RetireOut.pcSet /\ RetireOut.pcVal = (pc + DescBytes) % AddrMod
    /\ ~RetireOut.done /\ ~RetireOut.halted /\ ~RetireOut.err
BY DEF Quiet, RetireOut

LEMMA EndPulses ==
    ASSUME NEW o \in Pulses, NEW s \in BOOLEAN, NEW e \in BOOLEAN
    PROVE  /\ EndOut(o, s, e).errb = o.errb
           /\ EndOut(o, s, e).pcSet = o.pcSet /\ EndOut(o, s, e).pcVal = o.pcVal
           /\ EndOut(o, s, e).done = ~s /\ EndOut(o, s, e).halted = s /\ EndOut(o, s, e).err = e
BY DEF EndOut, Pulses

-----------------------------------------------------------------------------
(* Bounds events *)

\* The counter and the pulse on its way hold the events of the descriptors
\* retired, and of the one a unit works on.
BoundsInv ==
    /\ start => state \in {"IDLE", "CHK"}
    /\ state \in {"PREP", "FENCE", "SREG"} => errbQ = BoundsErrors(d, rowEn, pos)
    /\ (errBounds + out.errb) % CounterMod
         = (retiredErrb + (IF state = "RUN" THEN BoundsErrors(d, rowEn, pos) ELSE 0)) % CounterMod

\* What the branches of the dispatcher do to the events: they are issued with
\* the descriptor, or retired with it from DEC.
LEMMA EventsMove ==
    ASSUME TypeOK, BoundsInv, NEW in, DispTick(in)
    PROVE  \/ /\ state' = "RUN" /\ state \in {"PREP", "FENCE", "SREG"} /\ ~ARetire(in) /\ d' = d
              /\ out'.errb = BoundsErrors(d, rowEn, pos)
           \/ /\ state' = "RUN" /\ state = "RUN" /\ ~ARetire(in) /\ d' = d /\ out'.errb = 0
           \/ /\ state' # "RUN" /\ state # "RUN" /\ ~ARetire(in) /\ out'.errb = 0
           \/ /\ state' # "RUN" /\ state = "DEC" /\ ARetire(in)
              /\ out'.errb = BoundsErrors(d, rowEn, pos)
           \/ /\ state' # "RUN" /\ state = "RUN" /\ ARetire(in) /\ out'.errb = 0
           \/ /\ state' # "RUN" /\ state = "FENCE" /\ ARetire(in) /\ out'.errb = 0
              /\ d.op \in {"HALT", "FENCE"}
<1>1. Quiet \in Pulses /\ RetireOut \in Pulses
    BY QuietType, RetireOutType DEF TypeOK
<1>2. ASSUME Waits(in) PROVE out'.errb = 0 /\ d' = d
    BY <1>2, RetirePulses DEF Waits, Steady, KeepDesc
<1>3. CASE Issue(in)
    <2>1. out'.errb = errbQ
        BY <1>3 DEF Issue, Quiet
    <2>2. state \in {"PREP", "FENCE", "SREG"} /\ ~ARetire(in)
        BY <1>3 DEF Issue, AIssue, ARetire
    <2> QED BY <1>3, <2>1, <2>2 DEF Issue, KeepDesc, BoundsInv
<1>4. CASE AwaitUnit(in)
    BY <1>2, <1>4 DEF AwaitUnit, ARetire
<1>5. CASE RetireNext(in)
    BY <1>5, RetirePulses DEF RetireNext, ARetire
<1>6. CASE RetireHalt(in)
    <2>1. out'.errb = RetireOut.errb
        BY <1>1, <1>6, EndPulses DEF RetireHalt
    <2> QED BY <1>6, <2>1, RetirePulses DEF RetireHalt, ARetire
<1>7. CASE Stop(in)
    <2> DEFINE o == IF ARetire(in) THEN RetireOut ELSE Quiet
    <2>1. o \in Pulses
        BY <1>1
    <2>2. EndOut(o, AStepStop(in), AFault).errb = o.errb
        BY <2>1, EndPulses DEF AStepStop, AFault
    <2>3. out'.errb = o.errb /\ state' # "RUN"
        BY <1>7, <2>2 DEF Stop
    <2>4. ARetire(in) \/ state # "RUN"
        BY <1>7 DEF Stop, AStop, AFault, AAbortEnd, AStepStop
    <2> QED BY <2>3, <2>4, RetirePulses DEF ARetire
<1>8. CASE CloseStop(in)
    <2>1. stopStep \in BOOLEAN /\ (~stopStep /\ stopErr) \in BOOLEAN
        BY DEF TypeOK, DispTypeOK
    <2>2. EndOut(Quiet, stopStep, ~stopStep /\ stopErr).errb = 0
        BY <1>1, <2>1, EndPulses, RetirePulses
    <2> QED BY <1>8, <2>2 DEF CloseStop, ARetire
<1>9. CASE StartFetch(in)
    BY <1>9 DEF StartFetch, ARetire, Quiet
<1>10. CASE Decode(in)
    BY <1>2, <1>10 DEF Decode, ARetire
<1>11. CASE Pop(in)
    BY <1>11, RetirePulses DEF Pop, PopOk, ARetire
<1>12. CASE Begin(in)
    BY <1>12, RetirePulses DEF Begin, ARetire
<1> QED
    BY <1>2, <1>3, <1>4, <1>5, <1>6, <1>7, <1>8, <1>9, <1>10, <1>11, <1>12
    DEF DispTick, Rest, AwaitHead, Prepare, AwaitFence, PassFence, ReadSreg, AwaitStop, ARetire

\* A HALT and a FENCE have no bounds events.
LEMMA FenceEvents ==
    ASSUME d.op \in {"HALT", "FENCE"}, rowEn \in SUBSET Rows
    PROVE  BoundsErrors(d, rowEn, pos) = 0
<1>1. IsFiniteSet(RowsC(d, rowEn))
    <2>1. IsFiniteSet(Rows)
        BY FS_Interval, DescriptorsAssumption DEF Rows
    <2> QED BY <2>1, FS_Subset DEF RowsC
<1>2. Cardinality(RowsC(d, rowEn)) \in Nat
    BY <1>1, FS_CardinalityType
<1>3. ~NOver(d, pos) /\ ~KOver(d, pos) /\ ~LenErr(d, pos)
    BY DEF NOver, KOver, LenErr
<1> QED BY <1>2, <1>3 DEF BoundsErrors

LEMMA BoundsStep ==
    ASSUME TypeOK, TypeOK', BusyInv, BoundsInv, NEW w, NEW in, NEW more, NEW wrAck,
           DispTick(in), CsrTick(w, busy, out, faultCode, faultOp), HistTick(in, more, wrAck)
    PROVE  BoundsInv'
<1> DEFINE E == BoundsErrors(d, rowEn, pos)
           c == errBounds + out.errb
<1>1. /\ E \in Nat /\ CounterMod \in Nat \ {0} /\ c \in Nat /\ out'.errb \in Nat
      /\ retiredErrb \in 0 .. (CounterMod - 1) /\ errBounds' \in Nat
    BY BoundsErrorsType, CsrAssumption DEF TypeOK, CsrTypeOK, DispTypeOK, Pulses
<1>2. /\ errBounds' = IF start THEN 0 ELSE c % CounterMod
      /\ retiredErrb' = IF start THEN 0
                        ELSE IF ARetire(in) THEN (retiredErrb + E) % CounterMod ELSE retiredErrb
    BY DEF CsrTick, CounterTick, HistTick
<1>3. (start => state' \notin InHand /\ state \in {"IDLE", "CHK"}) /\ (start' => state' \in {"IDLE", "CHK"})
    <2>1. start' => ~busy
        BY DEF CsrTick, CtrlTick
    <2>2. state = "IDLE" => state' \in {"IDLE", "CHK"}
        BY DEF DispTick, Rest, Begin, StartFetch, AwaitHead, Pop, Decode, Prepare, AwaitFence,
               PassFence, ReadSreg, Issue, AIssue, AwaitUnit, RetireNext, RetireHalt, Stop, AwaitStop,
               CloseStop, PopOk, ARetire, AStop, AFault, AAbortEnd, AStepStop
    <2>3. state = "CHK" => state' \in {"FETCH", "IDLE", "STOP"}
        BY DEF DispTick, Rest, Begin, StartFetch, AwaitHead, Pop, Decode, Prepare, AwaitFence,
               PassFence, ReadSreg, Issue, AIssue, AwaitUnit, RetireNext, RetireHalt, Stop, AwaitStop,
               CloseStop, PopOk, ARetire, AStop, AFault, AAbortEnd, AStepStop
    <2> QED BY <2>1, <2>2, <2>3 DEF BusyInv, BoundsInv, InHand
<1>4. state # "IDLE" => rowEn' = rowEn /\ pos' = pos
    BY BusyRegisters DEF CsrTick
<1>5. state' \in {"PREP", "FENCE", "SREG"} => errbQ' = BoundsErrors(d', rowEn', pos')
    <2>1. state' \in {"PREP", "FENCE", "SREG"} =>
            /\ state \in {"DEC", "PREP", "FENCE", "SREG"} /\ d' = d
            /\ errbQ' = IF state = "DEC" THEN E ELSE errbQ
        BY DEF DispTick, Rest, Begin, StartFetch, AwaitHead, Pop, Decode, Prepare, AwaitFence,
               PassFence, ReadSreg, Issue, AwaitUnit, RetireNext, RetireHalt, Stop, AwaitStop,
               CloseStop, Waits, Steady, KeepDesc, LatchErrb
    <2> QED BY <1>4, <2>1 DEF BoundsInv
<1>6. (errBounds' + out'.errb) % CounterMod
        = (retiredErrb' + (IF state' = "RUN" THEN BoundsErrors(d', rowEn', pos') ELSE 0)) % CounterMod
    <2> DEFINE x == IF state = "RUN" THEN E ELSE 0
               y == IF state' = "RUN" THEN E ELSE 0
               z == IF ARetire(in) THEN E ELSE 0
    <2>1. c % CounterMod = (retiredErrb + x) % CounterMod
        BY DEF BoundsInv
    <2>2. state' = "RUN" => BoundsErrors(d', rowEn', pos') = E /\ ~start
        <3>1. state' = "RUN" => d' = d /\ ~start
            BY <1>3, EventsMove DEF InHand
        <3>2. state' = "RUN" => rowEn' = rowEn /\ pos' = pos
            BY <1>3, <1>4, EventsMove DEF InHand
        <3> QED BY <3>1, <3>2
    <2>3. d.op \in {"HALT", "FENCE"} => E = 0
        BY FenceEvents DEF TypeOK, CsrTypeOK
    <2> HIDE DEF E, c
    <2>4. x + out'.errb = y + z /\ (start => x = 0 /\ y = 0 /\ out'.errb = 0)
        BY <1>1, <1>3, <2>2, <2>3, EventsMove DEF E
    <2>5. /\ x \in Int /\ y \in Int /\ z \in Int /\ c \in Int /\ out'.errb \in Int
          /\ retiredErrb \in Int
        BY <1>1
    <2>6. CASE start
        <3>1. errBounds' = 0 /\ retiredErrb' = 0 /\ out'.errb = 0 /\ state' # "RUN"
            BY <1>2, <2>2, <2>4, <2>6
        <3> QED BY <3>1
    <2>7. CASE ~start
        <3>1. errBounds' = c % CounterMod
            BY <1>2, <2>7
        <3>2. retiredErrb' = (retiredErrb + z) % CounterMod
            BY <1>1, <1>2, <2>7, ModSmall
        <3> DEFINE e == out'.errb
                   a == retiredErrb + x
                   b == retiredErrb + z
        <3>3. /\ a + e = b + y /\ a \in Int /\ b \in Int /\ e \in Int /\ y \in Int
              /\ CounterMod \in Nat \ {0}
            BY <1>1, <2>4, <2>5
        <3>4. c % CounterMod = a % CounterMod
            BY <2>1
        <3> HIDE DEF x, y, z, e, a, b
        <3>5. ((a % CounterMod) + e) % CounterMod = (a + e) % CounterMod
            BY <3>3, ModAdd
        <3>6. ((b % CounterMod) + y) % CounterMod = (b + y) % CounterMod
            BY <3>3, ModAdd
        <3>7. y = IF state' = "RUN" THEN BoundsErrors(d', rowEn', pos') ELSE 0
            BY <2>2 DEF y
        <3> QED BY <3>1, <3>2, <3>3, <3>4, <3>5, <3>6, <3>7 DEF e, b
    <2> QED BY <2>6, <2>7
<1> QED BY <1>3, <1>5, <1>6 DEF BoundsInv

-----------------------------------------------------------------------------
(* Scales *)

\* The rows the SREG read has gone past are loaded if they take part; a unit
\* scale is loaded for every row before the fence of an EMBED.
ScalesInv ==
    /\ state = "FENCE" => srR = 0 /\ (d.op = "EMBED" => sxRows = Rows)
    /\ state = "SREG" => srR \in Rows /\ \A r \in RowsC(d, rowEn) : r < srR => r \in sxRows
    /\ ScalesCurrent

\* One step of the read: the row it leaves is loaded.
LEMMA ReadMoves ==
    ASSUME TypeOK, ScalesInv, state = "SREG", SregTick
    PROVE  /\ \A r \in RowsC(d, rowEn) : (r < srR \/ (SrStep /\ r = srR)) => r \in sxRows'
           /\ ~SrStep => srR' = srR
           /\ SrStep /\ srR # BMax - 1 => srR' = srR + 1
<1>1. srR \in 0 .. (BMax - 1) /\ BMax \in Nat \ {0} /\ srPh \in BOOLEAN
    BY DescriptorsAssumption DEF TypeOK, DispTypeOK, Rows, ScalesInv
<1>2. /\ srR' = IF SrActive /\ ~srPh THEN srR ELSE (srR + 1) % RowMod
      /\ sxRows' = IF SrActive /\ srPh THEN sxRows \cup {srR} ELSE sxRows
    BY DEF SregTick
<1>3. \A r \in RowsC(d, rowEn) : r < srR => r \in sxRows
    BY DEF ScalesInv
<1>4. ASSUME srR # BMax - 1 PROVE (srR + 1) % RowMod = srR + 1
    <2>1. srR + 1 \in 0 .. (RowMod - 1) /\ RowMod \in Nat \ {0}
        BY <1>1, <1>4, RowModAssumption
    <2> QED BY <2>1, ModSmall
<1>5. SrStep <=> ~SrActive \/ srPh
    BY DEF SrStep
<1>6. ~SrActive => srR \notin RowsC(d, rowEn)
    BY DEF SrActive
<1> QED BY <1>1, <1>2, <1>3, <1>4, <1>5, <1>6

LEMMA ScalesStep ==
    ASSUME TypeOK, BusyInv, ScalesInv, NEW w, NEW in, DispTick(in), RwTick(w, busy, out)
    PROVE  ScalesInv'
<1>1. state # "IDLE" => rowEn' = rowEn
    BY BusyRegisters
<1>2. state' = "FENCE" => srR' = 0 /\ (d'.op = "EMBED" => sxRows' = Rows)
    <2> SUFFICES ASSUME state' = "FENCE" PROVE srR' = 0 /\ (d'.op = "EMBED" => sxRows' = Rows)
        OBVIOUS
    <2>1. Prepare(in) \/ AwaitFence(in)
        BY DEF DispTick, Rest, Begin, StartFetch, AwaitHead, Pop, Decode, PassFence, ReadSreg,
               Issue, AwaitUnit, RetireNext, RetireHalt, Stop, AwaitStop, CloseStop
    <2>2. d' = d /\ PrepTick
        BY <2>1 DEF Prepare, AwaitFence, Waits, Steady, KeepDesc
    <2> QED
        BY <2>1, <2>2 DEF Prepare, AwaitFence, PrepTick, SregTick, KeepSreg, ScalesInv
<1>3. state' = "SREG" => srR' \in Rows /\ \A r \in RowsC(d', rowEn') : r < srR' => r \in sxRows'
    <2> SUFFICES ASSUME state' = "SREG"
                 PROVE  srR' \in Rows /\ \A r \in RowsC(d', rowEn') : r < srR' => r \in sxRows'
        OBVIOUS
    <2>0. 0 \in Rows
        BY DescriptorsAssumption DEF Rows
    <2>1. Prepare(in) \/ PassFence(in) \/ ReadSreg(in)
        BY DEF DispTick, Rest, Begin, StartFetch, AwaitHead, Pop, Decode, AwaitFence,
               Issue, AwaitUnit, RetireNext, RetireHalt, Stop, AwaitStop, CloseStop
    <2>2. d' = d /\ PrepTick /\ state \in {"PREP", "FENCE", "SREG"}
        BY <2>1 DEF Prepare, PassFence, ReadSreg, Waits, Steady, KeepDesc
    <2>3. RowsC(d', rowEn') = RowsC(d, rowEn) /\ RowsC(d, rowEn) \subseteq 0 .. (BMax - 1)
        BY <1>1, <2>2 DEF RowsC, TypeOK, CsrTypeOK, Rows
    <2>4. CASE Prepare(in)
        <3>1. srR' = 0
            BY <2>2, <2>4 DEF Prepare, PrepTick
        <3> QED BY <2>0, <2>3, <3>1
    <2>5. CASE PassFence(in)
        <3>1. srR' = 0
            BY <2>2, <2>5 DEF PassFence, PrepTick, SregTick, KeepSreg, ScalesInv
        <3> QED BY <2>0, <2>3, <3>1
    <2>6. CASE ReadSreg(in)
        <3>1. state = "SREG" /\ ~SrDone /\ SregTick
            BY <2>2, <2>6 DEF ReadSreg, PrepTick
        <3>2. ~SrStep \/ srR # BMax - 1
            BY <3>1 DEF SrDone
        <3>3. srR \in 0 .. (BMax - 1) /\ BMax \in Nat
            BY <2>2, <3>1, DescriptorsAssumption DEF ScalesInv, Rows
        <3>4. srR' = srR \/ (srR' = srR + 1 /\ srR # BMax - 1 /\ SrStep)
            BY <3>1, <3>2, ReadMoves
        <3>5. srR' \in Rows
            BY <3>3, <3>4 DEF Rows
        <3>6. ASSUME NEW r \in RowsC(d, rowEn), r < srR' PROVE r \in sxRows'
            <4>1. r \in 0 .. (BMax - 1)
                BY <2>3
            <4>2. r < srR \/ (SrStep /\ r = srR)
                BY <3>3, <3>4, <3>6, <4>1
            <4> QED BY <3>1, <4>2, ReadMoves
        <3> QED BY <2>3, <3>5, <3>6
    <2> QED BY <2>1, <2>4, <2>5, <2>6
<1>4. ScalesCurrent'
    <2> SUFFICES ASSUME Issues', NeedsSreg(d') \/ d'.op = "EMBED" PROVE RowsC(d', rowEn') \subseteq sxRows'
        BY DEF ScalesCurrent
    <2>1. Issue(in)
        BY IssueOnly
    <2>2. d' = d /\ PrepTick /\ rowEn' = rowEn
        BY <1>1, <2>1 DEF Issue, AIssue, KeepDesc
    <2>3. RowsC(d, rowEn) \subseteq Rows
        BY DEF RowsC, TypeOK, CsrTypeOK
    <2>4. CASE state = "SREG"
        <3>1. SrStep /\ srR = BMax - 1 /\ SregTick
            BY <2>1, <2>2, <2>4 DEF Issue, AIssue, SrDone, PrepTick
        <3>2. ASSUME NEW r \in RowsC(d, rowEn) PROVE r \in sxRows'
            <4>1. r \in 0 .. (BMax - 1) /\ BMax \in Nat
                BY <2>3, DescriptorsAssumption DEF Rows
            <4>2. r < srR \/ r = srR
                BY <3>1, <4>1
            <4> QED BY <2>4, <3>1, <4>2, ReadMoves
        <3> QED BY <2>2, <3>2
    <2>5. CASE state # "SREG"
        <3>1. d.op = "EMBED" /\ state = "FENCE"
            BY <2>1, <2>2, <2>5 DEF Issue, AIssue, NeedsFence, GemvOps
        <3>2. sxRows' = Rows
            BY <2>2, <3>1 DEF PrepTick, SregTick, KeepSreg, ScalesInv
        <3> QED BY <2>2, <2>3, <3>2
    <2> QED BY <2>4, <2>5
<1> QED BY <1>2, <1>3, <1>4 DEF ScalesInv

-----------------------------------------------------------------------------
(* The bundle *)

\* A step that finds a unit at work and leaves it there moves nothing it was
\* handed.
LEMMA BundleStep ==
    ASSUME BusyInv, NEW w, NEW in, DispTick(in), RwTick(w, busy, out), state = "RUN", state' = "RUN"
    PROVE  Bundle' = Bundle
<1>1. rowEn' = rowEn /\ pos' = pos
    BY BusyRegisters
<1>2. AwaitUnit(in)
    BY DEF DispTick, Rest, Begin, StartFetch, AwaitHead, Pop, PopOk, Decode, Prepare, AwaitFence,
           PassFence, ReadSreg, Issue, AIssue, RetireNext, RetireHalt, Stop, AwaitStop, CloseStop
<1>3. d' = d /\ cmdPos' = cmdPos /\ cmdTok' = cmdTok /\ sxRows' = sxRows
    BY <1>2 DEF AwaitUnit, Waits, Steady, KeepDesc, PrepTick, SregTick, KeepSreg
<1>4. /\ RowsC(d', rowEn') = RowsC(d, rowEn) /\ NDec(d', pos') = NDec(d, pos)
      /\ KDec(d', pos') = KDec(d, pos) /\ LenDec(d', pos') = LenDec(d, pos)
    BY <1>1, <1>3
<1> QED BY <1>3, <1>4 DEF Bundle

-----------------------------------------------------------------------------
(* The place of a run *)

\* PC is on a whole descriptor that may execute, a step has executed none, and a
\* stop that waits for its fence knows why.
PlaceInv ==
    /\ state = "IDLE" => opened = 0
    /\ state = "CHK" => ~out.pcSet
    /\ state \in {"FETCH"} \cup InHand => PcNow % DescBytes = 0
    /\ state \in InHand \ {"DEC"} => Fault(d, rowEn) = "NONE"
    /\ state \in {"CHK", "FETCH"} \cup InHand /\ stepMode => ran = 0
    /\ state = "STOP" =>
         IF stopStep THEN stepMode /\ ran = 1 ELSE IF stopErr THEN Run!Faulty ELSE abortQ

\* PC advances with the retires and with nothing else of the dispatcher.
LEMMA PcMoves ==
    ASSUME TypeOK, NEW in, DispTick(in)
    PROVE  IF ARetire(in) THEN out'.pcSet /\ out'.pcVal = (pc + DescBytes) % AddrMod
           ELSE ~out'.pcSet
<1>1. Quiet \in Pulses /\ RetireOut \in Pulses
    BY QuietType, RetireOutType DEF TypeOK
<1>2. ASSUME Waits(in) PROVE ~out'.pcSet
    BY <1>2, RetirePulses DEF Waits
<1>3. CASE Issue(in)
    BY <1>3 DEF Issue, AIssue, ARetire, Quiet
<1>4. CASE RetireNext(in)
    BY <1>4, RetirePulses DEF RetireNext
<1>5. CASE RetireHalt(in)
    BY <1>1, <1>5, EndPulses, RetirePulses DEF RetireHalt
<1>6. CASE Stop(in)
    <2> DEFINE o == IF ARetire(in) THEN RetireOut ELSE Quiet
    <2>1. o \in Pulses
        BY <1>1
    <2>2. EndOut(o, AStepStop(in), AFault).pcSet = o.pcSet /\ EndOut(o, AStepStop(in), AFault).pcVal = o.pcVal
        BY <2>1, EndPulses DEF AStepStop, AFault
    <2>3. out'.pcSet = o.pcSet /\ out'.pcVal = o.pcVal
        BY <1>6, <2>2 DEF Stop
    <2> QED BY <2>3, RetirePulses
<1>7. CASE CloseStop(in)
    <2>1. stopStep \in BOOLEAN /\ (~stopStep /\ stopErr) \in BOOLEAN
        BY DEF TypeOK, DispTypeOK
    <2>2. ~EndOut(Quiet, stopStep, ~stopStep /\ stopErr).pcSet
        BY <1>1, <2>1, EndPulses, RetirePulses
    <2> QED BY <1>7, <2>2 DEF CloseStop, ARetire
<1>8. CASE StartFetch(in)
    BY <1>8 DEF StartFetch, ARetire, Quiet
<1>9. CASE Pop(in)
    BY <1>9, RetirePulses DEF Pop, PopOk, ARetire
<1>10. CASE Begin(in)
    BY <1>10, RetirePulses DEF Begin, ARetire
<1> QED
    BY <1>2, <1>3, <1>4, <1>5, <1>6, <1>7, <1>8, <1>9, <1>10
    DEF DispTick, Rest, AwaitHead, Decode, Prepare, AwaitFence, PassFence, ReadSreg, AwaitUnit,
        AwaitStop, ARetire

\* The address after a whole descriptor is one of a whole descriptor.
LEMMA NextAligned ==
    ASSUME NEW a \in Addrs, a % DescBytes = 0
    PROVE  ((a + DescBytes) % AddrMod) % DescBytes = 0
<1>1. a \in 0 .. (AddrMod - 1) /\ AddrMod \in Nat \ {0} /\ AddrMod % 32 = 0 /\ a % 32 = 0
    BY CsrAssumption DEF DescBytes
<1>2. a + 32 <= AddrMod
    BY <1>1
<1>3. CASE a + 32 = AddrMod
    <2>1. (a + 32) % AddrMod = 0
        BY <1>1, <1>3, ModWrap
    <2> QED BY <2>1 DEF DescBytes
<1>4. CASE a + 32 < AddrMod
    <2>1. (a + 32) % AddrMod = a + 32
        BY <1>1, <1>4, ModSmall
    <2> QED BY <1>1, <2>1 DEF DescBytes
<1> QED BY <1>1, <1>2, <1>3, <1>4

\* What a busy step does to the place: PC and the number of retires.
LEMMA PlaceMoves ==
    ASSUME TypeOK, BusyInv, HandInv, state # "IDLE", NEW w, NEW in, NEW more, NEW wrAck,
           DispTick(in), RwTick(w, busy, out), HistTick(in, more, wrAck)
    PROVE  /\ rowEn' = rowEn /\ pos' = pos
           /\ PcNow' = IF ARetire(in) THEN (PcNow + DescBytes) % AddrMod ELSE PcNow
           /\ ran' = IF ARetire(in) /\ ran < 2 THEN ran + 1 ELSE ran
<1>1. rowEn' = rowEn /\ pos' = pos /\ pc' = PcNow
    BY BusyRegisters
<1>2. ARetire(in) => PcNow = pc
    BY DEF ARetire, HandInv, InHand, PcNow
<1>3. PcNow' = IF ARetire(in) THEN (PcNow + DescBytes) % AddrMod ELSE PcNow
    BY <1>1, <1>2, PcMoves DEF PcNow
<1> QED BY <1>1, <1>3 DEF HistTick

\* The report of an edge: what ends a run, and how.
Report == IF out.err THEN "error" ELSE IF out.done THEN "done"
          ELSE IF out.halted THEN "halted" ELSE "none"

\* A run is reported over by the branches that leave for IDLE, as their kind.
LEMMA ReportMoves ==
    ASSUME TypeOK, NEW in, DispTick(in)
    PROVE  /\ state # "IDLE" /\ state' = "IDLE" => in.wrIdle \/ RetireHalt(in)
           /\ ~(state # "IDLE" /\ state' = "IDLE") => Report' = "none"
           /\ RetireHalt(in) => Report' = "done"
           /\ Stop(in) /\ in.wrIdle =>
                Report' = IF AFault THEN "error" ELSE IF AStepStop(in) THEN "halted" ELSE "done"
           /\ CloseStop(in) =>
                Report' = IF stopStep THEN "halted" ELSE IF stopErr THEN "error" ELSE "done"
<1>1. Quiet \in Pulses /\ RetireOut \in Pulses
    BY QuietType, RetireOutType DEF TypeOK
<1>2. ASSUME Waits(in) PROVE Report' = "none"
    BY <1>2, RetirePulses DEF Waits, Report
<1>3. ASSUME Issue(in) PROVE Report' = "none" /\ state' # "IDLE"
    BY <1>3 DEF Issue, Quiet, Report
<1>4. ASSUME RetireNext(in) PROVE Report' = "none" /\ state' # "IDLE"
    BY <1>4, RetirePulses DEF RetireNext, Report
<1>5. ASSUME RetireHalt(in) PROVE Report' = "done" /\ state # "IDLE" /\ state' = "IDLE"
    BY <1>1, <1>5, EndPulses DEF RetireHalt, Report, ARetire
<1>6. ASSUME Stop(in)
      PROVE  /\ state # "IDLE"
             /\ IF in.wrIdle
                THEN /\ state' = "IDLE"
                     /\ Report' = IF AFault THEN "error" ELSE IF AStepStop(in) THEN "halted" ELSE "done"
                ELSE state' = "STOP" /\ Report' = "none"
    <2> DEFINE o == IF ARetire(in) THEN RetireOut ELSE Quiet
    <2>1. o \in Pulses
        BY <1>1
    <2>2. /\ EndOut(o, AStepStop(in), AFault).done = ~AStepStop(in)
          /\ EndOut(o, AStepStop(in), AFault).halted = AStepStop(in)
          /\ EndOut(o, AStepStop(in), AFault).err = AFault
        BY <2>1, EndPulses DEF AStepStop, AFault
    <2>3. ~o.done /\ ~o.halted /\ ~o.err
        BY RetirePulses
    <2>4. state # "IDLE"
        BY <1>6 DEF Stop, AStop, AFault, AAbortEnd, AStepStop, ARetire
    <2>5. CASE in.wrIdle
        <3>1. out' = EndOut(o, AStepStop(in), AFault) /\ state' = "IDLE"
            BY <1>6, <2>5 DEF Stop
        <3> QED BY <2>2, <2>4, <2>5, <3>1 DEF Report
    <2>6. CASE ~in.wrIdle
        <3>1. out' = o /\ state' = "STOP"
            BY <1>6, <2>6 DEF Stop
        <3> QED BY <2>3, <2>4, <2>6, <3>1 DEF Report
    <2> QED BY <2>5, <2>6
<1>7. ASSUME CloseStop(in)
      PROVE  /\ state # "IDLE" /\ state' = "IDLE" /\ in.wrIdle
             /\ Report' = IF stopStep THEN "halted" ELSE IF stopErr THEN "error" ELSE "done"
    <2>1. stopStep \in BOOLEAN /\ (~stopStep /\ stopErr) \in BOOLEAN
        BY DEF TypeOK, DispTypeOK
    <2> DEFINE o == EndOut(Quiet, stopStep, ~stopStep /\ stopErr)
    <2>2. /\ o.done = ~stopStep /\ o.halted = stopStep
          /\ o.err = (~stopStep /\ stopErr)
        BY <1>1, <2>1, EndPulses
    <2>3. out' = o /\ state = "STOP" /\ state' = "IDLE" /\ in.wrIdle
        BY <1>7 DEF CloseStop
    <2> HIDE DEF o
    <2> QED BY <2>1, <2>2, <2>3 DEF Report
<1>8. ASSUME StartFetch(in) PROVE Report' = "none" /\ state' # "IDLE"
    BY <1>8 DEF StartFetch, Quiet, Report
<1>9. ASSUME Pop(in) PROVE Report' = "none" /\ state' # "IDLE"
    BY <1>9, RetirePulses DEF Pop, Report
<1>10. ASSUME Begin(in) PROVE Report' = "none" /\ state' # "IDLE" /\ state = "IDLE"
    BY <1>10, RetirePulses DEF Begin, Report
<1>11. ASSUME Waits(in), DispTick(in), state' = "IDLE" PROVE state = "IDLE" \/ CloseStop(in) \/ Stop(in) \/ RetireHalt(in)
    BY <1>11 DEF DispTick, Rest, Begin, StartFetch, AwaitHead, Pop, Decode, Prepare, AwaitFence,
           PassFence, ReadSreg, Issue, AwaitUnit, RetireNext, AwaitStop
<1>12. \/ Waits(in) \/ Begin(in) \/ StartFetch(in) \/ Pop(in) \/ Issue(in) \/ RetireNext(in)
       \/ RetireHalt(in) \/ Stop(in) \/ CloseStop(in)
    BY DEF DispTick, Rest, AwaitHead, Decode, Prepare, AwaitFence, PassFence, ReadSreg, AwaitUnit,
           AwaitStop
<1>13. CASE RetireHalt(in)
    <2>1. ~Stop(in) /\ ~CloseStop(in)
        BY <1>13 DEF RetireHalt, Stop, CloseStop, ARetire, AStop, AFault, AAbortEnd, AStepStop
    <2> QED BY <1>5, <1>13, <2>1
<1>14. CASE Stop(in)
    <2>1. ~RetireHalt(in) /\ ~CloseStop(in)
        BY <1>14 DEF RetireHalt, Stop, CloseStop, ARetire, AStop, AFault, AAbortEnd, AStepStop
    <2> QED BY <1>6, <1>14, <2>1
<1>15. CASE CloseStop(in)
    <2>1. ~RetireHalt(in) /\ ~Stop(in)
        BY <1>15 DEF RetireHalt, Stop, CloseStop, ARetire, AStop, AFault, AAbortEnd, AStepStop
    <2> QED BY <1>7, <1>15, <2>1
<1> QED
    BY <1>2, <1>3, <1>4, <1>8, <1>9, <1>10, <1>11, <1>12, <1>13, <1>14, <1>15

\* The decode of the abstract machine is that of the core.
LEMMA SameDecode == \A e, re : Run!Fault(e, re) = Fault(e, re)
BY DEF Run!Fault, Fault, Run!KnownOps, KnownOps, Run!GemvOps, GemvOps, Run!VpuOps, VpuOps,
       Run!UsesRows, UsesRows, Run!RowFault, RowFault, Run!RowsC, RowsC, Run!ClassBad, ClassBad

\* A descriptor in hand is the one at PC, and it is faulty as the promise says.
LEMMA HandFaults ==
    ASSUME HandInv, state \in InHand
    PROVE  /\ PcNow = pc /\ d = code[PcNow]
           /\ Run!Faulty <=> PcNow % DescBytes # 0 \/ DecodeFault # "NONE"
<1>1. PcNow = pc /\ d = code[PcNow]
    BY DEF HandInv, InHandIsPc, PcNow
<1> QED BY <1>1, SameDecode DEF Run!Faulty, DecodeFault

\* PC, the pulse on its way included, is an address.
LEMMA PcNowType == TypeOK => PcNow \in Addrs
BY DEF TypeOK, CsrTypeOK, DispTypeOK, Pulses, PcNow

\* The dispatcher leaves for IDLE by the branches that report an end.
LEMMA EndsReport ==
    ASSUME TypeOK, NEW in, DispTick(in), state # "IDLE", state' = "IDLE"
    PROVE  Ends' /\ (RetireHalt(in) \/ (Stop(in) /\ in.wrIdle) \/ CloseStop(in))
<1>1. Quiet \in Pulses /\ RetireOut \in Pulses
    BY QuietType, RetireOutType DEF TypeOK
<1>2. ASSUME NEW o \in Pulses, NEW s \in BOOLEAN, NEW e \in BOOLEAN, out' = EndOut(o, s, e)
      PROVE  Ends'
    BY <1>2, EndPulses DEF Ends
<1>3. CASE RetireHalt(in)
    BY <1>1, <1>2, <1>3 DEF RetireHalt
<1>4. CASE Stop(in)
    <2> DEFINE o == IF ARetire(in) THEN RetireOut ELSE Quiet
    <2>1. o \in Pulses /\ AStepStop(in) \in BOOLEAN /\ AFault \in BOOLEAN
        BY <1>1 DEF AStepStop, AFault
    <2>2. in.wrIdle /\ out' = EndOut(o, AStepStop(in), AFault)
        BY <1>4 DEF Stop
    <2> HIDE DEF o
    <2> QED BY <1>2, <1>4, <2>1, <2>2
<1>5. CASE CloseStop(in)
    <2>1. stopStep \in BOOLEAN /\ (~stopStep /\ stopErr) \in BOOLEAN
        BY DEF TypeOK, DispTypeOK
    <2> QED BY <1>1, <1>2, <1>5, <2>1 DEF CloseStop
<1> QED
    BY <1>3, <1>4, <1>5
    DEF DispTick, Rest, Begin, StartFetch, AwaitHead, Pop, Decode, Prepare, AwaitFence, PassFence,
        ReadSreg, Issue, AwaitUnit, RetireNext, AwaitStop

LEMMA PlaceStep ==
    ASSUME IInv, IInv', PlaceInv, Next
    PROVE  PlaceInv'
<1>0. PICK w \in HostOps, fin, drained, more, wrReady, wrAck, appears \in BOOLEAN :
          Tick(w, fin, drained, more, wrReady, wrAck, appears)
    BY NextIsTick
<1> DEFINE in == Sampled(fin)
<1>1. /\ TypeOK /\ WriteInv /\ UnitInv /\ BusyInv /\ HandInv /\ EndFenced'
      /\ UnitTick(fin, drained) /\ PresentTick(fin, more, wrReady)
      /\ MemoryTick(wrReady, wrAck) /\ DispTick(in) /\ RwTick(w, busy, out)
      /\ HistTick(in, more, wrAck) /\ code' = code
    BY <1>0 DEF IInv, FenceInv, Tick, CoreTick, CsrTick
<1> HIDE DEF in
<1>2. state' = "IDLE" => opened' = 0
    <2>1. CASE Rest(in)
        <3>1. opened = 0 /\ unit = "none"
            BY <1>1, <2>1 DEF Rest, PlaceInv, UnitInv
        <3> QED BY <1>1, <3>1, StaysIdle
    <2>2. CASE ~Rest(in)
        <3>1. state' = "IDLE" => state # "IDLE"
            BY <1>1, <2>2
            DEF DispTick, Begin, StartFetch, AwaitHead, Pop, Decode, Prepare, AwaitFence, PassFence,
                ReadSreg, Issue, AIssue, AwaitUnit, RetireNext, RetireHalt, Stop, CloseStop, ARetire,
                AStop, AFault, AAbortEnd, AStepStop, AwaitStop
        <3> QED BY <1>1, <3>1, EndsReport DEF EndFenced
    <2> QED BY <2>1, <2>2
<1>3. state' = "CHK" => ~out'.pcSet
    BY <1>1, PcMoves
    DEF DispTick, Rest, Begin, StartFetch, AwaitHead, Pop, Decode, Prepare, AwaitFence, PassFence,
        ReadSreg, Issue, AwaitUnit, RetireNext, RetireHalt, Stop, AwaitStop, CloseStop, ARetire
<1>4. ASSUME state \in {"CHK", "FETCH"} \cup InHand
      PROVE  /\ rowEn' = rowEn
             /\ PcNow' = IF ARetire(in) THEN (PcNow + DescBytes) % AddrMod ELSE PcNow
             /\ ran' = IF ARetire(in) /\ ran < 2 THEN ran + 1 ELSE ran
    BY <1>1, <1>4, PlaceMoves DEF InHand
<1>5. state' \in {"FETCH"} \cup InHand => PcNow' % DescBytes = 0
    <2>1. CASE StartFetch(in)
        <3>1. PcNow = pc /\ pc % DescBytes = 0 /\ state = "CHK" /\ ~ARetire(in)
            BY <2>1 DEF StartFetch, PcMisaligned, PlaceInv, PcNow, ARetire
        <3> QED BY <1>4, <3>1
    <2>2. CASE state \in {"FETCH"} \cup InHand
        <3>1. PcNow \in Addrs /\ PcNow % DescBytes = 0
            BY <1>1, <2>2, PcNowType DEF PlaceInv
        <3>2. ((PcNow + DescBytes) % AddrMod) % DescBytes = 0
            BY <3>1, NextAligned
        <3>3. PcNow' = IF ARetire(in) THEN (PcNow + DescBytes) % AddrMod ELSE PcNow
            BY <1>4, <2>2
        <3> QED BY <3>1, <3>2, <3>3
    <2> QED
        BY <1>1, <2>1, <2>2
        DEF InHand, DispTick, Rest, Begin, AwaitHead, Pop, Decode, Prepare, AwaitFence, PassFence,
            ReadSreg, Issue, AwaitUnit, RetireNext, RetireHalt, Stop, AwaitStop, CloseStop, PopOk,
            AIssue, ARetire
<1>6. state' \in InHand \ {"DEC"} => Fault(d', rowEn') = "NONE"
    <2> SUFFICES ASSUME state' \in InHand \ {"DEC"} PROVE Fault(d', rowEn') = "NONE"
        OBVIOUS
    <2>1. /\ state \in InHand /\ d' = d
          /\ state = "DEC" => DecodeFault = "NONE"
        BY <1>1
        DEF InHand, DispTick, Rest, Begin, StartFetch, AwaitHead, Pop, Decode, Prepare, AwaitFence,
            PassFence, ReadSreg, Issue, AIssue, AwaitUnit, RetireNext, RetireHalt, Stop, AwaitStop,
            CloseStop, Waits, Steady, KeepDesc
    <2>2. rowEn' = rowEn
        BY <1>4, <2>1
    <2> QED BY <2>1, <2>2 DEF PlaceInv, DecodeFault
<1>7. state' \in {"CHK", "FETCH"} \cup InHand /\ stepMode' => ran' = 0
    <2> SUFFICES ASSUME state' \in {"CHK", "FETCH"} \cup InHand, stepMode' PROVE ran' = 0
        OBVIOUS
    <2>1. CASE Begin(in)
        BY <1>1, <2>1 DEF Begin, HistTick
    <2>2. CASE ~Begin(in)
        <3>1. state \in {"CHK", "FETCH"} \cup InHand /\ stepMode' = stepMode
            BY <1>1, <2>2
            DEF InHand, DispTick, Rest, StartFetch, AwaitHead, Pop, PopOk, Decode, Prepare,
                AwaitFence, PassFence, ReadSreg, Issue, AIssue, AwaitUnit, RetireNext, RetireHalt,
                Stop, AwaitStop, CloseStop, Waits, KeepRun, ARetire
        <3>2. ~ARetire(in)
            <4>1. ARetire(in) => RetireNext(in)
                BY <1>1
                DEF InHand, DispTick, Rest, Begin, StartFetch, AwaitHead, Pop, PopOk, Decode,
                    Prepare, AwaitFence, PassFence, ReadSreg, Issue, AIssue, AwaitUnit, RetireHalt,
                    Stop, AwaitStop, CloseStop, ARetire
            <4> QED
                BY <3>1, <4>1 DEF RetireNext, AStop, AStepStop
        <3> QED BY <1>4, <3>1, <3>2 DEF PlaceInv
    <2> QED BY <2>1, <2>2
<1>8. state' = "STOP" =>
         IF stopStep' THEN stepMode' /\ ran' = 1 ELSE IF stopErr' THEN Run!Faulty' ELSE abortQ'
    <2> SUFFICES ASSUME state' = "STOP"
                 PROVE  IF stopStep' THEN stepMode' /\ ran' = 1
                        ELSE IF stopErr' THEN Run!Faulty' ELSE abortQ'
        OBVIOUS
    <2>1. Run!Faulty /\ ~ARetire(in) /\ rowEn' = rowEn /\ PcNow' = PcNow => Run!Faulty'
        BY <1>1 DEF Run!Faulty
    <2>2. CASE AwaitStop(in)
        <3>1. /\ state = "STOP" /\ stopStep' = stopStep /\ stopErr' = stopErr
              /\ stepMode' = stepMode /\ abortQ' = (abortQ \/ abortRun) /\ ~ARetire(in)
            BY <2>2 DEF AwaitStop, Waits, Steady, KeepStop, KeepRun, LatchAbort, ARetire
        <3>2. rowEn' = rowEn /\ PcNow' = PcNow /\ ran' = ran
            BY <1>1, <3>1, PlaceMoves
        <3> QED BY <2>1, <3>1, <3>2 DEF PlaceInv
    <2>3. CASE Stop(in)
        <3>1. /\ AStop(in) /\ stopErr' = AFault /\ stopStep' = AStepStop(in) /\ stepMode' = stepMode
              /\ abortQ' = (abortQ \/ abortRun)
              /\ state \in {"CHK", "FETCH"} \cup InHand
            BY <2>3 DEF Stop, AStop, AFault, AAbortEnd, AStepStop, ARetire, InHand, LatchAbort
        <3>2. CASE AStepStop(in)
            <4>1. stepMode /\ ARetire(in) /\ ran = 0
                BY <3>1, <3>2 DEF AStepStop, ARetire, InHand, PlaceInv
            <4> QED BY <1>4, <3>1, <3>2, <4>1
        <3>3. CASE AFault
            <4>1. ~ARetire(in) /\ ~AStepStop(in)
                BY <3>3 DEF AFault, ARetire, AStepStop
            <4>2. Run!Faulty
                <5>1. CASE state = "CHK"
                    BY <3>3, <5>1 DEF AFault, PcMisaligned, Run!Faulty, PlaceInv, PcNow
                <5>2. CASE state = "DEC"
                    BY <1>1, <3>3, <5>2, HandFaults DEF AFault, InHand
                <5> QED BY <3>3, <5>1, <5>2 DEF AFault
            <4> QED BY <1>4, <2>1, <3>1, <3>3, <4>1, <4>2
        <3>4. CASE ~AStepStop(in) /\ ~AFault
            BY <3>1, <3>4 DEF AStop, AAbortEnd
        <3> QED BY <3>2, <3>3, <3>4
    <2> QED
        BY <1>1, <2>2, <2>3
        DEF DispTick, Rest, Begin, StartFetch, AwaitHead, Pop, Decode, Prepare, AwaitFence,
            PassFence, ReadSreg, Issue, AwaitUnit, RetireNext, RetireHalt, CloseStop
<1> QED BY <1>2, <1>3, <1>5, <1>6, <1>7, <1>8 DEF PlaceInv

-----------------------------------------------------------------------------
(* Every edge is a step of the promise *)

\* An edge of an idle core sets registers, or starts a run.
LEMMA IdleRuns ==
    ASSUME IInv, IInv', PlaceInv, PlaceInv', Next, state = "IDLE"
    PROVE  Run!Configure \/ Run!Go
<1>0. PICK w \in HostOps, fin, drained, more, wrReady, wrAck, appears \in BOOLEAN :
          Tick(w, fin, drained, more, wrReady, wrAck, appears)
    BY NextIsTick
<1> DEFINE in == Sampled(fin)
<1>1. /\ TypeOK /\ WriteInv /\ UnitInv /\ busy = FALSE /\ (busy' <=> state' # "IDLE")
      /\ busy' \in BOOLEAN
      /\ PresentTick(fin, more, wrReady) /\ MemoryTick(wrReady, wrAck) /\ DispTick(in)
      /\ CtrlTick(w, busy) /\ HistTick(in, more, wrAck) /\ code' = code
    BY <1>0 DEF IInv, BusyInv, TypeOK, DispTypeOK, Tick, CoreTick, CsrTick
<1>2. opened = 0 /\ opened' = 0
    <2>1. opened = 0 /\ unit = "none"
        BY <1>1 DEF PlaceInv, UnitInv
    <2> QED BY <1>1, <2>1, StaysIdle
<1>3. Report' = "none" /\ abortRun' = FALSE
    BY <1>1, ReportMoves DEF CtrlTick
<1> HIDE DEF in
<1>4. Rest(in) \/ Begin(in)
    BY <1>1
    DEF DispTick, StartFetch, AwaitHead, Pop, PopOk, Decode, Prepare, AwaitFence, PassFence,
        ReadSreg, Issue, AIssue, AwaitUnit, RetireNext, RetireHalt, Stop, AwaitStop, CloseStop,
        ARetire, AStop, AFault, AAbortEnd, AStepStop
<1>5. CASE Rest(in)
    <2>1. ~busy' /\ stepMode' = stepMode /\ ran' = ran
        BY <1>1, <1>5 DEF Rest, Waits, KeepRun, HistTick, ARetire
    <2> QED
        BY <1>1, <1>2, <1>3, <2>1 DEF Run!Configure, Run!HostIdle, Report
<1>6. CASE Begin(in)
    <2>1. busy' /\ abortQ' = FALSE /\ ran' = 0
        BY <1>1, <1>6 DEF Begin, HistTick
    <2> QED
        BY <1>1, <1>2, <1>3, <2>1 DEF Run!Go, Run!HostIdle, Report
<1> QED BY <1>4, <1>5, <1>6

\* An edge of a busy core that retires nothing and ends nothing is work between
\* two descriptors.
LEMMA RunContinues ==
    ASSUME IInv, IInv', NEW in, DispTick(in), state # "IDLE", state' # "IDLE",
           rowEn' = rowEn, pos' = pos, code' = code, NEW w, CtrlTick(w, busy)
    PROVE  Run!Held /\ Run!Continue /\ Run!WritesMove /\ busy
<1>1. TypeOK /\ busy /\ busy'
    BY DEF IInv, BusyInv
<1>2. stepMode' = stepMode /\ abortQ' = (abortQ \/ abortRun)
    BY
    DEF DispTick, Rest, Begin, StartFetch, AwaitHead, Pop, Decode, Prepare, AwaitFence, PassFence,
        ReadSreg, Issue, AwaitUnit, RetireNext, RetireHalt, Stop, AwaitStop, CloseStop, Waits,
        Steady, KeepRun, LatchAbort
<1>3. Report' = "none"
    BY <1>1, ReportMoves
<1> QED BY <1>1, <1>2, <1>3 DEF Run!Held, Run!Continue, Run!WritesMove, Report

\* A retire executes the descriptor at PC: it does not fault, it is the first of
\* a step, and PC goes on to the next.
LEMMA RetireAdvances ==
    ASSUME IInv, PlaceInv, NEW w, NEW in, NEW more, NEW wrAck, DispTick(in),
           RwTick(w, busy, out), HistTick(in, more, wrAck), ARetire(in)
    PROVE  Run!Advance /\ (Run!Halts <=> d.op = "HALT")
<1>1. /\ TypeOK /\ BusyInv /\ HandInv /\ state \in InHand /\ state # "IDLE"
      /\ state = "DEC" => DecodeFault = "NONE"
    BY DEF IInv, ARetire, InHand
<1>2. PcNow % DescBytes = 0 /\ DecodeFault = "NONE" /\ (stepMode => ran = 0)
    BY <1>1 DEF PlaceInv, DecodeFault
<1>3. ~Run!Faulty /\ (Run!Halts <=> d.op = "HALT")
    BY <1>1, <1>2, HandFaults DEF Run!Halts
<1>4. /\ PcNow' = (PcNow + DescBytes) % AddrMod
      /\ ran' = IF ran < 2 THEN ran + 1 ELSE ran
    BY <1>1, PlaceMoves
<1> QED BY <1>2, <1>3, <1>4 DEF Run!Advance

\* The end of a run: the writes have landed, before the edge and after it.
LEMMA RunEndsFenced ==
    ASSUME IInv, IInv', Next, state # "IDLE", state' = "IDLE"
    PROVE  opened = 0 /\ opened' = 0 /\ busy /\ busy' = FALSE /\ stepMode' = stepMode
<1>0. PICK w \in HostOps, fin, drained, more, wrReady, wrAck, appears \in BOOLEAN :
          Tick(w, fin, drained, more, wrReady, wrAck, appears)
    BY NextIsTick
<1> DEFINE in == Sampled(fin)
<1>1. /\ TypeOK /\ WriteInv /\ UnitInv /\ EndFenced' /\ busy /\ busy' = FALSE
      /\ UnitTick(fin, drained) /\ DispTick(in)
    BY <1>0 DEF IInv, FenceInv, BusyInv, TypeOK, DispTypeOK, Tick, CoreTick
<1>2. Ends'
    BY <1>1, EndsReport
<1>3. WrIdle
    BY <1>1, <1>2, EndsIdle
<1>4. opened = 0 /\ opened' = 0
    BY <1>1, <1>2, <1>3, IdleExact DEF WrIdleExact, EndFenced
<1> HIDE DEF in
<1>5. stepMode' = stepMode
    BY <1>1, EndsReport DEF RetireHalt, Stop, CloseStop
<1> QED BY <1>1, <1>4, <1>5

LEMMA BusyRuns ==
    ASSUME IInv, IInv', PlaceInv, PlaceInv', Next, state # "IDLE"
    PROVE  Run!Exec \/ Run!ExecHalt \/ Run!Between \/ Run!Finish
<1>0. PICK w \in HostOps, fin, drained, more, wrReady, wrAck, appears \in BOOLEAN :
          Tick(w, fin, drained, more, wrReady, wrAck, appears)
    BY NextIsTick
<1> DEFINE in == Sampled(fin)
<1>1. /\ TypeOK /\ BusyInv /\ HandInv /\ DispTick(in) /\ CtrlTick(w, busy) /\ RwTick(w, busy, out)
      /\ HistTick(in, more, wrAck) /\ code' = code
    BY <1>0 DEF IInv, Tick, CoreTick, CsrTick
<1>2. /\ rowEn' = rowEn /\ pos' = pos
      /\ PcNow' = IF ARetire(in) THEN (PcNow + DescBytes) % AddrMod ELSE PcNow
      /\ ran' = IF ARetire(in) /\ ran < 2 THEN ran + 1 ELSE ran
    BY <1>1, PlaceMoves
<1>3. ARetire(in) => Run!Advance /\ (Run!Halts <=> d.op = "HALT")
    BY <1>1, RetireAdvances
<1>6. ASSUME state' = "IDLE"
      PROVE  opened = 0 /\ opened' = 0 /\ busy /\ busy' = FALSE /\ stepMode' = stepMode
    BY <1>6, RunEndsFenced
<1> HIDE DEF in
<1>4. CASE state' # "IDLE"
    <2>1. Run!Held /\ Run!Continue /\ Run!WritesMove /\ busy
        BY <1>1, <1>2, <1>4, RunContinues
    <2>2. CASE ~ARetire(in)
        BY <1>2, <2>1, <2>2 DEF Run!Between
    <2>3. CASE ARetire(in)
        <3>1. d.op # "HALT"
            BY <1>1, <1>4, <2>3
            DEF DispTick, Rest, Begin, StartFetch, AwaitHead, Pop, PopOk, Decode, Prepare, AwaitFence,
                PassFence, ReadSreg, Issue, AIssue, AwaitUnit, RetireNext, RetireHalt, Stop, AStop,
                AFault, AAbortEnd, AStepStop, AwaitStop, CloseStop, ARetire, Trivial, ZeroWork,
                UsesRows, NeedsSreg
        <3> QED BY <1>3, <2>1, <2>3, <3>1 DEF Run!Exec
    <2> QED BY <2>2, <2>3
<1>5. CASE state' = "IDLE"
    <2>1. RetireHalt(in) \/ (Stop(in) /\ in.wrIdle) \/ CloseStop(in)
        BY <1>1, <1>5, EndsReport
    <2>2. /\ busy /\ Run!Held /\ Run!WritesMove
          /\ Run!End(Report')
        BY <1>2, <1>1, <1>5, <1>6 DEF Run!Held, Run!WritesMove, Run!End, Report
    <2>3. ~ARetire(in) => Run!Held /\ PcNow' = PcNow /\ ran' = ran
        BY <1>2, <2>2
    <2>4. CASE RetireHalt(in)
        <3>1. ARetire(in) /\ d.op = "HALT" /\ Report' = "done"
            BY <1>1, <2>4, ReportMoves DEF RetireHalt
        <3> QED BY <1>3, <2>2, <3>1 DEF Run!ExecHalt
    <2>5. CASE Stop(in) /\ in.wrIdle
        <3>1. /\ AStop(in)
              /\ Report' = IF AFault THEN "error" ELSE IF AStepStop(in) THEN "halted" ELSE "done"
            BY <1>1, <2>5, ReportMoves DEF Stop
        <3>2. CASE ARetire(in)
            <4>1. ~AFault /\ d.op # "HALT" /\ (AStepStop(in) => stepMode) /\ (~AStepStop(in) => abortQ)
                BY <3>1, <3>2 DEF AStop, AFault, AAbortEnd, AStepStop, ARetire
            <4> QED BY <1>3, <2>2, <3>1, <3>2, <4>1 DEF Run!Exec
        <3>3. CASE ~ARetire(in) /\ AFault
            <4>1. Run!Faulty
                <5>1. CASE state = "CHK"
                    BY <3>3, <5>1 DEF AFault, PcMisaligned, Run!Faulty, PlaceInv, PcNow
                <5>2. CASE state = "DEC"
                    BY <1>1, <3>3, <5>2, HandFaults DEF AFault, InHand
                <5> QED BY <3>3, <5>1, <5>2 DEF AFault
            <4> QED BY <2>2, <2>3, <3>1, <3>3, <4>1 DEF Run!Finish
        <3>4. CASE ~ARetire(in) /\ ~AFault
            <4>1. abortQ /\ Report' = "done"
                BY <3>1, <3>4 DEF AStop, AAbortEnd, AStepStop
            <4> QED BY <2>2, <2>3, <3>4, <4>1 DEF Run!Finish
        <3> QED BY <3>2, <3>3, <3>4
    <2>6. CASE CloseStop(in)
        <3>1. /\ state = "STOP" /\ ~ARetire(in)
              /\ Report' = IF stopStep THEN "halted" ELSE IF stopErr THEN "error" ELSE "done"
            BY <1>1, <2>6, ReportMoves DEF CloseStop, ARetire
        <3>2. IF stopStep THEN stepMode /\ ran = 1 ELSE IF stopErr THEN Run!Faulty ELSE abortQ
            BY <3>1 DEF PlaceInv
        <3> QED BY <2>2, <2>3, <3>1, <3>2 DEF Run!Finish
    <2> QED BY <2>1, <2>4, <2>5, <2>6
<1> QED BY <1>4, <1>5

-----------------------------------------------------------------------------
(* The inductive invariant and what follows from it *)

RunInv == IInv /\ BoundsInv /\ ScalesInv /\ PlaceInv

LEMMA RunInvInit == Init => RunInv
<1> SUFFICES ASSUME Init PROVE RunInv
    OBVIOUS
<1>1. IInv
    BY IInvInit
<1>2. BoundsInv /\ ScalesInv /\ PlaceInv
    BY DEF Init, CsrInit, DispInit, Quiet, BoundsInv, ScalesInv, ScalesCurrent, Issues, PlaceInv,
           InHand
<1> QED BY <1>1, <1>2 DEF RunInv

LEMMA RunInvStep == RunInv /\ [Next]_vars => RunInv'
<1> SUFFICES ASSUME RunInv, [Next]_vars PROVE RunInv'
    OBVIOUS
<1>1. IInv'
    BY IInvStep DEF RunInv
<1>2. CASE UNCHANGED vars
    <2>1. BoundsInv' /\ ScalesInv'
        BY <1>2 DEF RunInv, vars, csrVars, pulseVars, rwVars, dispVars, fsmVars, cmdVars, histVars,
                    BoundsInv, ScalesInv, ScalesCurrent, Issues
    <2>2. PlaceInv'
        BY <1>2 DEF RunInv, vars, csrVars, pulseVars, rwVars, dispVars, fsmVars, cmdVars, histVars,
                    PlaceInv, PcNow, Run!Faulty
    <2> QED BY <1>1, <2>1, <2>2 DEF RunInv
<1>3. CASE Next
    <2>1. PICK w \in HostOps, fin, drained, more, wrReady, wrAck, appears \in BOOLEAN :
              Tick(w, fin, drained, more, wrReady, wrAck, appears)
        BY <1>3, NextIsTick
    <2>2. /\ DispTick(Sampled(fin)) /\ RwTick(w, busy, out)
          /\ CsrTick(w, busy, out, faultCode, faultOp) /\ HistTick(Sampled(fin), more, wrAck)
        BY <2>1 DEF Tick, CoreTick, CsrTick
    <2>3. TypeOK /\ TypeOK' /\ BusyInv /\ BoundsInv /\ ScalesInv /\ PlaceInv
        BY <1>1 DEF RunInv, IInv
    <2>4. BoundsInv'
        BY <2>2, <2>3, BoundsStep
    <2>5. ScalesInv'
        BY <2>2, <2>3, ScalesStep
    <2>6. PlaceInv'
        BY <1>1, <1>3, PlaceStep DEF RunInv
    <2> QED BY <1>1, <2>4, <2>5, <2>6 DEF RunInv
<1> QED BY <1>2, <1>3

\* The strengthening holds in every reachable state.
THEOREM RunInductive == Spec => []RunInv
BY RunInvInit, RunInvStep, PTL DEF Spec

\* Once a run is over ERR_BOUNDS and the pulse still on its way hold the events
\* of exactly the descriptors retired since START, at any width of the counter.
THEOREM EventsCounted == Spec => []BoundsCounted
<1>1. RunInv => BoundsCounted
    <2> SUFFICES ASSUME RunInv, ~busy PROVE (errBounds + out.errb) % CounterMod = retiredErrb
        BY DEF BoundsCounted
    <2>1. state # "RUN" /\ retiredErrb \in 0 .. (CounterMod - 1) /\ CounterMod \in Nat \ {0}
        BY CsrAssumption DEF RunInv, IInv, BusyInv, TypeOK
    <2>2. (errBounds + out.errb) % CounterMod = (retiredErrb + 0) % CounterMod
        BY <2>1 DEF RunInv, BoundsInv
    <2>3. retiredErrb + 0 = retiredErrb
        BY <2>1
    <2>4. retiredErrb % CounterMod = retiredErrb
        BY <2>1, ModSmall
    <2> QED BY <2>2, <2>3, <2>4
<1> QED BY <1>1, RunInductive, PTL

\* An issue hands over a scale read for this descriptor for every row that takes
\* part, whatever rows an earlier descriptor skipped.
THEOREM ScalesFresh == Spec => []ScalesCurrent
<1>1. RunInv => ScalesCurrent
    BY DEF RunInv, ScalesInv
<1> QED BY <1>1, RunInductive, PTL

\* Nothing a unit was handed moves between its issue and the retire, not by the
\* host's writes to ROW_EN and POS either.
THEOREM BundleKept == Spec => BundleHolds
<1>1. RunInv /\ [Next]_vars => [state = "RUN" => Bundle' = Bundle \/ state' # "RUN"]_vars
    <2> SUFFICES ASSUME RunInv, Next, state = "RUN", state' = "RUN" PROVE Bundle' = Bundle
        OBVIOUS
    <2>1. PICK w \in HostOps, fin, drained, more, wrReady, wrAck, appears \in BOOLEAN :
              Tick(w, fin, drained, more, wrReady, wrAck, appears)
        BY NextIsTick
    <2>2. DispTick(Sampled(fin)) /\ RwTick(w, busy, out)
        BY <2>1 DEF Tick, CoreTick, CsrTick
    <2> QED BY <2>2, BundleStep DEF RunInv, IInv
<1> QED BY <1>1, RunInductive, PTL DEF Spec, BundleHolds

\* The pipelined core runs a program as the sequential machine of ProgramRun:
\* the descriptors in address order, none that faults, at most one of a step,
\* and the end reported with every write landed and PC on what did not execute.
THEOREM Promised == Spec => RunsAsPromised
<1>1. Init => Run!RunInit
    BY DEF Init, CsrInit, DispInit, Quiet, Run!RunInit
<1>2. RunInv /\ RunInv' /\ [Next]_vars => [Run!RunNext]_(Run!runVars)
    <2> SUFFICES ASSUME RunInv, RunInv', [Next]_vars PROVE [Run!RunNext]_(Run!runVars)
        OBVIOUS
    <2>1. CASE Next
        <3>1. IInv /\ IInv' /\ PlaceInv /\ PlaceInv'
            BY DEF RunInv
        <3>2. CASE state = "IDLE"
            BY <2>1, <3>1, <3>2, IdleRuns DEF Run!RunNext
        <3>3. CASE state # "IDLE"
            BY <2>1, <3>1, <3>3, BusyRuns DEF Run!RunNext
        <3> QED BY <3>2, <3>3
    <2>2. CASE UNCHANGED vars
        BY <2>2 DEF vars, csrVars, pulseVars, rwVars, dispVars, fsmVars, cmdVars, histVars,
                    Run!runVars, PcNow
    <2> QED BY <2>1, <2>2
<1> QED BY <1>1, <1>2, RunInductive, PTL DEF Spec, RunsAsPromised, Run!RunSpec
=============================================================================
