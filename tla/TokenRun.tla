------------------------------ MODULE TokenRun ------------------------------
(***************************************************************************)
(* A host that runs tokens of a compiled model on the simulator, next to   *)
(* the golden model: compare_step.  Tokens may go back to an earlier        *)
(* position over a used cache, stop half way in step mode, or stop at a     *)
(* damaged descriptor; the bring-up program may run between them.           *)
(***************************************************************************)
EXTENDS IsaSim

CONSTANTS
    Shapes,       \* what the compiler is asked for
    MaxWork,      \* descriptors after which a behaviour starts no token
    MaxMishaps,   \* damaged programs, tokens in step mode and bring-up runs among them
    Damage        \* indices of decode that a damaged program may have

VARIABLES
    compiled,     \* what compile returned for the shape: Compiled
    cache,        \* golden.KVCache, and how much of it the programs completed
    gold,         \* the golden trace of the token in progress
    src,          \* the program in progress: its name, its damaged index, its mode
    last,         \* the descriptor just retired, 0 when none was
    tokens, mishaps

vars == <<machine, compiled, cache, gold, src, last, tokens, mishaps>>

\* The numbers an image holds; a program holds the indices of its descriptors.
Numbers(image) ==
    [a \in DOMAIN image |->
        IF image[a][1] \in {"prog.decode", "prog.prefill"} THEN 1 + image[a][3] ELSE Value(image[a])]

\* The addresses no token may change: all but the KV regions and the window behind the programs.
FixedAddresses(c, free) ==
    With({c.reg[nm] : nm \in {x \in DOMAIN c.reg : c.reg[x].kind = "kv"}}, LAMBDA kv :
        {a \in DOMAIN c.image \ (free .. RopeBase - 1) :
            ~ \E r \in kv : a \in r.addr .. RegionEnd(r) - 1})

Compiled(m) ==
    With(Compile(m), LAMBDA c : With(Bringup(m), LAMBDA b : With(Numbers(c.image), LAMBDA qmem :
        [decode |-> c.decode, prefill |-> c.prefill, pc |-> c.pc, reg |-> c.reg, bringup |-> b,
         qmem |-> qmem, fixed |-> FixedAddresses(c, b.addr),
         traffic |-> [prog \in {"decode", "prefill"} |-> Traffic(m, prog)]])))

Plan == IF src.prog = "prefill" THEN compiled.prefill ELSE compiled.decode

\* _descriptors: the descriptor at PC, as its program has it in QMEM.
Index == 1 + (csr.PC - (IF src.prog = "bringup" THEN compiled.bringup.addr
                        ELSE compiled.pc[src.prog])) \div DescBytes

Damaged(d) == IF d.op = "VSOFTMAX" THEN [d EXCEPT !.sh = "bad"] ELSE [d EXCEPT !.op = "BAD"]

Fetched ==
    LET d == IF src.prog = "bringup" THEN compiled.bringup.program[Index] ELSE Plan[Index].d
    IN IF mem[csr.PC] # Index \/ src.damaged = Index THEN Damaged(d) ELSE d

Init ==
    /\ shape \in {m \in Shapes : Accepts(m)}
    /\ compiled \in {Compiled(shape)}
    /\ mem = compiled.qmem
    /\ vsram = [a \in 0 .. VsramElems - 1 |-> 0]
    /\ sreg = [i \in 0 .. SregCount - 1 |-> ScaleZero]
    /\ csr = [TOK |-> 0, POS |-> 0, PC |-> 0, ARGMAX_TOK |-> 0, ARGMAX_VAL |-> 0]
    /\ err_bounds = 0 /\ perf = NoCounts /\ argmax_out = <<>> /\ log = {}
    /\ status = "idle"
    /\ cache = new_cache(shape)
    /\ gold = <<>>
    /\ src = [prog |-> "decode", damaged |-> 0, mode |-> "run"]
    /\ last = 0 /\ tokens = 0 /\ mishaps = 0

Idle == status \in {"idle", "halted", "done", "err"} /\ tokens * Len(compiled.decode) < MaxWork

\* CTRL.STEP starts no run: TOK, POS and PC are written, the counters stay.
StepToken(tok, pos, pc) ==
    /\ csr' = [csr EXCEPT !.TOK = tok, !.POS = pos, !.PC = pc]
    /\ status' = "halted" /\ argmax_out' = <<>> /\ log' = {}
    /\ UNCHANGED <<shape, mem, vsram, sreg, err_bounds, perf>>

\* compare_step: golden.step beside the program, at a position it may be at.
Begin(prog, tok, pos, mode, damaged) ==
    LET start(t, p, pc) == IF mode = "run" THEN RunToken(t, p, pc) ELSE StepToken(t, p, pc)
    IN /\ Idle
       /\ StepAllowed(shape, cache, tok, pos)
       /\ start(tok, pos, compiled.pc[prog])
       /\ gold' = <<>>
       /\ cache' = [cache EXCEPT !.length = pos]
       /\ src' = [prog |-> prog, damaged |-> damaged, mode |-> mode]
       /\ last' = 0 /\ tokens' = tokens + 1
       /\ mishaps' = mishaps + IF mode = "run" /\ damaged = 0 THEN 0 ELSE 1
       /\ mishaps' <= MaxMishaps /\ (mode = "step" => damaged = 0)
       /\ UNCHANGED compiled

\* The bring-up host loads the program and the one scale, then runs it.
BeginBringup(tok) ==
    LET b == compiled.bringup
    IN /\ Idle
       /\ mem' = [i \in {b.addr + (j - 1) * DescBytes : j \in 1 .. 3} |->
                     1 + (i - b.addr) \div DescBytes] @@ mem
       /\ sreg' = [sreg EXCEPT ![b.sreg] = Scale(One)]
       /\ csr' = [csr EXCEPT !.TOK = tok, !.POS = 0, !.PC = b.addr]
       /\ status' = "run"
       /\ err_bounds' = 0 /\ perf' = NoCounts /\ argmax_out' = <<>> /\ log' = {}
       /\ src' = [prog |-> "bringup", damaged |-> 0, mode |-> "run"]
       /\ last' = 0 /\ tokens' = tokens + 1
       /\ mishaps < MaxMishaps /\ mishaps' = mishaps + 1
       /\ UNCHANGED <<shape, compiled, vsram, cache, gold>>

\* One descriptor; at HALT the golden cache has the token too.
Compared(name, layer, head) ==
    gold' = (<<name, layer, head>> :> golden_op(shape, cache, csr.TOK, csr.POS, name, layer, head, gold))
            @@ gold

Running == status = "run" \/ (status = "halted" /\ src.mode = "step")

Advance(ops) ==
    /\ Running
    /\ \E d \in {Fetched} :
        /\ d.op \in ops
        /\ RunOne(d)
        /\ last' = IF status' = "err" THEN 0 ELSE Index
        /\ IF status' = "err" \/ src.prog = "bringup" THEN UNCHANGED gold
           ELSE LET e == Plan[Index].entry IN Compared(e.name, e.layer, e.head)
        /\ cache' = IF status' = "done" /\ src.prog # "bringup"
                    THEN step_cache(shape, cache, csr.POS, gold) ELSE cache
        /\ UNCHANGED <<compiled, src, tokens, mishaps>>

\* The first and the last token of the vocabulary.
Ends == {0, shape.vocab - 1}

Next ==
    \/ \E prog \in {"decode", "prefill"}, tok \in Ends, pos \in 0 .. shape.ctx - 1,
          mode \in {"run", "step"}, damaged \in {0} \cup Damage :
            Begin(prog, tok, pos, mode, damaged)
    \/ \E tok \in Ends : BeginBringup(tok)
    \/ Advance({"GEMV", "EMBED"})
    \/ Advance({"VRMSNORM", "VQUANT", "VROPE", "VSILUMUL", "VSUBC"})
    \/ Advance({"VSOFTMAX"})
    \/ Advance({"KVWRITE"})
    \/ Advance({"HALT", "NOP", "BAD"})

Spec == Init /\ [][Next]_vars

-----------------------------------------------------------------------------
(* Properties *)

Retired == last # 0 /\ src.prog # "bringup"
D == Plan[last].d
E == Plan[last].entry

Out(start, count) == Seqn([i \in 1 .. count |-> vsram[start + i - 1]])
G == gold[<<E.name, E.layer, E.head>>]
Held(scales) == \A g \in DOMAIN scales : sreg[D.sreg_dst + g - 1] = Scale(scales[g])

\* The bytes and the record a KVWRITE left.
KvBytes(at) ==
    IF E.name = "kvwrite_k" THEN Seqn([i \in DOMAIN at |-> mem[at[i]]])
    ELSE SubSeq(Concat([i \in DOMAIN at |-> Read(at[i], Wb)]), 1, HeadDim)

\* _expected: what the golden trace says of the descriptor just retired.
Agrees ==
    CASE E.name = "rope" -> Out(D.vs_src, D.n) = G.v
      [] E.name = "gemv_scores" -> Out(D.vs_dst, csr.POS + 1) = G.v
      [] E.name = "softmax" -> Out(D.vs_dst, D.n) = Pad(G.v, D.n) /\ Held(G.s)
      [] E.name = "gemv_lm_head" -> argmax_out = G.v /\ csr.ARGMAX_TOK = argmax(G.v)
      [] E.name \in {"kvwrite_k", "kvwrite_v"} ->
           LET at == kv_addresses(D, csr.POS, Wb)
           IN KvBytes(at.data) = G.v /\ mem[at.meta] = 8 * G.s[1]
      [] E.name = "halt" -> TRUE
      [] OTHER -> Out(D.vs_dst, IF D.op = "EMBED" THEN D.k ELSE D.n) = G.v /\ Held(G.s)

(* Every descriptor of a compiled program computes what the golden model    *)
(* computes at that step, whatever older tokens, abandoned tokens, faults   *)
(* and bring-up runs left in VSRAM, SREG and the cache (compare_step).      *)
OutputsAreGolden == Retired => Agrees

\* check_plan: the writes against the entry of the dump plan.
InPlan(k) ==
    \/ k[1] = "csr" /\ k[2] \in E.csr
    \/ k[1] = "sreg" /\ k[2] \in E.sreg
    \/ k[1] = "vsram" /\ E.vsram.start <= k[2] /\ k[2] + k[3] <= E.vsram.start + E.vsram.count
       /\ (~E.pos_dependent => k[2] = E.vsram.start /\ k[3] = E.vsram.count)
    \/ k[1] = "mem" /\ \E name \in E.mem :
            LET r == compiled.reg[name] IN r.addr <= k[2] /\ k[2] + k[3] <= RegionEnd(r)

(* The dump plan describes the writes of every descriptor, the registers     *)
(* exactly, and they are the ranges written_ranges derives from its fields.  *)
PlanDescribesWrites ==
    Retired => /\ \A k \in log : InPlan(k)
               /\ {k[2] : k \in {x \in log : x[1] = "sreg"}} = E.sreg
               /\ {k[2] : k \in {x \in log : x[1] = "csr"}} = E.csr
               /\ (E.vsram.count > 0) <=> (\E k \in log : k[1] = "vsram")
               /\ log = written_ranges(D, csr.POS, Wb)

Stored(i, p, g) ==
    LET kt == compiled.reg[<<"kt", i, g>>].addr
        v == compiled.reg[<<"v", i, g>>].addr
        row == cache.row[i][p]
    IN \A j \in 0 .. HeadDim - 1 :
          /\ mem[kt + ((p \div Wb) * HeadDim + j) * Wb + (p % Wb)] = row.k[g + 1][j + 1]
          /\ mem[v + ((j \div Wb) * shape.ctx + p) * Wb + (j % Wb)] = row.v[g + 1][j + 1]

(* The cache in QMEM holds the K and V of every completed position of the    *)
(* history and is lost by no later token; no other address of the image      *)
(* changes, the bring-up program and its dump apart.                         *)
CacheIsHistory ==
    /\ \A i \in 0 .. shape.layers - 1, g \in 0 .. shape.kv - 1 :
          \A p \in 0 .. cache.length - 1 : Stored(i, p, g)
    /\ LET image == compiled.qmem IN \A a \in compiled.fixed : mem[a] = image[a]

(* At HALT the PERF counters are what the compiler's layout.json promises of *)
(* a token at that position: _traffic with the attention rates.              *)
CountersMatchLayout ==
    status = "done" /\ src.prog # "bringup" /\ src.mode = "run" =>
        LET t == compiled.traffic[src.prog]
            seen == csr.POS + 1
        IN /\ perf.DESCRIPTORS = DescriptorCount(shape, src.prog)
           /\ perf.WT_BYTES = t.wt_bytes
           /\ perf.MACS = t.macs + shape.layers * shape.heads
                             * (TilesFor(seen, Wb) * t.scores_macs_per_tile + seen * t.pv_macs_per_token)

(* A program of a shape the compiler accepts never reads or writes outside   *)
(* VSRAM, SREG or the image and never takes an absmax for a scale.           *)
NothingRaised == status # "raise" /\ err_bounds = 0
=============================================================================
