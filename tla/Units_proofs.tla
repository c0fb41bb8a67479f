---------------------------- MODULE Units_proofs ----------------------------
(***************************************************************************)
(* Proofs about Units: the space of the stream's FIFOs and of the rows'    *)
(* rings is never exceeded, for any memory, any timing and any programs.   *)
(***************************************************************************)
EXTENDS Units, Wraps, FiniteSetTheorems, SequenceTheorems

\* A register: a sequence of one thing or of nothing.
IsReg(s) == IsSeq(s) /\ Len(s) <= 1

\* The beats with tag t in s.
Cnt(s, t) == Cardinality({i \in DOMAIN s : s[i].tag = t})

GenTypes ==
    /\ {"st", "rem"} \subseteq DOMAIN gen
    /\ gen.st \in {"IDLE", "MUL", "W", "M"}
    /\ gen.rem \in Nat

ReqTypes ==
    /\ IsReg(sReq)
    /\ sReq # Nothing => sReq[1].len \in Nat

FifoTypes ==
    /\ IsSeq(due)
    /\ IsSeq(wmem) /\ IsReg(wo)
    /\ IsSeq(mmem) /\ IsReg(mo)

RowTypes ==
    /\ row = [r \in Rows |-> row[r]]
    /\ \A r \in Rows :
         /\ {"ring", "pend"} \subseteq DOMAIN row[r]
         /\ IsSeq(row[r].ring) /\ IsReg(row[r].pend)

\* The stream is at rest unless a GEMV or an EMBED is at work: an issue finds it empty.
StreamRests == unit # "gemv" => ~StreamBusy

SpaceInv ==
    /\ todo \in Seq(Jobs) /\ cmd.k \in Nat
    /\ GenTypes /\ ReqTypes /\ FifoTypes /\ RowTypes
    /\ StreamRests
    /\ SpaceReserved

-----------------------------------------------------------------------------
(* Sequences *)

LEMMA SeqOfNone ==
    IsReg(<<>>) /\ Len(<<>>) = 0
<1>1. <<>> \in Seq({}) /\ Len(<<>>) = 0
    BY EmptySeq
<1>2. IsSeq(<<>>)
    BY <1>1, SeqIn
<1> QED BY <1>1, <1>2 DEF IsReg

LEMMA SeqOfOne ==
    ASSUME NEW x
    PROVE  IsReg(Holding(x)) /\ Len(Holding(x)) = 1 /\ Holding(x) # <<>> /\ Holding(x)[1] = x
<1>1. <<x>> \in Seq({x}) /\ Len(<<x>>) = 1 /\ <<x>>[1] = x
    OBVIOUS
<1>2. IsSeq(<<x>>)
    BY <1>1, SeqIn
<1>3. <<x>> # <<>>
    BY <1>1, SeqOfNone
<1> QED BY <1>1, <1>2, <1>3 DEF Holding, IsReg

-----------------------------------------------------------------------------
(* Counting the beats of a tag *)

\* The indices of a tag are finitely many.
LEMMA CntFinite ==
    ASSUME NEW s, NEW t, IsSeq(s)
    PROVE  IsFiniteSet({i \in DOMAIN s : s[i].tag = t}) /\ Cnt(s, t) \in Nat
<1> DEFINE A == {i \in DOMAIN s : s[i].tag = t}
<1>1. Len(s) \in Nat /\ DOMAIN s = 1 .. Len(s)
    BY SeqLen
<1>2. IsFiniteSet(1 .. Len(s))
    BY <1>1, FS_Interval
<1>3. A \in SUBSET (1 .. Len(s))
    BY <1>1
<1> HIDE DEF A
<1>4. IsFiniteSet(A) /\ Cardinality(A) \in Nat
    BY <1>2, <1>3, FS_Subset, FS_CardinalityType
<1> QED BY <1>4 DEF A, Cnt

\* As many on each side of a one-to-one map.
LEMMA Shifted ==
    ASSUME NEW A \in SUBSET Nat, IsFiniteSet(A), NEW m \in Nat
    PROVE  IsFiniteSet({i + m : i \in A}) /\ Cardinality({i + m : i \in A}) = Cardinality(A)
<1> DEFINE B == {i + m : i \in A}
           f == [i \in A |-> i + m]
<1>1. f \in Bijection(A, B)
    <2>1. f \in [A -> B]
        OBVIOUS
    <2>2. \A x, y \in A : f[x] = f[y] => x = y
        OBVIOUS
    <2>3. \A y \in B : \E x \in A : f[x] = y
        OBVIOUS
    <2> HIDE DEF f, B
    <2> QED BY <2>1, <2>2, <2>3 DEF Bijection, Injection, Surjection, IsInjective
<1>2. ExistsBijection(A, B)
    BY <1>1 DEF ExistsBijection
<1> HIDE DEF B
<1>3. IsFiniteSet(B) /\ Cardinality(B) = Cardinality(A)
    BY <1>2, FS_Bijection
<1> QED BY <1>3 DEF B

\* One sequence behind the other has the beats of both.
LEMMA CntConcat ==
    ASSUME NEW s, NEW u, NEW t, IsSeq(s), IsSeq(u)
    PROVE  Cnt(s \o u, t) = Cnt(s, t) + Cnt(u, t)
<1> DEFINE A == {i \in DOMAIN s : s[i].tag = t}
           B == {i \in DOMAIN u : u[i].tag = t}
           C == {i + Len(s) : i \in B}
           D == {i \in DOMAIN (s \o u) : (s \o u)[i].tag = t}
<1>1. /\ Len(s) \in Nat /\ DOMAIN s = 1 .. Len(s)
      /\ Len(u) \in Nat /\ DOMAIN u = 1 .. Len(u)
    BY SeqLen
<1>2. /\ IsSeq(s \o u) /\ Len(s \o u) = Len(s) + Len(u)
      /\ \A i \in 1 .. Len(s) + Len(u) : (s \o u)[i] = IF i <= Len(s) THEN s[i] ELSE u[i - Len(s)]
    BY SeqConcat
<1>3. DOMAIN (s \o u) = 1 .. Len(s) + Len(u)
    BY <1>2, SeqLen
<1>4. D = A \cup C
    <2>1. ASSUME NEW i \in D PROVE i \in A \cup C
        <3>1. i \in 1 .. Len(s) + Len(u) /\ (s \o u)[i].tag = t
            BY <2>1, <1>3
        <3>2. CASE i <= Len(s)
            <4>1. (s \o u)[i] = s[i] /\ i \in DOMAIN s
                BY <1>1, <1>2, <3>1, <3>2
            <4> QED BY <3>1, <4>1
        <3>3. CASE i > Len(s)
            <4>1. (s \o u)[i] = u[i - Len(s)] /\ i - Len(s) \in DOMAIN u /\ i = (i - Len(s)) + Len(s)
                BY <1>1, <1>2, <3>1, <3>3
            <4>2. i - Len(s) \in B
                BY <3>1, <4>1
            <4> QED BY <4>1, <4>2
        <3> QED BY <1>1, <3>1, <3>2, <3>3
    <2>2. ASSUME NEW i \in A PROVE i \in D
        <3>1. i \in 1 .. Len(s) + Len(u) /\ i <= Len(s) /\ s[i].tag = t
            BY <1>1, <2>2
        <3>2. (s \o u)[i] = s[i]
            BY <1>2, <3>1
        <3> QED BY <1>3, <3>1, <3>2
    <2>3. ASSUME NEW i \in C PROVE i \in D
        <3>1. PICK j \in B : i = j + Len(s)
            BY <2>3
        <3>2. j \in 1 .. Len(u) /\ u[j].tag = t
            BY <1>1, <3>1
        <3>3. i \in 1 .. Len(s) + Len(u) /\ ~(i <= Len(s)) /\ i - Len(s) = j
            BY <1>1, <3>1, <3>2
        <3>4. (s \o u)[i] = u[j]
            BY <1>2, <3>3
        <3> QED BY <1>3, <3>2, <3>3, <3>4
    <2> QED BY <2>1, <2>2, <2>3
<1>5. IsFiniteSet(A) /\ IsFiniteSet(B)
    BY CntFinite
<1>6. B \in SUBSET Nat /\ A \cap C = {}
    BY <1>1
<1>7. IsFiniteSet(C) /\ Cardinality(C) = Cardinality(B)
    <2> HIDE DEF B
    <2> QED BY <1>1, <1>5, <1>6, Shifted
<1> HIDE DEF A, B, C, D
<1>8. Cardinality(A) \in Nat /\ Cardinality(B) \in Nat
    BY <1>5, FS_CardinalityType
<1>9. Cardinality(A \cup C) = Cardinality(A) + Cardinality(C) - Cardinality({})
    BY <1>5, <1>6, <1>7, FS_Union
<1>10. Cardinality(D) = Cardinality(A) + Cardinality(B)
    BY <1>4, <1>7, <1>8, <1>9, FS_EmptySet
<1> QED BY <1>10 DEF A, B, D, Cnt

\* A beat that leaves takes one from the count of its tag.
LEMMA CntTail ==
    ASSUME NEW s, NEW t, IsSeq(s), s # <<>>
    PROVE  Cnt(Tail(s), t) = Cnt(s, t) - (IF Head(s).tag = t THEN 1 ELSE 0)
<1> DEFINE h == <<Head(s)>>
<1>1. /\ IsSeq(Tail(s)) /\ Len(Tail(s)) = Len(s) - 1 /\ Head(s) = s[1]
      /\ \A i \in 1 .. Len(s) - 1 : Tail(s)[i] = s[i + 1]
    BY SeqTail
<1>2. IsSeq(h) /\ Len(h) = 1 /\ h[1] = Head(s) /\ DOMAIN h = {1}
    <2>1. IsSeq(h) /\ Len(h) = 1 /\ h[1] = Head(s)
        BY SeqOfOne DEF Holding, IsReg
    <2> QED BY <2>1, SeqLen
<1> HIDE DEF h
<1>3. s = h \o Tail(s)
    <2>1. /\ Len(s) \in Nat \ {0} /\ DOMAIN s = 1 .. Len(s)
        BY SeqLen
    <2>2. /\ IsSeq(h \o Tail(s)) /\ Len(h \o Tail(s)) = 1 + (Len(s) - 1)
          /\ \A i \in 1 .. 1 + (Len(s) - 1) :
                (h \o Tail(s))[i] = IF i <= 1 THEN h[i] ELSE Tail(s)[i - 1]
        <3>1. IsSeq(h) /\ IsSeq(Tail(s))
            BY <1>1, <1>2
        <3>2. /\ IsSeq(h \o Tail(s)) /\ Len(h \o Tail(s)) = Len(h) + Len(Tail(s))
              /\ \A i \in 1 .. Len(h) + Len(Tail(s)) :
                    (h \o Tail(s))[i] = IF i <= Len(h) THEN h[i] ELSE Tail(s)[i - Len(h)]
            BY <3>1, SeqConcat
        <3>3. Len(h) = 1 /\ Len(Tail(s)) = Len(s) - 1
            BY <1>1, <1>2
        <3> QED BY <3>2, <3>3
    <2>3. \A i \in 1 .. Len(s) : s[i] = (h \o Tail(s))[i]
        <3> SUFFICES ASSUME NEW i \in 1 .. Len(s) PROVE s[i] = (h \o Tail(s))[i]
            OBVIOUS
        <3>0. i \in 1 .. 1 + (Len(s) - 1)
            BY <2>1
        <3>1. CASE i = 1
            BY <1>1, <1>2, <2>2, <3>0, <3>1
        <3>2. CASE i # 1
            <4>1. i - 1 \in 1 .. Len(s) - 1 /\ (i - 1) + 1 = i /\ ~(i <= 1)
                BY <2>1, <3>2
            <4> QED BY <1>1, <2>2, <3>0, <4>1
        <3> QED BY <3>1, <3>2
    <2> DEFINE u == h \o Tail(s)
               S == {s[i] : i \in DOMAIN s} \cup {u[i] : i \in DOMAIN u}
    <2>4. s \in Seq(S) /\ u \in Seq(S)
        <3>1. s \in Seq({s[i] : i \in DOMAIN s}) /\ u \in Seq({u[i] : i \in DOMAIN u})
            BY <2>2 DEF IsSeq
        <3> QED BY <3>1, SeqMonotonic
    <2>5. Len(s) = Len(u) /\ \A i \in 1 .. Len(s) : s[i] = u[i]
        BY <2>1, <2>2, <2>3
    <2> HIDE DEF u, S
    <2>6. s = u
        BY <2>4, <2>5, SeqEqual
    <2> QED BY <2>6 DEF u
<1>4. Cnt(s, t) = Cnt(h, t) + Cnt(Tail(s), t)
    <2>1. IsSeq(h) /\ IsSeq(Tail(s))
        BY <1>1, <1>2
    <2>2. Cnt(h \o Tail(s), t) = Cnt(h, t) + Cnt(Tail(s), t)
        BY <2>1, CntConcat
    <2> QED BY <1>3, <2>2
<1>5. Cnt(h, t) = IF Head(s).tag = t THEN 1 ELSE 0
    <2>1. CASE Head(s).tag = t
        <3>1. {i \in DOMAIN h : h[i].tag = t} = {1}
            BY <1>2, <2>1
        <3> QED BY <2>1, <3>1, FS_Singleton DEF Cnt
    <2>2. CASE Head(s).tag # t
        <3>1. {i \in DOMAIN h : h[i].tag = t} = {}
            BY <1>2, <2>2
        <3> QED BY <2>2, <3>1, FS_EmptySet DEF Cnt
    <2> QED BY <2>1, <2>2
<1>6. Cnt(Tail(s), t) \in Nat
    BY <1>1, CntFinite
<1> QED BY <1>4, <1>5, <1>6

\* The beats of a request.
Burst(q) == [i \in 1 .. q.len |-> [tag |-> q.tag, addr |-> q.addr + (i - 1) * WB]]

\* ... have its tag.
LEMMA CntBurst ==
    ASSUME NEW q, q.len \in Nat, NEW t
    PROVE  IsSeq(Burst(q)) /\ Cnt(Burst(q), t) = IF q.tag = t THEN q.len ELSE 0
<1> DEFINE b == Burst(q)
           n == q.len
           S == {b[i] : i \in 1 .. n}
<1>1. n \in Nat
    OBVIOUS
<1>2. b \in [1 .. n -> S] /\ DOMAIN b = 1 .. n /\ \A i \in 1 .. n : b[i].tag = q.tag
    BY DEF Burst
<1> HIDE DEF b, n, S
<1>3. b \in Seq(S)
    BY <1>1, <1>2, SeqDef
<1>4. IsSeq(b)
    BY <1>3, SeqIn
<1>5. CASE q.tag = t
    <2>1. {i \in DOMAIN b : b[i].tag = t} = 1 .. n
        BY <1>2, <1>5
    <2>2. Cardinality(1 .. n) = IF 1 > n THEN 0 ELSE n - 1 + 1
        <3>1. 1 \in Int /\ n \in Int
            BY <1>1
        <3> QED BY <3>1, FS_Interval
    <2>3. Cardinality(1 .. n) = n
        BY <1>1, <2>2
    <2>4. Cnt(b, t) = n
        BY <2>1, <2>3 DEF Cnt
    <2> QED BY <1>4, <1>5, <2>4 DEF b, n
<1>6. CASE q.tag # t
    <2>1. {i \in DOMAIN b : b[i].tag = t} = {}
        BY <1>2, <1>6
    <2>2. Cnt(b, t) = 0
        BY <2>1, FS_EmptySet DEF Cnt
    <2> QED BY <1>4, <1>6, <2>2 DEF b
<1> QED BY <1>5, <1>6

\* No beat in nothing.
LEMMA CntNone ==
    ASSUME NEW t PROVE Cnt(<<>>, t) = 0
<1>1. {i \in DOMAIN <<>> : <<>>[i].tag = t} = {}
    BY SeqOfNone, SeqLen DEF IsReg
<1> QED BY <1>1, FS_EmptySet DEF Cnt

-----------------------------------------------------------------------------
(* A FIFO and its output register *)

\* Nothing is lost and nothing is made: what the two hold is what they held,
\* less what was taken, and what came in.
LEMMA FifoStep ==
    ASSUME NEW fifo, NEW reg, NEW pop \in BOOLEAN, NEW in,
           IsSeq(fifo), IsReg(reg), IsReg(in), pop => reg # Nothing
    PROVE  LET f == NextFifo(fifo, reg, pop, in)
               g == NextReg(fifo, reg, pop)
           IN  /\ IsSeq(f) /\ IsReg(g)
               /\ Len(f) + Len(g) = Len(fifo) + Len(reg) + Len(in) - (IF pop THEN 1 ELSE 0)
<1> DEFINE f == NextFifo(fifo, reg, pop, in)
           g == NextReg(fifo, reg, pop)
<1>1. /\ Len(fifo) \in Nat /\ Len(reg) \in 0 .. 1 /\ Len(in) \in Nat
      /\ reg = Nothing <=> Len(reg) = 0
      /\ IsSeq(in)
    <2>1. IsSeq(reg) /\ IsSeq(in) /\ Len(reg) <= 1
        BY DEF IsReg
    <2>2. /\ Len(fifo) \in Nat /\ Len(reg) \in Nat /\ Len(in) \in Nat
          /\ reg = <<>> <=> Len(reg) = 0
        BY <2>1, SeqLen
    <2> HIDE DEF f, g
    <2>3. Len(reg) \in 0 .. 1
        BY <2>1, <2>2
    <2>4. reg = Nothing <=> Len(reg) = 0
        BY <2>2 DEF Nothing
    <2> QED BY <2>1, <2>2, <2>3, <2>4
<1>2. CASE Refills(fifo, reg, pop)
    <2>1. fifo # <<>> /\ (reg = Nothing \/ pop)
        BY <1>2 DEF Refills
    <2>2. IsSeq(Tail(fifo)) /\ Len(Tail(fifo)) = Len(fifo) - 1
        BY <2>1, SeqTail
    <2>3. IsSeq(Tail(fifo) \o in) /\ Len(Tail(fifo) \o in) = Len(Tail(fifo)) + Len(in)
        BY <1>1, <2>2, SeqConcat
    <2>4. f = Tail(fifo) \o in /\ g = Holding(Head(fifo))
        BY <1>2 DEF NextFifo, NextReg
    <2>5. IsReg(Holding(Head(fifo))) /\ Len(Holding(Head(fifo))) = 1
        BY SeqOfOne
    <2>6. Len(reg) = IF pop THEN 1 ELSE 0
        BY <1>1, <2>1
    <2> HIDE DEF f, g
    <2>7. IsSeq(f) /\ IsReg(g) /\ Len(f) + Len(g) = Len(fifo) + Len(in)
        <3>1. IsSeq(f) /\ Len(f) = (Len(fifo) - 1) + Len(in)
            BY <2>2, <2>3, <2>4
        <3>2. IsReg(g) /\ Len(g) = 1
            BY <2>4, <2>5
        <3> QED BY <1>1, <3>1, <3>2
    <2>8. Len(f) + Len(g) = Len(fifo) + Len(reg) + Len(in) - (IF pop THEN 1 ELSE 0)
        BY <1>1, <2>6, <2>7
    <2> QED BY <2>7, <2>8 DEF f, g
<1>3. CASE ~Refills(fifo, reg, pop)
    <2>1. IsSeq(fifo \o in) /\ Len(fifo \o in) = Len(fifo) + Len(in)
        BY <1>1, SeqConcat
    <2>2. f = fifo \o in /\ g = IF pop THEN Nothing ELSE reg
        BY <1>3 DEF NextFifo, NextReg
    <2>3. IsReg(Nothing) /\ Len(Nothing) = 0
        BY SeqOfNone DEF Nothing
    <2> HIDE DEF f, g
    <2>4. IsSeq(f) /\ Len(f) = Len(fifo) + Len(in) /\ IsReg(g)
        BY <2>1, <2>2, <2>3
    <2>5. Len(g) = Len(reg) - (IF pop THEN 1 ELSE 0)
        BY <1>1, <2>2, <2>3
    <2>6. Len(f) + Len(g) = Len(fifo) + Len(reg) + Len(in) - (IF pop THEN 1 ELSE 0)
        BY <1>1, <2>4, <2>5
    <2> QED BY <2>4, <2>6 DEF f, g
<1> QED BY <1>2, <1>3

-----------------------------------------------------------------------------
(* One edge, part by part *)

\* Programs are sequences of jobs, and an issue leaves an extent in cmd.k.
LEMMA CmdStep ==
    ASSUME todo \in Seq(Jobs), cmd.k \in Nat,
           NEW pops \in BOOLEAN, NEW issue \in BOOLEAN, pops => todo # <<>>, issue => pops,
           DispatcherTick(pops, issue)
    PROVE  todo' \in Seq(Jobs) /\ cmd'.k \in Nat
<1>1. todo' = IF pops THEN Tail(todo) ELSE todo
    BY DEF DispatcherTick
<1>2. todo' \in Seq(Jobs)
    BY <1>1, HeadTailProperties
<1>3. cmd' = IF issue THEN Bundle(Head(todo).d, Head(todo).pos, Head(todo).tok, sreg) ELSE cmd
    BY DEF DispatcherTick
<1>4. CASE issue
    <2> DEFINE j == Head(todo)
    <2>1. j \in Jobs
        BY <1>4, HeadTailProperties
    <2>2. j.d.k \in Nat /\ j.pos \in Nat
        BY <2>1, UnitsAssumption DEF UnitsAssumption
    <2>3. 2 ^ KBits \in Nat \ {0}
        BY UnitIssueAssumption DEF UnitIssueAssumption
    <2>4. (j.pos + 1) % 2 ^ KBits \in Nat
        <3> DEFINE m == 2 ^ KBits
                   x == j.pos + 1
        <3>1. m \in Nat \ {0} /\ x \in Int
            BY <2>2, <2>3
        <3> HIDE DEF m, x
        <3>2. x % m \in 0 .. (m - 1)
            BY <3>1, ModType
        <3>3. x % m \in Nat
            BY <3>1, <3>2
        <3> QED BY <3>3 DEF m, x
    <2>5. KDec(j.d, j.pos) \in Nat
        BY <2>2, <2>4 DEF KDec
    <2>6. Bundle(j.d, j.pos, j.tok, sreg).k = KDec(j.d, j.pos)
        BY DEF Bundle
    <2> QED BY <1>2, <1>3, <1>4, <2>5, <2>6
<1>5. CASE ~issue
    BY <1>2, <1>3, <1>5
<1> QED BY <1>4, <1>5

\* The lengths a request may have.
LEMMA Bursts ==
    ASSUME GenTypes
    PROVE  WLen \in 0 .. gen.rem /\ MLen \in Nat /\ FifoBeats \in Nat /\ MetaFifoBeats \in Nat
<1>1. MaxBurst \in Nat /\ MetaBytes \in Nat /\ FifoBeats \in Nat /\ MetaFifoBeats \in Nat
    BY StreamCtrlAssumption, IsaAssumption DEF StreamCtrlAssumption, IsaAssumption
<1>2. WLen \in 0 .. gen.rem
    BY <1>1 DEF WLen, Min2, GenTypes
<1>3. MLen \in Nat
    BY <1>1 DEF MLen, MetaBeats
<1> QED BY <1>1, <1>2, <1>3

\* The request generator keeps to its states.
LEMMA GenStep ==
    ASSUME GenTypes, cmd.k \in Nat, cmd'.k \in Nat, NEW issue \in BOOLEAN, NEW sReady,
           RequestTick(issue, sReady)
    PROVE  GenTypes'
<1>1. gen' = IF issue THEN Begin(cmd')
             ELSE IF gen.st = "MUL" THEN MulStep
             ELSE IF LoadW(sReady) THEN WStep
             ELSE IF LoadM(sReady) THEN MStep ELSE gen
    BY DEF RequestTick
<1>2. /\ {"st", "rem"} \subseteq DOMAIN gen
      /\ gen.st \in {"IDLE", "MUL", "W", "M"} /\ gen.rem \in Nat
    BY DEF GenTypes
<1> DEFINE Good(g) == /\ {"st", "rem"} \subseteq DOMAIN g
                      /\ g.st \in {"IDLE", "MUL", "W", "M"} /\ g.rem \in Nat
<1>3. Good(Begin(cmd'))
    <2> DEFINE b == Begin(cmd')
    <2>1. DOMAIN b = {"st", "tile", "addr", "base", "rem", "i", "maddr", "m", "b"}
        BY DEF Begin
    <2>2. b.rem = cmd'.k
        BY DEF Begin
    <2>3. b.st \in {"IDLE", "MUL", "W"}
        BY DEF Begin
    <2> HIDE DEF b
    <2> QED BY <2>1, <2>2, <2>3 DEF b
<1>4. Good(MulStep)
    <2>1. DOMAIN MulStep = DOMAIN gen
        BY DEF MulStep
    <2>2. MulStep.st \in {gen.st, "M"}
        BY <1>2 DEF MulStep
    <2>3. MulStep.rem = gen.rem
        BY <1>2 DEF MulStep
    <2> QED BY <1>2, <2>1, <2>2, <2>3
<1>5. Good(NextTile)
    <2>1. DOMAIN NextTile = DOMAIN gen
        BY DEF NextTile
    <2>2. NextTile.st \in {"IDLE", "W"}
        BY <1>2 DEF NextTile
    <2>3. NextTile.rem \in {gen.rem, cmd.k}
        BY <1>2 DEF NextTile
    <2> QED BY <1>2, <2>1, <2>2, <2>3
<1>6. Good(WStep)
    <2>1. WLen \in 0 .. gen.rem
        BY Bursts
    <2> DEFINE g == [gen EXCEPT !.addr = @ + WLen * WB, !.rem = @ - WLen,
                                !.st = IF gen.rem = WLen THEN "M" ELSE @]
    <2>2. WStep \in {NextTile, g}
        BY DEF WStep
    <2>3. DOMAIN g = DOMAIN gen
        OBVIOUS
    <2>4. g.rem = gen.rem - WLen
        BY <1>2
    <2>5. g.st \in {gen.st, "M"}
        BY <1>2
    <2> HIDE DEF g
    <2>6. Good(g)
        BY <1>2, <2>1, <2>3, <2>4, <2>5
    <2> HIDE DEF Good
    <2> QED BY <1>5, <2>2, <2>6
<1>7. Good(MStep)
    <2> DEFINE g == [gen EXCEPT !.st = "W"]
    <2>1. MStep \in {NextTile, g}
        BY DEF MStep
    <2>2. Good(g)
        BY <1>2
    <2> HIDE DEF g, Good
    <2> QED BY <1>5, <2>1, <2>2
<1>8. Good(gen)
    BY <1>2
<1> HIDE DEF Good
<1>9. Good(gen')
    BY <1>1, <1>3, <1>4, <1>6, <1>7, <1>8
<1> QED BY <1>9 DEF Good, GenTypes

\* The beats of the request register with tag t.
Asked(t) == IF sReq # Nothing /\ sReq[1].tag = t THEN sReq[1].len ELSE 0

\* What a load asks for; there is none at an issue.
Loads(sReady, t) ==
    CASE t = "w" /\ LoadW(sReady) -> WLen
      [] t = "m" /\ LoadM(sReady) -> MLen
      [] OTHER -> 0

\* The request register: what is taken leaves it, what is loaded enters it.
LEMMA ReqStep ==
    ASSUME GenTypes, ReqTypes, NEW issue \in BOOLEAN, NEW sReady \in BOOLEAN,
           issue => sReq = Nothing /\ gen.st = "IDLE",
           sReady => sReq # Nothing,
           RequestTick(issue, sReady)
    PROVE  /\ ReqTypes'
           /\ \A t \in {"w", "m"} :
                Asked(t)' = Loads(sReady, t) + (IF sReady THEN 0 ELSE Asked(t))
<1>1. sReq' = IF issue THEN sReq
              ELSE IF LoadW(sReady) THEN Holding([tag |-> "w", addr |-> gen.addr, len |-> WLen])
              ELSE IF LoadM(sReady) THEN Holding([tag |-> "m", addr |-> gen.maddr, len |-> MLen])
              ELSE IF ReqSlot(sReady) THEN Nothing ELSE sReq
    BY DEF RequestTick
<1>2. WLen \in Nat /\ MLen \in Nat
    BY Bursts DEF GenTypes
<1>3. IsReg(Nothing)
    BY SeqOfNone DEF Nothing
<1>4. \A t \in {"w", "m"} : Asked(t) \in Nat
    BY DEF Asked, ReqTypes
<1>5. CASE issue \/ (~LoadW(sReady) /\ ~LoadM(sReady))
    <2>1. \A t \in {"w", "m"} : Loads(sReady, t) = 0
        BY <1>5 DEF Loads, LoadW, LoadM
    <2>2. CASE sReq' = sReq /\ ~sReady
        BY <1>4, <2>1, <2>2 DEF Asked, ReqTypes
    <2>3. CASE sReq' = Nothing /\ (sReady \/ sReq = Nothing)
        <3>1. \A t \in {"w", "m"} : Asked(t)' = 0 /\ (~sReady => Asked(t) = 0)
            BY <2>3 DEF Asked
        <3> QED BY <1>3, <2>1, <2>3, <3>1 DEF ReqTypes
    <2> QED BY <1>1, <1>5, <2>2, <2>3 DEF ReqSlot
<1>6. CASE ~issue /\ LoadW(sReady)
    <2> DEFINE r == [tag |-> "w", addr |-> gen.addr, len |-> WLen]
    <2>1. sReq' = Holding(r) /\ r.tag = "w" /\ r.len = WLen
        BY <1>1, <1>6
    <2> HIDE DEF r
    <2>2. IsReg(Holding(r)) /\ Holding(r) # <<>> /\ Holding(r)[1] = r
        BY SeqOfOne
    <2>3. ReqTypes'
        BY <1>2, <2>1, <2>2 DEF ReqTypes
    <2>4. Asked("w")' = WLen /\ Asked("m")' = 0
        BY <2>1, <2>2 DEF Asked, Nothing
    <2>5. Loads(sReady, "w") = WLen /\ Loads(sReady, "m") = 0
        BY <1>6 DEF Loads, LoadW, LoadM
    <2>6. ~sReady => Asked("w") = 0 /\ Asked("m") = 0
        BY <1>6 DEF LoadW, ReqSlot, Asked
    <2> QED BY <1>2, <2>3, <2>4, <2>5, <2>6
<1>7. CASE ~issue /\ ~LoadW(sReady) /\ LoadM(sReady)
    <2> DEFINE r == [tag |-> "m", addr |-> gen.maddr, len |-> MLen]
    <2>1. sReq' = Holding(r) /\ r.tag = "m" /\ r.len = MLen
        BY <1>1, <1>7
    <2> HIDE DEF r
    <2>2. IsReg(Holding(r)) /\ Holding(r) # <<>> /\ Holding(r)[1] = r
        BY SeqOfOne
    <2>3. ReqTypes'
        BY <1>2, <2>1, <2>2 DEF ReqTypes
    <2>4. Asked("m")' = MLen /\ Asked("w")' = 0
        BY <2>1, <2>2 DEF Asked, Nothing
    <2>5. Loads(sReady, "m") = MLen /\ Loads(sReady, "w") = 0
        BY <1>7 DEF Loads, LoadW, LoadM
    <2>6. ~sReady => Asked("w") = 0 /\ Asked("m") = 0
        BY <1>7 DEF LoadM, ReqSlot, Asked
    <2> QED BY <1>2, <2>3, <2>4, <2>5, <2>6
<1> QED BY <1>5, <1>6, <1>7

\* A beat that memory answers with, of tag t.
Back(answers, t) == IF answers /\ Head(due).tag = t THEN 1 ELSE 0

\* The beat that returns is one, and in the register of its tag.
LEMMA Answer ==
    ASSUME NEW answers, NEW t
    PROVE  IsReg(Returned(answers, t)) /\ Len(Returned(answers, t)) = Back(answers, t)
<1>1. CASE answers /\ Head(due).tag = t
    <2>1. Returned(answers, t) = Holding(BeatAt(Head(due)))
        BY <1>1 DEF Returned
    <2>2. IsReg(Holding(BeatAt(Head(due)))) /\ Len(Holding(BeatAt(Head(due)))) = 1
        BY SeqOfOne
    <2>3. Back(answers, t) = 1
        BY <1>1 DEF Back
    <2> QED BY <2>1, <2>2, <2>3
<1>2. CASE ~(answers /\ Head(due).tag = t)
    <2>1. Returned(answers, t) = Nothing
        BY <1>2 DEF Returned
    <2>2. Back(answers, t) = 0
        BY <1>2 DEF Back
    <2> QED BY <2>1, <2>2, SeqOfNone DEF Nothing
<1> QED BY <1>1, <1>2

\* What memory owes: the beats of a request taken, less the beat answered.
LEMMA DueStep ==
    ASSUME IsSeq(due), ReqTypes, NEW sReady \in BOOLEAN, NEW answers \in BOOLEAN,
           sReady => sReq # Nothing, answers => due # <<>>,
           MemoryTick(sReady, answers), NEW t
    PROVE  /\ IsSeq(due')
           /\ Cnt(due', t) = Cnt(due, t) - Back(answers, t) + (IF sReady THEN Asked(t) ELSE 0)
<1> DEFINE rest == IF answers THEN Tail(due) ELSE due
           new  == IF sReady THEN Burst(sReq[1]) ELSE <<>>
<1>1. due' = rest \o new
    BY DEF MemoryTick, Burst
<1>2. IsSeq(rest) /\ Cnt(rest, t) = Cnt(due, t) - Back(answers, t)
    <2>1. CASE answers
        <3>1. IsSeq(Tail(due)) /\ Cnt(Tail(due), t) = Cnt(due, t) - (IF Head(due).tag = t THEN 1 ELSE 0)
            BY <2>1, SeqTail, CntTail
        <3> QED BY <2>1, <3>1 DEF Back
    <2>2. CASE ~answers
        <3>1. Cnt(due, t) \in Nat
            BY CntFinite
        <3> QED BY <2>2, <3>1 DEF Back
    <2> QED BY <2>1, <2>2
<1>3. IsSeq(new) /\ Cnt(new, t) = IF sReady THEN Asked(t) ELSE 0
    <2>1. CASE sReady
        <3>1. sReq # Nothing /\ sReq[1].len \in Nat
            BY <2>1 DEF ReqTypes
        <3>2. /\ IsSeq(Burst(sReq[1]))
              /\ Cnt(Burst(sReq[1]), t) = IF sReq[1].tag = t THEN sReq[1].len ELSE 0
            BY <3>1, CntBurst
        <3> QED BY <2>1, <3>1, <3>2 DEF Asked
    <2>2. CASE ~sReady
        <3>1. IsSeq(<<>>)
            BY SeqOfNone DEF IsReg
        <3>2. new = <<>>
            BY <2>2
        <3> QED BY <2>2, <3>1, <3>2, CntNone
    <2> QED BY <2>1, <2>2
<1> HIDE DEF rest, new
<1>4. IsSeq(rest \o new) /\ Cnt(rest \o new, t) = Cnt(rest, t) + Cnt(new, t)
    BY <1>2, <1>3, SeqConcat, CntConcat
<1> QED BY <1>1, <1>2, <1>3, <1>4

\* A tag is owed what is due and what is asked for.
LEMMA OwedIs ==
    ASSUME NEW t
    PROVE  Owed(t) = Cnt(due, t) + Asked(t)
BY DEF Owed, Cnt, Asked

\* ... and of it, at an edge, what is loaded comes and the beat that returns goes.
LEMMA OwedStep ==
    ASSUME GenTypes, ReqTypes, IsSeq(due),
           NEW issue \in BOOLEAN, NEW sReady \in BOOLEAN, NEW answers \in BOOLEAN,
           issue => sReq = Nothing /\ gen.st = "IDLE",
           sReady => sReq # Nothing, answers => due # <<>>,
           RequestTick(issue, sReady), MemoryTick(sReady, answers),
           NEW t \in {"w", "m"}
    PROVE  Owed(t)' = Owed(t) - Back(answers, t) + Loads(sReady, t)
<1>1. Cnt(due', t) = Cnt(due, t) - Back(answers, t) + (IF sReady THEN Asked(t) ELSE 0)
    BY DueStep
<1>2. Asked(t)' = Loads(sReady, t) + (IF sReady THEN 0 ELSE Asked(t))
    BY ReqStep
<1>3. Owed(t)' = Cnt(due', t) + Asked(t)'
    BY DEF Owed, Cnt, Asked
<1>4. Owed(t) = Cnt(due, t) + Asked(t)
    BY OwedIs
<1>5. Asked(t) \in Nat
    BY DEF Asked, ReqTypes
<1>6. Cnt(due, t) \in Nat
    BY CntFinite
<1>7. Back(answers, t) \in Nat
    BY DEF Back
<1>8. Loads(sReady, t) \in Nat
    <2>1. WLen \in Nat /\ MLen \in Nat
        BY Bursts DEF GenTypes
    <2> QED BY <2>1 DEF Loads
<1> QED BY <1>1, <1>2, <1>3, <1>4, <1>5, <1>6, <1>7, <1>8

\* The space of a FIFO: a load fits what is free of it, a beat that returns
\* takes the place that was kept for it.
LEMMA WeightSpace ==
    ASSUME GenTypes, IsSeq(wmem), IsReg(wo), wOut \in Nat,
           Len(wmem) + Len(wo) + wOut <= FifoBeats,
           NEW issue, NEW sReady, NEW rdw, NEW rdm, NEW ready \in BOOLEAN, IsReg(rdw), Len(rdw) <= wOut,
           OutTick(sReady, rdw, rdm), WeightTick(issue, rdw, ready)
    PROVE  /\ IsSeq(wmem') /\ IsReg(wo')
           /\ wOut' = wOut + Loads(sReady, "w") - Len(rdw)
           /\ Len(wmem') + Len(wo') <= Len(wmem) + Len(wo) + Len(rdw)
           /\ Len(wmem') + Len(wo') + wOut' <= FifoBeats
<1> DEFINE pop == WPop(ready)
           in  == Arriving(rdw)
<1>1. wmem' = NextFifo(wmem, wo, pop, in) /\ wo' = NextReg(wmem, wo, pop)
    BY DEF WeightTick
<1>2. pop \in BOOLEAN /\ (pop => wo # Nothing)
    BY DEF WPop
<1>3. Len(wmem) \in Nat /\ Len(wo) \in Nat /\ Len(rdw) \in Nat
    BY SeqLen DEF IsReg
<1>4. IsReg(in) /\ Len(in) \in Nat /\ Len(in) <= Len(rdw)
    <2>1. CASE in = rdw
        BY <1>3, <2>1
    <2>2. CASE in = Nothing
        BY <1>3, <2>2, SeqOfNone DEF Nothing
    <2>3. CASE rdw # Nothing /\ in = Holding(Gathered(rdw))
        <3>1. IsReg(in) /\ Len(in) = 1
            <4> HIDE DEF in
            <4> QED BY <2>3, SeqOfOne
        <3>2. Len(rdw) # 0
            BY <2>3, SeqLen DEF IsReg, Nothing
        <3> QED BY <1>3, <3>1, <3>2
    <2> QED BY <2>1, <2>2, <2>3 DEF Arriving
<1> HIDE DEF pop, in
<1>5. /\ IsSeq(wmem') /\ IsReg(wo')
      /\ Len(wmem') + Len(wo') = Len(wmem) + Len(wo) + Len(in) - (IF pop THEN 1 ELSE 0)
    BY <1>1, <1>2, <1>4, FifoStep
<1>6. Len(wmem') + Len(wo') <= Len(wmem) + Len(wo) + Len(rdw)
    BY <1>2, <1>3, <1>4, <1>5
<1>7. wOut' = wOut + Loads(sReady, "w") - Len(rdw)
    BY DEF OutTick, Loads
<1>8. Len(wmem') \in Nat /\ Len(wo') \in Nat
    BY <1>5, SeqLen DEF IsReg
<1>9. Loads(sReady, "w") \in Nat /\ Len(wmem) + Len(wo) + wOut + Loads(sReady, "w") <= FifoBeats
    <2>1. WLen \in Nat /\ FifoBeats \in Nat
        BY Bursts DEF GenTypes
    <2>2. CASE LoadW(sReady)
        <3>1. WFree >= WLen
            BY <2>2 DEF LoadW
        <3>2. Loads(sReady, "w") = WLen
            BY <2>2 DEF Loads
        <3> QED BY <1>3, <2>1, <3>1, <3>2 DEF WFree
    <2>3. CASE ~LoadW(sReady)
        <3>1. Loads(sReady, "w") = 0
            BY <2>3 DEF Loads
        <3> QED BY <1>3, <2>1, <3>1
    <2> QED BY <2>2, <2>3
<1>10. FifoBeats \in Nat
    BY Bursts
<1>11. Len(wmem') + Len(wo') + wOut' <= FifoBeats
    BY <1>3, <1>6, <1>7, <1>8, <1>9, <1>10
<1> QED BY <1>5, <1>6, <1>7, <1>11

LEMMA MetaSpace ==
    ASSUME GenTypes, IsSeq(mmem), IsReg(mo), mOut \in Nat,
           Len(mmem) + Len(mo) + mOut <= MetaFifoBeats,
           NEW issue, NEW sReady, NEW rdw, NEW rdm, NEW ready \in BOOLEAN, IsReg(rdm), Len(rdm) <= mOut,
           OutTick(sReady, rdw, rdm), MetaTick(issue, rdm, ready)
    PROVE  /\ IsSeq(mmem') /\ IsReg(mo')
           /\ mOut' = mOut + Loads(sReady, "m") - Len(rdm)
           /\ Len(mmem') + Len(mo') <= Len(mmem) + Len(mo) + Len(rdm)
           /\ Len(mmem') + Len(mo') + mOut' <= MetaFifoBeats
<1> DEFINE pop == MsNextBeat(ready)
<1>1. mmem' = NextFifo(mmem, mo, pop, rdm) /\ mo' = NextReg(mmem, mo, pop)
    BY DEF MetaTick
<1>2. pop \in BOOLEAN /\ (pop => mo # Nothing)
    BY DEF MsNextBeat, MsTake, MsSkip, MetaValid
<1>3. Len(mmem) \in Nat /\ Len(mo) \in Nat /\ Len(rdm) \in Nat
    BY SeqLen DEF IsReg
<1> HIDE DEF pop
<1>5. /\ IsSeq(mmem') /\ IsReg(mo')
      /\ Len(mmem') + Len(mo') = Len(mmem) + Len(mo) + Len(rdm) - (IF pop THEN 1 ELSE 0)
    BY <1>1, <1>2, FifoStep
<1>6. Len(mmem') + Len(mo') <= Len(mmem) + Len(mo) + Len(rdm)
    BY <1>2, <1>3, <1>5
<1>7. mOut' = mOut + Loads(sReady, "m") - Len(rdm)
    BY DEF OutTick, Loads
<1>8. Len(mmem') \in Nat /\ Len(mo') \in Nat
    BY <1>5, SeqLen DEF IsReg
<1>9. Loads(sReady, "m") \in Nat /\ Len(mmem) + Len(mo) + mOut + Loads(sReady, "m") <= MetaFifoBeats
    <2>1. MLen \in Nat /\ MetaFifoBeats \in Nat
        BY Bursts
    <2>2. CASE LoadM(sReady)
        <3>1. MFree >= MLen
            BY <2>2 DEF LoadM
        <3>2. Loads(sReady, "m") = MLen
            BY <2>2 DEF Loads
        <3> QED BY <1>3, <2>1, <3>1, <3>2 DEF MFree
    <2>3. CASE ~LoadM(sReady)
        <3>1. Loads(sReady, "m") = 0
            BY <2>3 DEF Loads
        <3> QED BY <1>3, <2>1, <3>1
    <2> QED BY <2>2, <2>3
<1>10. MetaFifoBeats \in Nat
    BY Bursts
<1>11. Len(mmem') + Len(mo') + mOut' <= MetaFifoBeats
    BY <1>3, <1>6, <1>7, <1>8, <1>9, <1>10
<1> QED BY <1>5, <1>6, <1>7, <1>11

\* The ring of a row: a read of port A has a slot when its word comes.
LEMMA RingSpace ==
    ASSUME RowTypes, NEW r \in Rows, Len(row[r].ring) + Len(row[r].pend) <= RingWords,
           NEW ws, NEW wsValid, NEW accReady, NEW w
    PROVE  LET en == En(r, wsValid, ws, accReady)
               new == RingNext(r, ws, en, w)
           IN  /\ DOMAIN new = DOMAIN row[r]
               /\ IsSeq(new.ring) /\ IsReg(new.pend)
               /\ Len(new.ring) + Len(new.pend) <= RingWords
<1> DEFINE en  == En(r, wsValid, ws, accReady)
           new == RingNext(r, ws, en, w)
           pop == en /\ ~IsEmbed /\ (Slot(ws) = WordElems - 1 \/ ws.end)
           end == en /\ ws.last
           old == row[r].ring
           kept == IF pop THEN Tail(old) ELSE old
           pend == row[r].pend
           reads == DoIssue(r)
<1>1. {"ring", "pend"} \subseteq DOMAIN row[r] /\ IsSeq(old) /\ IsReg(pend)
    BY DEF RowTypes
<1>2. /\ DOMAIN new = DOMAIN row[r]
      /\ new.ring = IF end THEN <<>> ELSE kept \o pend
      /\ new.pend = IF reads /\ ~end THEN Holding(w) ELSE Nothing
    BY <1>1 DEF RingNext
<1>3. pop => old # <<>>
    BY DEF En, WsReady
<1>4. reads => Len(old) + Len(pend) < RingWords
    BY DEF DoIssue
<1>5. RingWords \in Nat /\ Len(old) + Len(pend) <= RingWords
    BY GemvRowAssumption DEF GemvRowAssumption
<1> HIDE DEF en, new, pop, end, old, pend, reads
<1>6. IsSeq(pend) /\ Len(pend) \in Nat /\ Len(old) \in Nat
    BY <1>1, SeqLen DEF IsReg
<1>7. IsSeq(kept) /\ Len(kept) \in Nat /\ Len(kept) <= Len(old)
    <2>1. CASE pop
        <3>1. IsSeq(Tail(old)) /\ Len(Tail(old)) = Len(old) - 1
            BY <1>1, <1>3, <2>1, SeqTail
        <3>2. Len(Tail(old)) \in Nat
            BY <3>1, SeqLen
        <3> QED BY <1>6, <2>1, <3>1, <3>2
    <2>2. CASE ~pop
        BY <1>1, <1>6, <2>2
    <2> QED BY <2>1, <2>2
<1> HIDE DEF kept
<1>8. IsSeq(kept \o pend) /\ Len(kept \o pend) = Len(kept) + Len(pend)
    BY <1>6, <1>7, SeqConcat
<1>9. IsReg(<<>>) /\ IsSeq(<<>>) /\ Len(<<>>) = 0
    BY SeqOfNone DEF IsReg
<1>10. IsReg(Holding(w)) /\ Len(Holding(w)) = 1
    BY SeqOfOne
<1>11. IsSeq(new.ring) /\ Len(new.ring) \in Nat /\ Len(new.ring) <= Len(old) + Len(pend)
    BY <1>2, <1>6, <1>7, <1>8, <1>9
<1>12. IsReg(new.pend) /\ Len(new.pend) = IF reads /\ ~end THEN 1 ELSE 0
    BY <1>2, <1>9, <1>10 DEF Nothing
<1>13. Len(new.ring) + Len(new.pend) <= RingWords
    <2>1. Len(old) + Len(pend) \in Nat
        BY <1>6
    <2>2. Len(old) + Len(pend) <= RingWords
        BY <1>5
    <2>3. CASE reads /\ ~end
        <3>1. Len(new.pend) = 1 /\ Len(old) + Len(pend) < RingWords
            BY <1>4, <1>12, <2>3
        <3> QED BY <1>5, <1>11, <2>1, <3>1
    <2>4. CASE ~(reads /\ ~end)
        <3>1. Len(new.pend) = 0
            BY <1>12, <2>4
        <3> QED BY <1>5, <1>11, <2>1, <2>2, <3>1
    <2> QED BY <2>3, <2>4
<1> QED BY <1>2, <1>11, <1>12, <1>13 DEF new, en

\* The rows at an edge.
LEMMA RowsStep ==
    ASSUME RowTypes, \A r \in Rows : Len(row[r].ring) + Len(row[r].pend) <= RingWords,
           NEW issue \in BOOLEAN, NEW wsValid, NEW ws, NEW accReady, NEW words,
           RowTick(issue, wsValid, ws, accReady, words)
    PROVE  RowTypes' /\ \A r \in Rows : Len(row'[r].ring) + Len(row'[r].pend) <= RingWords
<1> DEFINE Good(x) == /\ {"ring", "pend"} \subseteq DOMAIN x
                      /\ IsSeq(x.ring) /\ IsReg(x.pend)
                      /\ Len(x.ring) + Len(x.pend) <= RingWords
           E(r) == En(r, wsValid, ws, accReady)
           A(r) == RingNext(r, ws, E(r), words[r])
           B(r) == LanesNext(r, ws, E(r), A(r))
           C(r) == HandoffNext(r, ws, E(r), accReady, B(r))
           I(r) == [row[r] EXCEPT !.active = r \in cmd'.rows /\ cmd'.k # 0, !.ring = <<>>, !.pend = Nothing,
                                  !.fword = cmd'.vs_src \div WordElems]
<1>1. row' = [r \in Rows |-> IF issue THEN I(r) ELSE C(r)]
    BY DEF RowTick
<1>2. ASSUME NEW r \in Rows PROVE Good(I(r))
    <2>1. {"ring", "pend"} \subseteq DOMAIN row[r]
        BY DEF RowTypes
    <2>2. DOMAIN I(r) = DOMAIN row[r] /\ I(r).ring = <<>> /\ I(r).pend = <<>>
        BY <2>1 DEF Nothing
    <2>3. IsReg(<<>>) /\ IsSeq(<<>>) /\ Len(<<>>) = 0
        BY SeqOfNone DEF IsReg
    <2>4. RingWords \in Nat
        BY GemvRowAssumption DEF GemvRowAssumption
    <2> HIDE DEF I
    <2> QED BY <2>1, <2>2, <2>3, <2>4
<1>3. ASSUME NEW r \in Rows PROVE Good(C(r))
    <2>1. /\ DOMAIN A(r) = DOMAIN row[r] /\ IsSeq(A(r).ring) /\ IsReg(A(r).pend)
          /\ Len(A(r).ring) + Len(A(r).pend) <= RingWords
        BY RingSpace
    <2>2. {"ring", "pend"} \subseteq DOMAIN row[r]
        BY DEF RowTypes
    <2> HIDE DEF A, E
    <2>3. DOMAIN B(r) = DOMAIN A(r) /\ B(r).ring = A(r).ring /\ B(r).pend = A(r).pend
        BY <2>1, <2>2 DEF LanesNext
    <2> HIDE DEF B
    <2>4. DOMAIN C(r) = DOMAIN B(r) /\ C(r).ring = B(r).ring /\ C(r).pend = B(r).pend
        BY <2>1, <2>2, <2>3 DEF HandoffNext
    <2> HIDE DEF C
    <2> QED BY <2>1, <2>2, <2>3, <2>4
<1> HIDE DEF Good, I, C
<1>4. row' = [r \in Rows |-> row'[r]] /\ \A r \in Rows : Good(row'[r])
    BY <1>1, <1>2, <1>3
<1> QED BY <1>4 DEF Good, RowTypes

\* A beat that returns was owed.
LEMMA BackIsOwed ==
    ASSUME IsSeq(due), ReqTypes, NEW answers \in BOOLEAN, answers => due # <<>>, NEW t
    PROVE  Owed(t) \in Nat /\ Back(answers, t) \in 0 .. 1 /\ Back(answers, t) <= Owed(t)
<1>1. Owed(t) = Cnt(due, t) + Asked(t)
    BY OwedIs
<1>2. Asked(t) \in Nat
    BY DEF Asked, ReqTypes
<1>3. Cnt(due, t) \in Nat
    BY CntFinite
<1>4. CASE answers
    <2>1. IsSeq(Tail(due)) /\ Cnt(Tail(due), t) = Cnt(due, t) - (IF Head(due).tag = t THEN 1 ELSE 0)
        BY <1>4, SeqTail, CntTail
    <2>2. Cnt(Tail(due), t) \in Nat
        BY <2>1, CntFinite
    <2> QED BY <1>1, <1>2, <1>3, <1>4, <2>1, <2>2 DEF Back
<1>5. CASE ~answers
    BY <1>1, <1>2, <1>3, <1>5 DEF Back
<1> QED BY <1>4, <1>5

-----------------------------------------------------------------------------
(* The invariant *)

\* The programs begin with the FIFOs and the rings empty.
LEMMA SpaceInit == Init => SpaceInv
<1> SUFFICES ASSUME Init PROVE SpaceInv
    OBVIOUS
<1>1. todo \in Seq(Jobs)
    BY UnitsAssumption DEF UnitsAssumption, Init
<1>2. cmd.k \in Nat
    <2>1. cmd = Bundle(Default, 0, 0, sreg)
        BY DEF Init
    <2>2. KDec(Default, 0) = 0
        BY DEF KDec, Default
    <2>3. cmd.k = KDec(Default, 0)
        BY <2>1 DEF Bundle
    <2> QED BY <2>2, <2>3
<1>3. IsReg(<<>>) /\ IsSeq(<<>>) /\ Len(<<>>) = 0
    BY SeqOfNone DEF IsReg
<1>4. /\ gen.st = "IDLE" /\ gen.rem = 0 /\ {"st", "rem"} \subseteq DOMAIN gen
      /\ sReq = <<>> /\ wOut = 0 /\ mOut = 0
      /\ wmem = <<>> /\ wo = <<>> /\ mmem = <<>> /\ mo = <<>> /\ due = <<>> /\ unit = "none"
    BY DEF Init, StreamInit, Nothing
<1>5. GenTypes /\ ReqTypes /\ FifoTypes
    BY <1>3, <1>4 DEF GenTypes, ReqTypes, FifoTypes, Nothing
<1>6. StreamRests
    BY <1>4 DEF StreamRests, StreamBusy, Nothing
<1>7. row = [r \in Rows |-> IdleRow]
    BY DEF Init, RowInit
<1>8. {"ring", "pend"} \subseteq DOMAIN IdleRow /\ IdleRow.ring = <<>> /\ IdleRow.pend = <<>>
    BY DEF IdleRow, Nothing
<1>9. RowTypes
    BY <1>3, <1>7, <1>8 DEF RowTypes
<1>10. \A t \in {"w", "m"} : Owed(t) = 0
    <2>1. \A t \in {"w", "m"} : Owed(t) = Cnt(due, t) + Asked(t)
        BY OwedIs
    <2>2. \A t \in {"w", "m"} : Cnt(<<>>, t) = 0
        BY CntNone
    <2>3. \A t \in {"w", "m"} : Asked(t) = 0
        BY <1>4 DEF Asked, Nothing
    <2> QED BY <1>4, <2>1, <2>2, <2>3
<1>11. FifoBeats \in Nat /\ MetaFifoBeats \in Nat /\ RingWords \in Nat
    BY StreamCtrlAssumption, GemvRowAssumption DEF StreamCtrlAssumption, GemvRowAssumption
<1>12. SpaceReserved
    <2>1. wOut = Owed("w") /\ Len(wmem) + Len(wo) + wOut <= FifoBeats
        BY <1>3, <1>4, <1>10, <1>11
    <2>2. mOut = Owed("m") /\ Len(mmem) + Len(mo) + mOut <= MetaFifoBeats
        BY <1>3, <1>4, <1>10, <1>11
    <2>3. \A r \in Rows : Len(row[r].ring) + Len(row[r].pend) <= RingWords
        <3> SUFFICES ASSUME NEW r \in Rows PROVE Len(row[r].ring) + Len(row[r].pend) <= RingWords
            OBVIOUS
        <3>1. row[r].ring = <<>> /\ row[r].pend = <<>>
            BY <1>7, <1>8
        <3> QED BY <1>3, <1>11, <3>1
    <2> QED BY <2>1, <2>2, <2>3 DEF SpaceReserved
<1> QED BY <1>1, <1>2, <1>5, <1>6, <1>9, <1>12 DEF SpaceInv

\* A stream at rest is asked for nothing, and nothing comes back to it.
LEMMA RestStep ==
    ASSUME GenTypes, ReqTypes, FifoTypes, SpaceReserved, ~StreamBusy,
           NEW sReady \in BOOLEAN, NEW answers \in BOOLEAN,
           sReady => sReq # Nothing, answers => due # <<>>,
           RequestTick(FALSE, sReady),
           wOut' = wOut + Loads(sReady, "w") - Back(answers, "w"),
           mOut' = mOut + Loads(sReady, "m") - Back(answers, "m"),
           IsSeq(wmem'), IsReg(wo'), Len(wmem') + Len(wo') <= Len(wmem) + Len(wo) + Back(answers, "w"),
           IsSeq(mmem'), IsReg(mo'), Len(mmem') + Len(mo') <= Len(mmem) + Len(mo) + Back(answers, "m")
    PROVE  ~StreamBusy'
<1>1. /\ gen.st = "IDLE" /\ sReq = Nothing /\ wOut = 0 /\ mOut = 0
      /\ wo = Nothing /\ wmem = <<>> /\ mo = Nothing /\ mmem = <<>>
    BY DEF StreamBusy
<1>2. ~LoadW(sReady) /\ ~LoadM(sReady)
    BY <1>1 DEF LoadW, LoadM
<1>3. gen' = gen /\ sReq' = Nothing
    BY <1>1, <1>2 DEF RequestTick, ReqSlot
<1>4. Back(answers, "w") = 0 /\ Back(answers, "m") = 0
    <2>1. Owed("w") = 0 /\ Owed("m") = 0
        BY <1>1 DEF SpaceReserved
    <2>2. IsSeq(due)
        BY DEF FifoTypes
    <2>3. /\ Back(answers, "w") \in 0 .. 1 /\ Back(answers, "w") <= Owed("w")
          /\ Back(answers, "m") \in 0 .. 1 /\ Back(answers, "m") <= Owed("m")
        BY <2>2, BackIsOwed
    <2> QED BY <2>1, <2>3
<1>5. Loads(sReady, "w") = 0 /\ Loads(sReady, "m") = 0
    BY <1>2 DEF Loads
<1>6. wOut' = 0 /\ mOut' = 0
    BY <1>1, <1>4, <1>5
<1>7. Len(<<>>) = 0
    BY SeqOfNone
<1>8. /\ Len(wmem') \in Nat /\ (Len(wmem') = 0 => wmem' = <<>>)
      /\ Len(wo') \in Nat /\ (Len(wo') = 0 => wo' = <<>>)
      /\ Len(mmem') \in Nat /\ (Len(mmem') = 0 => mmem' = <<>>)
      /\ Len(mo') \in Nat /\ (Len(mo') = 0 => mo' = <<>>)
    <2>1. IsSeq(wo') /\ IsSeq(mo')
        BY DEF IsReg
    <2> QED BY <2>1, SeqLen
<1>9. Len(wmem') + Len(wo') <= 0 /\ Len(mmem') + Len(mo') <= 0
    BY <1>1, <1>4, <1>7 DEF Nothing
<1>10. wmem' = <<>> /\ wo' = <<>> /\ mmem' = <<>> /\ mo' = <<>>
    BY <1>8, <1>9
<1> QED BY <1>1, <1>3, <1>6, <1>10 DEF StreamBusy, Nothing

\* An edge keeps the invariant.
LEMMA SpaceStep ==
    ASSUME SpaceInv, Next
    PROVE  SpaceInv'
<1>1. PICK pops \in MayIssue, sReady \in MayTake, answers \in MayAnswer, wrReady \in MayWrite :
            Edge(pops, sReady, answers, wrReady)
    BY DEF Next
<1>2. /\ pops \in BOOLEAN /\ (pops => unit = "none" /\ todo # <<>>)
      /\ sReady \in BOOLEAN /\ (sReady => sReq # Nothing)
      /\ answers \in BOOLEAN /\ (answers => due # <<>>)
    BY DEF MayIssue, MayTake, MayAnswer, Maybe
<1> DEFINE issue == pops /\ ~ZeroWork(Head(todo).d, Head(todo).pos)
           gemvIssue == issue /\ unit' = "gemv"
           rdw == Returned(answers, "w")
           rdm == Returned(answers, "m")
<1>3. /\ MemoryTick(sReady, answers) /\ DispatcherTick(pops, issue)
      /\ StreamTick(gemvIssue, sReady, rdw, rdm, Ready, MetaReady)
      /\ RowTick(gemvIssue, wo # Nothing, Ws, AccReady(MetaValid), PortA)
    BY <1>1 DEF Edge
<1>4. /\ RequestTick(gemvIssue, sReady) /\ OutTick(sReady, rdw, rdm)
      /\ WeightTick(gemvIssue, rdw, Ready) /\ MetaTick(gemvIssue, rdm, MetaReady)
    BY <1>3 DEF StreamTick
<1>5. issue \in BOOLEAN /\ gemvIssue \in BOOLEAN /\ (issue => pops) /\ (gemvIssue => issue)
    BY <1>2
<1>6. unit' = IF issue THEN IF Head(todo).d.op = "KVWRITE" THEN "kv" ELSE "gemv"
              ELSE IF unit # "none" /\ Retires THEN "none" ELSE unit
    BY <1>3 DEF DispatcherTick
<1>7. gemvIssue <=> issue /\ unit' = "gemv"
    OBVIOUS
<1> HIDE DEF issue, gemvIssue
<1>8. todo \in Seq(Jobs) /\ cmd.k \in Nat /\ GenTypes /\ ReqTypes /\ FifoTypes /\ RowTypes
      /\ StreamRests /\ SpaceReserved
    BY DEF SpaceInv
<1>9. todo' \in Seq(Jobs) /\ cmd'.k \in Nat
    BY <1>2, <1>3, <1>5, <1>8, CmdStep
<1>10. gemvIssue => sReq = Nothing /\ gen.st = "IDLE"
    BY <1>2, <1>5, <1>8 DEF StreamRests, StreamBusy
<1>11. GenTypes'
    BY <1>4, <1>5, <1>8, <1>9, GenStep
<1>12. ReqTypes'
    BY <1>2, <1>4, <1>5, <1>8, <1>10, ReqStep
<1>13. IsSeq(due) /\ IsSeq(wmem) /\ IsReg(wo) /\ IsSeq(mmem) /\ IsReg(mo)
    BY <1>8 DEF FifoTypes
<1>14. IsSeq(due')
    BY <1>2, <1>3, <1>8, <1>13, DueStep
<1>15. /\ Owed("w")' = Owed("w") - Back(answers, "w") + Loads(sReady, "w")
       /\ Owed("m")' = Owed("m") - Back(answers, "m") + Loads(sReady, "m")
    BY <1>2, <1>3, <1>4, <1>5, <1>8, <1>10, <1>13, OwedStep
<1>16. /\ wOut = Owed("w") /\ Len(wmem) + Len(wo) + wOut <= FifoBeats
       /\ mOut = Owed("m") /\ Len(mmem) + Len(mo) + mOut <= MetaFifoBeats
       /\ \A r \in Rows : Len(row[r].ring) + Len(row[r].pend) <= RingWords
    BY <1>8 DEF SpaceReserved
<1>17. /\ Owed("w") \in Nat /\ Back(answers, "w") \in 0 .. 1 /\ Back(answers, "w") <= Owed("w")
       /\ Owed("m") \in Nat /\ Back(answers, "m") \in 0 .. 1 /\ Back(answers, "m") <= Owed("m")
    BY <1>2, <1>8, <1>13, BackIsOwed
<1>18. /\ IsReg(rdw) /\ Len(rdw) = Back(answers, "w")
       /\ IsReg(rdm) /\ Len(rdm) = Back(answers, "m")
    BY Answer
<1> HIDE DEF rdw, rdm
<1>19. /\ IsSeq(wmem') /\ IsReg(wo')
       /\ wOut' = wOut + Loads(sReady, "w") - Len(rdw)
       /\ Len(wmem') + Len(wo') <= Len(wmem) + Len(wo) + Len(rdw)
       /\ Len(wmem') + Len(wo') + wOut' <= FifoBeats
    <2>1. wOut \in Nat /\ Len(rdw) <= wOut
        BY <1>16, <1>17, <1>18
    <2>2. Ready \in BOOLEAN
        BY DEF Ready
    <2> QED BY <1>4, <1>8, <1>13, <1>16, <1>18, <2>1, <2>2, WeightSpace
<1>20. /\ IsSeq(mmem') /\ IsReg(mo')
       /\ mOut' = mOut + Loads(sReady, "m") - Len(rdm)
       /\ Len(mmem') + Len(mo') <= Len(mmem) + Len(mo) + Len(rdm)
       /\ Len(mmem') + Len(mo') + mOut' <= MetaFifoBeats
    <2>1. mOut \in Nat /\ Len(rdm) <= mOut
        BY <1>16, <1>17, <1>18
    <2>2. MetaReady \in BOOLEAN
        BY DEF MetaReady, EmbWait
    <2> QED BY <1>4, <1>8, <1>13, <1>16, <1>18, <2>1, <2>2, MetaSpace
<1>21. FifoTypes'
    BY <1>14, <1>19, <1>20 DEF FifoTypes
<1>22. RowTypes' /\ \A r \in Rows : Len(row'[r].ring) + Len(row'[r].pend) <= RingWords
    BY <1>3, <1>5, <1>8, <1>16, RowsStep
<1>23. StreamRests'
    <2> SUFFICES ASSUME unit' # "gemv" PROVE ~StreamBusy'
        BY DEF StreamRests
    <2>1. ~gemvIssue
        BY <1>7
    <2>2. ~StreamBusy
        <3>1. CASE unit # "gemv"
            BY <1>8, <3>1 DEF StreamRests
        <3>2. CASE unit = "gemv"
            <4>1. ~issue
                BY <1>2, <1>5, <3>2
            <4>2. Retires
                BY <1>6, <3>2, <4>1
            <4> QED BY <3>2, <4>2 DEF Retires
        <3> QED BY <3>1, <3>2
    <2>3. RequestTick(FALSE, sReady)
        <3>1. gemvIssue = FALSE
            BY <1>5, <2>1
        <3> QED BY <1>4, <3>1
    <2>4. /\ wOut' = wOut + Loads(sReady, "w") - Back(answers, "w")
          /\ mOut' = mOut + Loads(sReady, "m") - Back(answers, "m")
          /\ Len(wmem') + Len(wo') <= Len(wmem) + Len(wo) + Back(answers, "w")
          /\ Len(mmem') + Len(mo') <= Len(mmem) + Len(mo) + Back(answers, "m")
        BY <1>18, <1>19, <1>20
    <2>5. IsSeq(wmem') /\ IsReg(wo') /\ IsSeq(mmem') /\ IsReg(mo')
        BY <1>19, <1>20
    <2> QED BY <1>2, <1>8, <2>2, <2>3, <2>4, <2>5, RestStep
<1>24. SpaceReserved'
    <2>1. Loads(sReady, "w") \in Nat /\ Loads(sReady, "m") \in Nat
        <3>1. WLen \in Nat /\ MLen \in Nat
            BY <1>8, Bursts DEF GenTypes
        <3> QED BY <3>1 DEF Loads
    <2>2. wOut' = Owed("w")' /\ mOut' = Owed("m")'
        <3> DEFINE ow == Owed("w")
                   om == Owed("m")
                   bw == Back(answers, "w")
                   bm == Back(answers, "m")
                   lw == Loads(sReady, "w")
                   lm == Loads(sReady, "m")
        <3>1. /\ wOut' = ow + lw - bw /\ mOut' = om + lm - bm
              /\ Owed("w")' = ow - bw + lw /\ Owed("m")' = om - bm + lm
            BY <1>15, <1>16, <1>18, <1>19, <1>20
        <3>2. ow \in Int /\ om \in Int /\ bw \in Int /\ bm \in Int /\ lw \in Int /\ lm \in Int
            BY <1>17, <2>1
        <3> HIDE DEF ow, om, bw, bm, lw, lm
        <3>3. ow + lw - bw = ow - bw + lw /\ om + lm - bm = om - bm + lm
            BY <3>2
        <3> QED BY <3>1, <3>3
    <2> QED BY <1>19, <1>20, <1>22, <2>2 DEF SpaceReserved
<1> QED BY <1>9, <1>11, <1>12, <1>21, <1>22, <1>23, <1>24 DEF SpaceInv

\* The invariant holds of every state of every run: what the stream, memory and
\* the rows hold and owe is accounted for.
THEOREM SpaceInductive == Spec => []SpaceInv
<1>1. SpaceInv /\ [Next]_vars => SpaceInv'
    <2> SUFFICES ASSUME SpaceInv, [Next]_vars PROVE SpaceInv'
        OBVIOUS
    <2>1. CASE Next
        BY <2>1, SpaceStep
    <2>2. CASE UNCHANGED vars
        <3>1. UNCHANGED <<todo, cmd, gen, sReq, due, wmem, wo, mmem, mo, row, unit, wOut, mOut>>
            BY <2>2 DEF vars, streamVars
        <3> QED BY <3>1 DEF SpaceInv, GenTypes, ReqTypes, FifoTypes, RowTypes, StreamRests, StreamBusy,
                            SpaceReserved, Owed
    <2> QED BY <2>1, <2>2
<1> QED BY <1>1, SpaceInit, PTL DEF Spec

\* No FIFO of the stream and no ring of a row is sent what it has no place for,
\* and the stream's counts of what is on its way are those of memory: the
\* overflow assertions of qcore_stream_ctrl, at any FIFO and ring sizes, for any
\* programs and any timing of memory.
THEOREM SpaceIsReserved == Spec => []SpaceReserved
<1>1. SpaceInv => SpaceReserved
    BY DEF SpaceInv
<1> QED BY <1>1, SpaceInductive, PTL
=============================================================================
