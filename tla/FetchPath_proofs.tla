--------------------------- MODULE FetchPath_proofs ---------------------------
(***************************************************************************)
(* Proofs about FetchPath, for every width of a beat and of a descriptor,  *)
(* every depth of the queue and every wrap of the addresses: the fetch is  *)
(* the stream of descriptors Control builds on.                            *)
(***************************************************************************)
EXTENDS FetchPath, Wraps, SequenceTheorems

-----------------------------------------------------------------------------
(* Sizes and addresses *)

Bases == {a \in Bytes : a % GB = 0}

\* The base of the request after the one at a, and after k of them.
NextGrp(a) == (a + GB) % ByteMod
After(a, k) == IF k = 0 THEN a ELSE IF k = 1 THEN NextGrp(a) ELSE NextGrp(NextGrp(a))

\* Beat j and descriptor l of the group at a, and a group that is whole.
BeatAt(a, j) == a + (j - 1) * WB
LaneAt(a, l) == a + l * DescB
Whole(g) == g[1] \in Bases /\ \A i \in 1 .. BPR : g[i] = BeatAt(g[1], i)

\* A quotient without remainder.
LEMMA Exact ==
    ASSUME NEW x \in Nat \ {0}, NEW m \in Nat \ {0}, x % m = 0
    PROVE  x \div m \in Nat \ {0} /\ (x \div m) * m = x /\ m <= x
<1> DEFINE q == x \div m
<1>1. q \in Int /\ x = m * q
    BY DivMod
<1> HIDE DEF q
<1>2. m * q = q * m
    BY <1>1
<1>3. q >= 1
    <2>1. ASSUME q <= 0 PROVE m * q <= 0
        BY <1>1, <2>1
    <2> QED BY <1>1, <2>1
<1>4. m * q = m + m * (q - 1) /\ m * (q - 1) >= 0
    BY <1>1, <1>3
<1> QED BY <1>1, <1>2, <1>3, <1>4 DEF q

LEMMA Sizes ==
    /\ WB \in Nat \ {0} /\ DescB \in Nat \ {0} /\ ByteMod \in Nat \ {0}
    /\ GB \in Nat \ {0} /\ GB <= ByteMod
    /\ BPR \in Nat \ {0} /\ BPR * WB = GB
    /\ DPR \in Nat \ {0} /\ DPR * DescB = GB
    /\ GD >= 2 /\ GD \in Nat
<1>1. GB \in Nat \ {0}
    BY SeqFetchAssumption DEF GB
<1>2. BPR \in Nat \ {0} /\ BPR * WB = GB
    BY <1>1, Exact, SeqFetchAssumption DEF BPR
<1>3. DPR \in Nat \ {0} /\ DPR * DescB = GB
    BY <1>1, Exact, SeqFetchAssumption DEF DPR
<1>4. GB <= ByteMod
    BY <1>1, Exact, SeqFetchAssumption
<1>5. GD >= 2 /\ GD \in Nat
    <2>1. DqDepth \div DPR \in Int
        BY <1>3, SeqFetchAssumption, DivMod
    <2> QED BY <2>1 DEF GD
<1> QED BY <1>1, <1>2, <1>3, <1>4, <1>5, SeqFetchAssumption

\* Place i of n that divide G into parts of W, and the way from a base to the
\* next.
LEMMA Parts ==
    ASSUME NEW W \in Nat \ {0}, NEW n \in Nat \ {0}, NEW i \in 0 .. (n - 1)
    PROVE  /\ i * W \in Nat /\ i * W + W <= n * W
           /\ i * W = n * W - W <=> i = n - 1
           /\ (i + 1) * W = i * W + W
<1> DEFINE k == n - 1 - i
<1>1. k \in Nat /\ n = k + i + 1
    OBVIOUS
<1>2. k * W \in Nat /\ i * W \in Nat /\ (k = 0 <=> k * W = 0)
    BY <1>1
<1> HIDE DEF k
<1>3. n * W = k * W + i * W + W
    BY <1>1
<1>4. (i + 1) * W = i * W + W
    OBVIOUS
<1> QED BY <1>1, <1>2, <1>3, <1>4

\* The room from a base to the end of the address space is of whole groups.
LEMMA BaseRoom == ASSUME NEW a \in Bases PROVE a + GB <= ByteMod
<1>1. a \in 0 .. (ByteMod - 1) /\ a % GB = 0 /\ ByteMod % GB = 0 /\ GB \in Nat \ {0} /\ ByteMod \in Nat
    BY Sizes, SeqFetchAssumption DEF Bases, Bytes
<1> DEFINE r == ByteMod - a
           p == a \div GB
           q == ByteMod \div GB
<1>2. p \in Int /\ q \in Int /\ a = GB * p /\ ByteMod = GB * q
    BY <1>1, DivMod
<1> HIDE DEF p, q
<1>3. r = 0 + GB * (q - p)
    BY <1>1, <1>2
<1>4. (0 + GB * (q - p)) % GB = 0 % GB
    BY <1>1, <1>2, ModShift
<1>5. 0 % GB = 0
    BY <1>1, ModSmall
<1>6. r \in Nat \ {0} /\ r % GB = 0
    BY <1>1, <1>3, <1>4, <1>5
<1> HIDE DEF r
<1>7. GB <= r
    BY <1>1, <1>6, Exact
<1> QED BY <1>1, <1>7 DEF r

LEMMA NextGrpType == ASSUME NEW a \in Bases PROVE NextGrp(a) \in Bases
<1>1. a \in 0 .. (ByteMod - 1) /\ a % GB = 0 /\ GB \in Nat \ {0} /\ ByteMod \in Nat \ {0}
      /\ a + GB <= ByteMod
    BY Sizes, BaseRoom DEF Bases, Bytes
<1>2. CASE a + GB = ByteMod
    <2>1. NextGrp(a) = 0
        BY <1>1, <1>2, ModWrap DEF NextGrp
    <2>2. 0 % GB = 0
        BY <1>1, ModSmall
    <2> QED BY <1>1, <2>1, <2>2 DEF Bases, Bytes
<1>3. CASE a + GB < ByteMod
    <2>1. NextGrp(a) = a + GB
        BY <1>1, <1>3, ModSmall DEF NextGrp
    <2> DEFINE k == 1
    <2>2. k \in Int /\ a \in Int /\ GB * k = GB
        BY <1>1
    <2> HIDE DEF k
    <2>3. (a + GB * k) % GB = a % GB
        BY <1>1, <2>2, ModShift
    <2> QED BY <1>1, <1>3, <2>1, <2>2, <2>3 DEF Bases, Bytes
<1> QED BY <1>1, <1>2, <1>3

LEMMA AfterType == ASSUME NEW a \in Bases, NEW k PROVE After(a, k) \in Bases
BY NextGrpType DEF After

\* A place less than a group past a base.
LEMMA Offset ==
    ASSUME NEW a \in Bases, NEW x \in 0 .. (GB - 1)
    PROVE  a + x \in Bytes /\ (a + x) % GB = x
<1>1. a \in 0 .. (ByteMod - 1) /\ a % GB = 0 /\ GB \in Nat \ {0} /\ ByteMod \in Nat \ {0}
      /\ a + GB <= ByteMod
    BY Sizes, BaseRoom DEF Bases, Bytes
<1>2. a \div GB \in Int /\ a = GB * (a \div GB)
    BY <1>1, DivMod
<1>3. (GB * (a \div GB) + x) % GB = x
    BY <1>1, <1>2, ModUnique
<1> QED BY <1>1, <1>2, <1>3 DEF Bytes

\* The beats of a group: the first is its base, the last is told by its place.
LEMMA Beats ==
    ASSUME NEW a \in Bases, NEW j \in 1 .. BPR
    PROVE  /\ BeatAt(a, j) \in Bytes
           /\ BeatAt(a, 1) = a
           /\ BeatAt(a, j) % GB = GB - WB <=> j = BPR
<1> DEFINE x == (j - 1) * WB
<1>1. WB \in Nat \ {0} /\ BPR \in Nat \ {0} /\ GB \in Nat \ {0} /\ BPR * WB = GB /\ j - 1 \in 0 .. (BPR - 1)
    BY Sizes
<1>2. x \in Nat /\ x + WB <= GB /\ (x = GB - WB <=> j - 1 = BPR - 1)
    BY <1>1, Parts
<1> HIDE DEF x
<1>3. a + x \in Bytes /\ (a + x) % GB = x
    BY <1>1, <1>2, Offset
<1>4. BeatAt(a, 1) = a
    BY <1>1 DEF BeatAt, Bases, Bytes
<1>5. BeatAt(a, j) = a + x
    BY DEF BeatAt, x
<1> QED BY <1>1, <1>2, <1>3, <1>4, <1>5

LEMMA BeatsOfGroup ==
    ASSUME NEW a \in Bases
    PROVE  /\ BeatsOf(a) \in Seq(Bytes) /\ Len(BeatsOf(a)) = BPR
           /\ \A i \in 1 .. BPR : BeatsOf(a)[i] = BeatAt(a, i)
<1>1. \A i \in 1 .. BPR : BeatAt(a, i) \in Bytes
    BY Beats
<1>2. BeatsOf(a) = [i \in 1 .. BPR |-> BeatAt(a, i)]
    BY DEF BeatsOf, BeatAt
<1>3. BPR \in Nat
    BY Sizes
<1>4. [i \in 1 .. BPR |-> BeatAt(a, i)] \in Seq(Bytes)
    BY <1>1, <1>3, IsASeq
<1> QED BY <1>1, <1>2, <1>3, <1>4

\* The descriptors of a group: the one after the last is the base that follows.
LEMMA Lanes ==
    ASSUME NEW a \in Bases, NEW l \in 0 .. (DPR - 1)
    PROVE  /\ LaneAt(a, l) \in Bytes /\ LaneAt(a, 0) = a
           /\ (LaneAt(a, l) + DescB) % ByteMod
                = IF l = DPR - 1 THEN NextGrp(a) ELSE LaneAt(a, l + 1)
<1> DEFINE x == l * DescB
<1>1. /\ DescB \in Nat \ {0} /\ DPR \in Nat \ {0} /\ GB \in Nat \ {0} /\ DPR * DescB = GB
      /\ ByteMod \in Nat \ {0} /\ a \in Int
    BY Sizes DEF Bases, Bytes
<1>2. x \in Nat /\ x + DescB <= GB /\ (x = GB - DescB <=> l = DPR - 1) /\ (l + 1) * DescB = x + DescB
    BY <1>1, Parts
<1> HIDE DEF x
<1>3. a + x \in Bytes
    BY <1>1, <1>2, Offset
<1>4. LaneAt(a, 0) = a /\ LaneAt(a, l) = a + x /\ LaneAt(a, l + 1) = a + (x + DescB)
    BY <1>1, <1>2 DEF LaneAt, x
<1>5. CASE l = DPR - 1
    <2>1. LaneAt(a, l) + DescB = a + GB
        BY <1>1, <1>2, <1>4, <1>5
    <2> QED BY <1>3, <1>4, <1>5, <2>1 DEF NextGrp
<1>6. CASE l # DPR - 1
    <2>1. x + DescB \in 0 .. (GB - 1)
        BY <1>1, <1>2, <1>6
    <2>2. a + (x + DescB) \in Bytes
        BY <2>1, Offset
    <2>3. (a + (x + DescB)) % ByteMod = a + (x + DescB)
        BY <1>1, <2>2, ModSmall DEF Bytes
    <2>4. LaneAt(a, l) + DescB = a + (x + DescB)
        BY <1>1, <1>2, <1>4
    <2> QED BY <1>3, <1>4, <1>6, <2>3, <2>4
<1> QED BY <1>5, <1>6

\* A restart: the group of the PC, and the place of its descriptor in it.
LEMMA RestartPlace ==
    ASSUME NEW a \in Bytes, a % DescB = 0
    PROVE  /\ a - (a % GB) \in Bases
           /\ (a \div DescB) % DPR \in 0 .. (DPR - 1)
           /\ LaneAt(a - (a % GB), (a \div DescB) % DPR) = a
<1> DEFINE q == a \div DescB
           u == q \div DPR
           v == q % DPR
           x == v * DescB
<1>1. /\ DescB \in Nat \ {0} /\ DPR \in Nat \ {0} /\ GB \in Nat \ {0} /\ DPR * DescB = GB
      /\ a \in 0 .. (ByteMod - 1) /\ ByteMod \in Nat \ {0}
    BY Sizes DEF Bytes
<1>2. q \in Int /\ a = DescB * q
    BY <1>1, DivMod
<1> HIDE DEF q
<1>3. u \in Int /\ v \in 0 .. (DPR - 1) /\ q = DPR * u + v
    BY <1>1, <1>2, DivMod, ModType
<1> HIDE DEF u, v
<1>4. x \in Nat /\ x + DescB <= GB
    BY <1>1, <1>3, Parts
<1>5. a = GB * u + x
    <2>1. DescB * q = DescB * (DPR * u + v)
        BY <1>3
    <2>2. DescB * (DPR * u + v) = (DPR * DescB) * u + v * DescB
        BY <1>1, <1>3
    <2> QED BY <1>1, <1>2, <2>1, <2>2
<1> HIDE DEF x
<1>6. a % GB = x
    BY <1>1, <1>3, <1>4, <1>5, ModUnique
<1>7. a - x \in Bytes /\ (a - x) % GB = 0
    <2> DEFINE z == 0
    <2>1. z \in 0 .. (GB - 1) /\ a - x = GB * u + z
        BY <1>1, <1>3, <1>4, <1>5
    <2> HIDE DEF z
    <2>2. (GB * u + z) % GB = z
        BY <1>1, <1>3, <2>1, ModUnique
    <2>3. (a - x) % GB = 0
        BY <2>1, <2>2 DEF z
    <2>4. x <= a
        <3>1. a % GB <= a
            BY <1>1
        <3> QED BY <1>6, <3>1
    <2> QED BY <1>1, <1>4, <2>3, <2>4 DEF Bytes
<1>8. LaneAt(a - x, v) = a
    BY <1>1, <1>4 DEF LaneAt, x
<1> QED BY <1>3, <1>6, <1>7, <1>8 DEF v, q, Bases

-----------------------------------------------------------------------------
(* The inductive invariant *)

Groups == {g \in Seq(Bytes) : Len(g) = BPR}

FetchTypes ==
    /\ fReqValid \in BOOLEAN /\ fReqAddr \in Bases /\ reqAddr \in Bases
    /\ reqEn \in BOOLEAN /\ stale \in BOOLEAN
    /\ outBeats \in Nat /\ bursts \in Nat
    /\ hist \in Seq(Bytes) /\ gmem \in Seq(Groups)
    /\ oValid \in BOOLEAN /\ oLane \in 0 .. (DPR - 1) /\ dcount \in Int
    /\ skip \in 0 .. (DPR - 1) /\ skipW \in BOOLEAN /\ skipR \in BOOLEAN
    /\ rq \in [tag : {"none", "s", "v", "f"}, addr : Bases] /\ sBeats \in Nat
    /\ mem \in Seq(Bytes) /\ nextPc \in Bytes
    /\ on \in BOOLEAN /\ sLen \in SLens
    /\ sReq \in BOOLEAN /\ vReq \in BOOLEAN

InStage == rq.tag = "f"

\* The beats and bursts that are out are those of the stage and of memory; a
\* burst ends where its last beat says; a group has its space from the request on.
CountInv ==
    /\ outBeats = Len(mem) + (IF InStage THEN BPR ELSE 0)
    /\ Len(mem) <= BPR + BPR
    /\ bursts = (IF mem = <<>> THEN 0 ELSE IF Len(mem) <= BPR THEN 1 ELSE 2) + One(InStage)
    /\ bursts + One(fReqValid) <= 2
    /\ GUsed <= GD
    /\ \A i \in 1 .. Len(mem) :
           (mem[i] % GB = GB - WB) <=> (i = Len(mem) \/ i = Len(mem) - BPR)
    /\ Len(hist) < BPR
    /\ stale => hist = <<>> /\ gmem = <<>> /\ ~oValid
    /\ ~stale => Len(hist) + Len(mem) \in {0, BPR, BPR + BPR}

\* The base of the next group to be queued.
Due == IF stale THEN reqAddr
       ELSE IF hist # <<>> THEN hist[1]
       ELSE IF mem # <<>> THEN mem[1]
       ELSE IF InStage THEN rq.addr
       ELSE IF fReqValid THEN fReqAddr ELSE reqAddr

\* From the half-assembled group over memory, the stage and the request
\* presented to the next request, one group follows the other.
FlightInv ==
    /\ Due \in Bases
    /\ ~stale =>
         /\ InStage => rq.addr = After(Due, bursts - 1)
         /\ fReqValid => fReqAddr = After(Due, bursts)
         /\ reqAddr = After(Due, bursts + One(fReqValid))
         /\ \A j \in 1 .. Len(hist) : hist[j] = BeatAt(Due, j)
         /\ \A i \in 1 .. Len(mem) :
                mem[i] = IF Len(hist) + i <= BPR THEN BeatAt(Due, Len(hist) + i)
                         ELSE BeatAt(NextGrp(Due), Len(hist) + i - BPR)

\* The base of the group behind the output register.
Behind == IF gmem = <<>> THEN Due ELSE gmem[1][1]

\* The groups queued are whole and follow one another up to the one due.
QueueInv ==
    /\ \A j \in 1 .. Len(gmem) : Whole(gmem[j])
    /\ \A j \in 1 .. Len(gmem) :
           NextGrp(gmem[j][1]) = IF j = Len(gmem) THEN Due ELSE gmem[j + 1][1]
    /\ oValid => Whole(oGrp) /\ NextGrp(oGrp[1]) = Behind

\* The head is what the dispatcher is owed; dq_count counts the descriptors
\* from it on; while no run is on nothing of an older one is left but beats to
\* let go by.
HeadInv ==
    /\ on => nextPc = IF oValid THEN LaneAt(oGrp[1], oLane)
                      ELSE LaneAt(Behind, IF skipR THEN skip ELSE 0)
    /\ oValid => ~skipR
    /\ skipW => skipR /\ gmem = <<>>
    /\ on /\ skipR /\ gmem = <<>> => skipW
    /\ dcount = Queued
    /\ ~on => /\ ~reqEn /\ ~oValid /\ gmem = <<>>
              /\ ~stale => mem = <<>> /\ ~InStage /\ ~fReqValid

\* The fetch grants counted: none passes a write once the one presented has.
GrantInv ==
    /\ overtook \in {0, 1} /\ (overtook = 1 => ~fReqValid)
    /\ granted \in 0 .. MaxBurst /\ granted <= sBeats

PathInv == FetchTypes /\ CountInv /\ FlightInv /\ QueueInv /\ HeadInv /\ GrantInv

-----------------------------------------------------------------------------
(* What an edge does, told by what happens at it: the arbiter takes the      *)
(* request presented (grant) or memory the one in the stage (took), the next *)
(* request is raised (load), a beat comes back, a descriptor is popped.      *)

Drops(c) == c.flush \/ c.start

FlightEdge(c, grant, load, beat, took) ==
    /\ load => reqEn /\ ~stale /\ ~Drops(c) /\ Room /\ BurstRoom /\ WrIdle /\ (fReqValid => grant)
    /\ grant => fReqValid /\ (InStage => took)
    /\ took => InStage
    /\ beat => mem # <<>>
    /\ fReqValid' = (load \/ (fReqValid /\ ~grant))
    /\ fReqAddr' = IF load THEN reqAddr ELSE fReqAddr
    /\ reqAddr' = IF c.start THEN c.pc - (c.pc % GB) ELSE IF load THEN NextGrp(reqAddr) ELSE reqAddr
    /\ reqEn' \in BOOLEAN /\ (reqEn' => c.start \/ (reqEn /\ ~c.flush))
    /\ outBeats' = outBeats + (IF grant THEN BPR ELSE 0) - One(beat)
    /\ bursts' = bursts + One(grant) - One(beat /\ mem[1] % GB = GB - WB)
    /\ stale' = ((Drops(c) \/ stale) /\ (outBeats' # 0 \/ fReqValid'))
    /\ mem' = (IF beat THEN Tail(mem) ELSE mem) \o (IF took THEN BeatsOf(rq.addr) ELSE <<>>)
    /\ hist' = IF Drops(c) THEN <<>>
               ELSE IF ~beat \/ stale THEN hist
               ELSE IF Len(hist) = BPR - 1 THEN <<>> ELSE Append(hist, mem[1])
    /\ rq' \in [tag : {"none", "s", "v", "f"}, addr : Bases]
    /\ InStage' <=> grant \/ (InStage /\ ~took)
    /\ InStage' => rq'.addr = IF grant THEN fReqAddr ELSE rq.addr

\* A whole group goes to the queue; the reader takes one from it.
Full(c, beat)  == beat /\ ~stale /\ ~Drops(c) /\ Len(hist) = BPR - 1
LastPop(pop)   == pop /\ oLane = DPR - 1
Reads(pop)     == gmem # <<>> /\ (~oValid \/ LastPop(pop))

QueueEdge(c, beat, pop) ==
    LET rest == IF Reads(pop) THEN Tail(gmem) ELSE gmem IN
    /\ pop => oValid /\ on /\ ~Drops(c)
    /\ c.start => ~on /\ c.flush
    /\ on' = (c.start \/ (on /\ ~c.flush))
    /\ nextPc' = IF c.start THEN c.pc ELSE IF pop THEN (nextPc + DescB) % ByteMod ELSE nextPc
    /\ skip' = IF c.start THEN (c.pc \div DescB) % DPR ELSE skip
    /\ skipW' = (c.start \/ (skipW /\ ~Full(c, beat)))
    /\ skipR' = (c.start \/ (skipR /\ ~Reads(pop)))
    /\ IF Drops(c)
       THEN gmem' = <<>> /\ oValid' = FALSE /\ oLane' = 0 /\ dcount' = 0
       ELSE /\ gmem' = IF Full(c, beat) THEN Append(rest, Append(hist, mem[1])) ELSE rest
            /\ oGrp' = IF Reads(pop) THEN gmem[1] ELSE oGrp
            /\ oValid' = (Reads(pop) \/ (oValid /\ ~LastPop(pop)))
            /\ oLane' = IF Reads(pop) THEN IF skipR THEN skip ELSE 0
                        ELSE IF pop /\ ~LastPop(pop) THEN oLane + 1 ELSE oLane
            /\ dcount' = dcount + (IF Full(c, beat) THEN AddN ELSE 0) - One(pop)

\* The other readers, and the grants counted.
ReaderEdge(grant, load) ==
    /\ sReq' \in BOOLEAN /\ vReq' \in BOOLEAN /\ sLen' \in SLens
    /\ sBeats' \in Nat /\ granted' \in 0 .. MaxBurst /\ granted' <= sBeats'
    /\ overtook' = IF WrIdle THEN 0 ELSE IF grant THEN AtMost(overtook + 1, 2) ELSE overtook

\* The commands keep to the addresses of descriptors.
LEMMA CmdTypes ==
    ASSUME NEW c \in Cmds
    PROVE  c.pc \in Bytes /\ c.start \in BOOLEAN /\ c.flush \in BOOLEAN /\ (c.start => c.flush)
           /\ c.pc % DescB = 0
<1>1. 0 \in Bytes /\ 0 % DescB = 0
    BY Sizes, ModSmall DEF Bytes
<1> QED BY <1>1, FetchPathAssumption DEF Cmds

LEMMA Edges ==
    ASSUME FetchTypes, GrantInv, Next
    PROVE  \E c \in Cmds, grant, load, beat, took, pop \in BOOLEAN :
               FlightEdge(c, grant, load, beat, took) /\ QueueEdge(c, beat, pop)
               /\ ReaderEdge(grant, load)
<1>1. PICK rdReady \in Maybe(rq # NoRequest), answers \in Maybe(mem # <<>>),
           wrReady \in Maybe(wqValid), wrAck \in Maybe(issued # acked) :
        Step(Cmds, rdReady, answers, wrReady, wrAck)
    BY DEF Next, NextUnder
<1>2. PICK c \in {x \in Cmds : CmdAllowed(x)} :
        /\ FetchTick([start |-> c.start, flush |-> c.flush, pc |-> c.pc, step |-> stepping],
                     ~WrIdle, FReady(Presented, rdReady), Beat(answers), Ready(c))
        /\ ProgramTick(c, rdReady, wrReady, wrAck)
    BY <1>1 DEF Step
<1>3. PICK newStep \in Maybe(c.start), next \in (IF DqPop(Ready(c)) THEN Units ELSE {"none"}),
           retires \in Maybe(unit # "none" /\ ~stepping /\ AtRest) :
        /\ DispatcherTick(c, newStep, next, retires)
        /\ \E asks \in Maybe(unit \in {"gemv", "vpu"} /\ ~retires /\ ~c.flush), len \in SLens :
               ReadersTick(rdReady, asks, len)
    BY <1>2 DEF ProgramTick
<1>4. PICK asks \in Maybe(unit \in {"gemv", "vpu"} /\ ~retires /\ ~c.flush), len \in SLens :
          ReadersTick(rdReady, asks, len)
    BY <1>3
<1> DEFINE cmd == [start |-> c.start, flush |-> c.flush, pc |-> c.pc, step |-> stepping]
           fd == Beat(answers)
           ready == FReady(Presented, rdReady)
           grant == fReqValid /\ ready
           load == LoadReq(cmd, ~WrIdle, ready)
           took == rdReady /\ InStage
           pop == oValid /\ Ready(c)
<1>5. /\ rdReady \in BOOLEAN /\ answers \in BOOLEAN
      /\ rdReady => rq # NoRequest
      /\ answers => mem # <<>>
      /\ c \in Cmds /\ CmdAllowed(c)
    BY <1>1, <1>2 DEF Maybe
<1>6. c.pc \in Bytes /\ c.start \in BOOLEAN /\ c.flush \in BOOLEAN /\ (c.start => c.flush)
    BY <1>5, CmdTypes
<1>7. /\ fd.valid = answers
      /\ answers => fd.addr = mem[1] /\ fd.last = (mem[1] % GB = GB - WB)
      /\ cmd.start = c.start /\ cmd.flush = c.flush /\ cmd.pc = c.pc
      /\ Presented.f = fReqValid /\ Presented.s = sReq /\ Presented.v = vReq
      /\ Presented.fAddr = fReqAddr /\ Presented.sLen = sLen
    <2>1. Head(mem) = mem[1]
        BY DEF Head
    <2> QED BY <1>5, <2>1 DEF Beat, Presented
<1>8. FetchTick(cmd, ~WrIdle, ready, fd, Ready(c))
    BY <1>2
<1> HIDE DEF cmd, fd
<1>9. FlightEdge(c, grant, load, answers, took)
    <2>1. /\ load => reqEn /\ ~stale /\ ~Drops(c) /\ Room /\ BurstRoom /\ WrIdle /\ (fReqValid => grant)
          /\ fReqValid' = (load \/ (fReqValid /\ ~grant))
          /\ fReqAddr' = IF load THEN reqAddr ELSE fReqAddr
          /\ reqAddr' = IF c.start THEN c.pc - (c.pc % GB) ELSE IF load THEN NextGrp(reqAddr) ELSE reqAddr
          /\ reqEn' \in BOOLEAN /\ (reqEn' => c.start \/ (reqEn /\ ~c.flush))
        BY <1>6, <1>7, <1>8 DEF FetchTick, RequestTick, LoadReq, ReqSlot, Drops, NextGrp, FetchTypes
    <2>2. OutNext(ready, fd) = outBeats + (IF grant THEN BPR ELSE 0) - One(answers)
        BY <1>7 DEF OutNext, Grant
    <2>3. /\ outBeats' = outBeats + (IF grant THEN BPR ELSE 0) - One(answers)
          /\ bursts' = bursts + One(grant) - One(answers /\ mem[1] % GB = GB - WB)
        BY <1>5, <1>7, <1>8, <2>2 DEF FetchTick, ReturnTick, Grant, One
    <2>4. stale' = ((Drops(c) \/ stale) /\ (outBeats' # 0 \/ fReqValid'))
        BY <1>7, <1>8, <2>1 DEF FetchTick, ReturnTick, StaleTick, Drops, FetchTypes
    <2>5. hist' = IF Drops(c) THEN <<>>
                  ELSE IF ~answers \/ stale THEN hist
                  ELSE IF Len(hist) = BPR - 1 THEN <<>> ELSE Append(hist, mem[1])
        BY <1>5, <1>7, <1>8 DEF FetchTick, AssembleTick, TakeBeat, GrpFull, Drops
    <2>6. mem' = (IF answers THEN Tail(mem) ELSE mem) \o (IF took THEN BeatsOf(rq.addr) ELSE <<>>)
        BY <1>1 DEF Step, MemoryTick, InStage
    <2>7. /\ grant => fReqValid /\ (InStage => took)
          /\ took => InStage
          /\ answers => mem # <<>>
        BY <1>5 DEF FReady, StageFree, InStage, NoRequest
    <2>8. /\ grant => ~TakeS(Presented, rdReady) /\ ~TakeV(Presented, rdReady)
          /\ TakeF(Presented, rdReady) <=> grant
        BY <1>7 DEF FReady, TakeS, TakeV, TakeF, FetchTypes
    <2>9. rq' = IF ~StageFree(rdReady) THEN rq
                ELSE IF TakeS(Presented, rdReady) THEN [tag |-> "s", addr |-> 0]
                ELSE IF TakeV(Presented, rdReady) THEN [tag |-> "v", addr |-> 0]
                ELSE IF grant THEN [tag |-> "f", addr |-> fReqAddr] ELSE NoRequest
        BY <1>1, <1>7, <2>8 DEF Step, ArbTick
    <2>10. /\ rq' \in [tag : {"none", "s", "v", "f"}, addr : Bases]
           /\ InStage' <=> grant \/ (InStage /\ ~took)
           /\ InStage' => rq'.addr = IF grant THEN fReqAddr ELSE rq.addr
        <3>1. 0 \in Bases
            BY Sizes, ModSmall DEF Bases, Bytes
        <3>2. grant => StageFree(rdReady)
            BY DEF FReady
        <3>3. InStage => (StageFree(rdReady) <=> rdReady)
            BY <1>5 DEF StageFree, InStage, NoRequest
        <3>4. CASE ~StageFree(rdReady)
            BY <2>9, <3>2, <3>3, <3>4 DEF InStage, FetchTypes
        <3>5. CASE StageFree(rdReady) /\ grant
            BY <2>8, <2>9, <3>5 DEF InStage, FetchTypes
        <3>6. CASE StageFree(rdReady) /\ ~grant
            BY <2>9, <3>1, <3>3, <3>6 DEF InStage, NoRequest
        <3> QED BY <3>4, <3>5, <3>6
    <2> HIDE DEF grant, load, took
    <2> QED
        BY <2>1, <2>3, <2>4, <2>5, <2>6, <2>7, <2>10 DEF FlightEdge
<1>10. QueueEdge(c, answers, pop)
    <2>1. QueueTick(cmd, fd, Ready(c)) /\ SkipTick(cmd, fd, Ready(c))
        BY <1>8 DEF FetchTick
    <2>2. /\ DqPop(Ready(c)) = pop /\ GPop(Ready(c)) = LastPop(pop) /\ GRd(Ready(c)) = Reads(pop)
          /\ GrpFull(cmd, fd) = Full(c, answers)
        BY <1>5, <1>7 DEF DqPop, GPop, GRd, LastPop, Reads, GrpFull, TakeBeat, Full, Drops
    <2>3. /\ skip' = IF c.start THEN (c.pc \div DescB) % DPR ELSE skip
          /\ skipW' = (c.start \/ (skipW /\ ~Full(c, answers)))
          /\ skipR' = (c.start \/ (skipR /\ ~Reads(pop)))
        BY <1>7, <2>1, <2>2 DEF SkipTick
    <2>4. /\ pop => oValid /\ on /\ ~Drops(c)
          /\ c.start => ~on /\ c.flush
          /\ on' = (c.start \/ (on /\ ~c.flush))
          /\ nextPc' = IF c.start THEN c.pc ELSE IF pop THEN (nextPc + DescB) % ByteMod ELSE nextPc
        BY <1>3, <1>5, <1>6, <2>2 DEF DispatcherTick, CmdAllowed, Ready, Drops
    <2>5. gmem # <<>> => Head(gmem) = gmem[1]
        BY DEF Head
    <2>6. Full(c, answers) => answers
        BY DEF Full
    <2>7. Reads(pop) => gmem # <<>>
        BY DEF Reads
    <2> DEFINE rest == IF Reads(pop) THEN Tail(gmem) ELSE gmem
    <2>8. CASE Drops(c)
        <3>1. gmem' = <<>> /\ oValid' = FALSE /\ oLane' = 0 /\ dcount' = 0
            BY <1>7, <2>1, <2>8 DEF QueueTick, Drops
        <3> HIDE DEF pop
        <3> QED BY <2>3, <2>4, <2>8, <3>1 DEF QueueEdge
    <2>9. CASE ~Drops(c)
        <3>1. /\ gmem' = IF Full(c, answers) THEN Append(rest, Append(hist, mem[1])) ELSE rest
              /\ oGrp' = IF Reads(pop) THEN gmem[1] ELSE oGrp
              /\ oValid' = (Reads(pop) \/ (oValid /\ ~LastPop(pop)))
              /\ oLane' = IF Reads(pop) THEN IF skipR THEN skip ELSE 0
                          ELSE IF pop /\ ~LastPop(pop) THEN oLane + 1 ELSE oLane
              /\ dcount' = dcount + (IF Full(c, answers) THEN AddN ELSE 0) - One(pop)
            BY <1>7, <2>1, <2>2, <2>5, <2>6, <2>7, <2>9 DEF QueueTick, Drops
        <3> HIDE DEF pop
        <3> QED BY <2>3, <2>4, <2>9, <3>1 DEF QueueEdge
    <2> QED BY <2>8, <2>9
<1>11. ReaderEdge(grant, load)
    <2>1. sReq' \in BOOLEAN /\ vReq' \in BOOLEAN /\ sLen' \in SLens
        BY <1>4 DEF ReadersTick, FetchTypes
    <2>2. TakeF(Presented, rdReady) <=> grant
        BY <1>7 DEF TakeF
    <2>3. /\ sLen \in Nat /\ sBeats \in Nat /\ granted \in 0 .. MaxBurst /\ granted <= sBeats
          /\ MaxBurst \in Nat /\ MaxBurst <= BeatCap /\ BeatCap \in Nat /\ BeatMod \in Nat
          /\ BeatCap + sLen <= BeatMod
        BY ReadArbAssumption, FetchPathAssumption DEF FetchTypes, GrantInv
    <2>4. sBeats < BeatCap => (sBeats + sLen) % BeatMod = sBeats + sLen
        <3>1. sBeats < BeatCap => sBeats + sLen \in 0 .. (BeatMod - 1) /\ BeatMod \in Nat \ {0}
            BY <2>3
        <3> QED BY <3>1, ModSmall
    <2>5. /\ granted' = IF grant THEN 0 ELSE IF TakeS(Presented, rdReady)
                        THEN AtMost(granted + sLen, MaxBurst) ELSE granted
          /\ overtook' = IF WrIdle THEN 0 ELSE IF grant THEN AtMost(overtook + 1, 2) ELSE overtook
          /\ sBeats' = IF grant THEN 0
                       ELSE IF TakeS(Presented, rdReady) /\ sBeats < BeatCap
                       THEN (sBeats + sLen) % BeatMod ELSE sBeats
        BY <1>1, <1>7, <2>2 DEF Step, HistTick, ArbTick, SBeatsTick
    <2>6. sBeats' \in Nat /\ granted' \in 0 .. MaxBurst /\ granted' <= sBeats'
        BY <2>3, <2>4, <2>5 DEF AtMost
    <2> HIDE DEF grant, load
    <2> QED BY <2>1, <2>5, <2>6 DEF ReaderEdge
<1>12. grant \in BOOLEAN /\ load \in BOOLEAN /\ took \in BOOLEAN /\ pop \in BOOLEAN
    BY <1>5 DEF LoadReq, FetchTypes, Ready, InStage
<1> HIDE DEF grant, load, took, pop
<1> QED BY <1>5, <1>9, <1>10, <1>11, <1>12

-----------------------------------------------------------------------------
(* The beats on their way *)

\* Memory loses the beat that comes back and gains those of the request it took.
LEMMA MemMoves ==
    ASSUME FetchTypes, NEW c, NEW grant \in BOOLEAN, NEW load \in BOOLEAN, NEW beat \in BOOLEAN,
           NEW took \in BOOLEAN, FlightEdge(c, grant, load, beat, took)
    PROVE  /\ mem' \in Seq(Bytes)
           /\ Len(mem') = Len(mem) - One(beat) + (IF took THEN BPR ELSE 0)
           /\ \A i \in 1 .. Len(mem') :
                  mem'[i] = IF i <= Len(mem) - One(beat) THEN mem[i + One(beat)]
                            ELSE BeatAt(rq.addr, i - (Len(mem) - One(beat)))
           /\ beat => mem # <<>> /\ mem[1] \in Bytes /\ Len(mem) >= 1
<1> DEFINE m1 == IF beat THEN Tail(mem) ELSE mem
           m2 == IF took THEN BeatsOf(rq.addr) ELSE <<>>
<1>1. mem \in Seq(Bytes) /\ rq.addr \in Bases /\ (beat => mem # <<>>)
    BY DEF FetchTypes, FlightEdge
<1>2. Len(mem) \in Nat /\ (beat => Len(mem) >= 1 /\ mem[1] \in Bytes)
    BY <1>1
<1>3. /\ m1 \in Seq(Bytes) /\ Len(m1) = Len(mem) - One(beat)
      /\ \A i \in 1 .. Len(m1) : m1[i] = mem[i + One(beat)]
    BY <1>1, <1>2 DEF One
<1>4. /\ m2 \in Seq(Bytes) /\ Len(m2) = (IF took THEN BPR ELSE 0)
      /\ \A i \in 1 .. Len(m2) : m2[i] = BeatAt(rq.addr, i)
    <2>1. /\ BeatsOf(rq.addr) \in Seq(Bytes) /\ Len(BeatsOf(rq.addr)) = BPR
          /\ \A i \in 1 .. BPR : BeatsOf(rq.addr)[i] = BeatAt(rq.addr, i)
        BY <1>1, BeatsOfGroup
    <2>2. CASE took BY <2>1, <2>2
    <2>3. CASE ~took BY <2>3
    <2> QED BY <2>2, <2>3
<1>5. mem' = m1 \o m2
    BY DEF FlightEdge
<1> HIDE DEF m1, m2
<1>6. mem' \in Seq(Bytes) /\ Len(mem') = Len(m1) + Len(m2) /\ Len(m1) \in Nat /\ Len(m2) \in Nat
    <2>1. m1 \o m2 \in Seq(Bytes) /\ Len(m1 \o m2) = Len(m1) + Len(m2)
        BY <1>3, <1>4, ConcatProperties
    <2>2. Len(m1) \in Nat /\ Len(m2) \in Nat
        BY <1>3, <1>4, LenProperties
    <2> QED BY <1>5, <2>1, <2>2
<1>7. \A i \in 1 .. Len(mem') : mem'[i] = IF i <= Len(m1) THEN m1[i] ELSE m2[i - Len(m1)]
    BY <1>3, <1>4, <1>5, <1>6, ConcatProperties
<1>8. ASSUME NEW i \in 1 .. Len(mem')
      PROVE  mem'[i] = IF i <= Len(mem) - One(beat) THEN mem[i + One(beat)]
                       ELSE BeatAt(rq.addr, i - (Len(mem) - One(beat)))
    <2>1. CASE i <= Len(m1)
        BY <1>3, <1>6, <1>7, <2>1
    <2>2. CASE ~(i <= Len(m1))
        <3>1. i - Len(m1) \in 1 .. Len(m2)
            BY <1>6, <2>2
        <3> QED BY <1>3, <1>4, <1>6, <1>7, <2>2, <3>1
    <2> QED BY <2>1, <2>2
<1> QED BY <1>1, <1>2, <1>3, <1>4, <1>6, <1>8

\* The half-assembled group takes the beat, up to the last.
LEMMA HistMoves ==
    ASSUME FetchTypes, CountInv, NEW c, NEW grant \in BOOLEAN, NEW load \in BOOLEAN,
           NEW beat \in BOOLEAN, NEW took \in BOOLEAN, FlightEdge(c, grant, load, beat, took)
    PROVE  /\ hist' \in Seq(Bytes) /\ Len(hist) \in 0 .. (BPR - 1) /\ Len(hist') \in 0 .. (BPR - 1)
           /\ Drops(c) => hist' = <<>>
           /\ ~Drops(c) /\ (~beat \/ stale) => hist' = hist
           /\ ~Drops(c) /\ beat /\ ~stale =>
                IF Len(hist) = BPR - 1 THEN hist' = <<>>
                ELSE /\ Len(hist') = Len(hist) + 1 /\ hist'[Len(hist) + 1] = mem[1]
                     /\ \A j \in 1 .. Len(hist) : hist'[j] = hist[j]
<1>1. hist \in Seq(Bytes) /\ Len(hist) < BPR /\ Len(hist) \in Nat /\ BPR \in Nat \ {0}
      /\ (beat => mem[1] \in Bytes)
    BY Sizes, MemMoves DEF FetchTypes, CountInv
<1>2. /\ beat => Append(hist, mem[1]) \in Seq(Bytes) /\ Len(Append(hist, mem[1])) = Len(hist) + 1
      /\ Append(hist, mem[1])[Len(hist) + 1] = mem[1]
      /\ \A j \in 1 .. Len(hist) : Append(hist, mem[1])[j] = hist[j]
    BY <1>1
<1>3. hist' = IF Drops(c) THEN <<>>
              ELSE IF ~beat \/ stale THEN hist
              ELSE IF Len(hist) = BPR - 1 THEN <<>> ELSE Append(hist, mem[1])
    BY DEF FlightEdge
<1>4. <<>> \in Seq(Bytes) /\ Len(<<>>) = 0
    OBVIOUS
<1> QED BY <1>1, <1>2, <1>3, <1>4

\* The queue as its length tells: a reader takes a group only into the output
\* register it has left.
LEMMA QueueLength ==
    ASSUME FetchTypes, NEW c, NEW beat \in BOOLEAN, NEW pop \in BOOLEAN, QueueEdge(c, beat, pop)
    PROVE  /\ Len(gmem) \in Nat /\ (gmem = <<>> <=> Len(gmem) = 0) /\ oValid \in BOOLEAN
           /\ oValid' \in BOOLEAN
           /\ Drops(c) => gmem' = <<>> /\ oValid' = FALSE
           /\ ~Drops(c) =>
                /\ Len(gmem') = Len(gmem) - One(Reads(pop)) + One(Full(c, beat))
                /\ One(oValid') <= One(oValid) + One(Reads(pop))
                /\ Reads(pop) => Len(gmem) >= 1 /\ (oValid => pop)
                /\ gmem = <<>> /\ ~Full(c, beat) => gmem' = <<>>
                /\ gmem = <<>> /\ ~oValid => oValid' = FALSE
           /\ Len(gmem') \in Nat
<1> DEFINE rest == IF Reads(pop) THEN Tail(gmem) ELSE gmem
           g == Append(hist, mem[1])
<1>1. gmem \in Seq(Groups) /\ oValid \in BOOLEAN /\ Len(gmem) \in Nat
      /\ (gmem = <<>> <=> Len(gmem) = 0) /\ (Reads(pop) => gmem # <<>>)
    BY DEF FetchTypes, Reads
<1>2. rest \in Seq(Groups) /\ Len(rest) = Len(gmem) - One(Reads(pop)) /\ (gmem = <<>> => rest = <<>>)
    BY <1>1 DEF One
<1>3. Len(Append(rest, g)) = Len(rest) + 1
    BY <1>2
<1> HIDE DEF rest, g
<1>4. CASE Drops(c)
    <2>1. gmem' = <<>> /\ oValid' = FALSE
        BY <1>4 DEF QueueEdge
    <2> QED BY <1>1, <1>4, <2>1
<1>5. CASE ~Drops(c)
    <2>1. /\ gmem' = IF Full(c, beat) THEN Append(rest, g) ELSE rest
          /\ oValid' = (Reads(pop) \/ (oValid /\ ~LastPop(pop)))
        BY <1>5 DEF QueueEdge, rest, g
    <2>2. Len(gmem') = Len(gmem) - One(Reads(pop)) + One(Full(c, beat)) /\ Len(gmem') \in Nat
        <3>1. CASE Full(c, beat)
            BY <1>1, <1>2, <1>3, <2>1, <3>1 DEF One
        <3>2. CASE ~Full(c, beat)
            BY <1>1, <1>2, <2>1, <3>2 DEF One
        <3> QED BY <3>1, <3>2
    <2>3. /\ One(oValid') <= One(oValid) + One(Reads(pop)) /\ oValid' \in BOOLEAN
          /\ Reads(pop) => Len(gmem) >= 1 /\ (oValid => pop)
          /\ gmem = <<>> /\ ~oValid => oValid' = FALSE
        BY <1>1, <2>1 DEF One, Reads, LastPop
    <2> QED BY <1>1, <1>2, <1>5, <2>1, <2>2, <2>3
<1> QED BY <1>4, <1>5

LEMMA CountStep ==
    ASSUME FetchTypes, CountInv, Next, GrantInv
    PROVE  CountInv'
<1>1. PICK c \in Cmds, grant, load, beat, took, pop \in BOOLEAN :
          FlightEdge(c, grant, load, beat, took) /\ QueueEdge(c, beat, pop)
    BY Edges
<1> DEFINE m == Len(mem)
           n == Len(hist)
           g == Len(gmem)
           last == beat /\ mem[1] % GB = GB - WB
<1>2. /\ m \in Nat /\ BPR \in Nat \ {0} /\ (mem = <<>> <=> m = 0) /\ (beat => m >= 1)
      /\ m' = m - One(beat) + (IF took THEN BPR ELSE 0)
      /\ mem' \in Seq(Bytes) /\ m' \in Nat /\ (mem' = <<>> <=> m' = 0)
      /\ GD >= 2 /\ GD \in Nat
    <2>0. mem \in Seq(Bytes)
        BY DEF FetchTypes
    <2>1. mem' \in Seq(Bytes) /\ (beat => m >= 1)
          /\ m' = m - One(beat) + (IF took THEN BPR ELSE 0)
        BY <1>1, MemMoves
    <2>2. m \in Nat /\ m' \in Nat /\ (mem = <<>> <=> m = 0) /\ (mem' = <<>> <=> m' = 0)
        BY <2>0, <2>1, EmptySeq
    <2> HIDE DEF m
    <2> QED BY <2>1, <2>2, Sizes
<1>3. /\ n \in 0 .. (BPR - 1) /\ n' \in 0 .. (BPR - 1)
      /\ Drops(c) => hist' = <<>>
      /\ ~Drops(c) /\ (~beat \/ stale) => hist' = hist
      /\ ~Drops(c) /\ beat /\ ~stale => n' = IF n = BPR - 1 THEN 0 ELSE n + 1
      /\ (hist' = <<>> => n' = 0)
    <2>1. Len(<<>>) = 0
        OBVIOUS
    <2> QED BY <1>1, <2>1, HistMoves
<1>4. /\ load => ~stale /\ ~Drops(c) /\ g + One(oValid) + bursts + One(fReqValid) < GD
                 /\ bursts + One(fReqValid) < 2 /\ (fReqValid => grant)
      /\ grant => fReqValid /\ (InStage => took)
      /\ took => InStage
      /\ fReqValid' = (load \/ (fReqValid /\ ~grant))
      /\ outBeats' = outBeats + (IF grant THEN BPR ELSE 0) - One(beat)
      /\ bursts' = bursts + One(grant) - One(last)
      /\ stale' = ((Drops(c) \/ stale) /\ (outBeats' # 0 \/ fReqValid'))
      /\ InStage' <=> grant \/ (InStage /\ ~took)
    BY <1>1 DEF FlightEdge, Room, GUsed, BurstRoom
<1>5. /\ outBeats = m + (IF InStage THEN BPR ELSE 0)
      /\ m <= BPR + BPR
      /\ bursts = (IF m = 0 THEN 0 ELSE IF m <= BPR THEN 1 ELSE 2) + One(InStage)
      /\ bursts + One(fReqValid) <= 2 /\ g + One(oValid) + bursts + One(fReqValid) <= GD
      /\ stale => hist = <<>> /\ gmem = <<>> /\ ~oValid
      /\ ~stale => n + m \in {0, BPR, BPR + BPR}
      /\ \A i \in 1 .. m : (mem[i] % GB = GB - WB) <=> (i = m \/ i = m - BPR)
      /\ stale \in BOOLEAN /\ fReqValid \in BOOLEAN
    BY <1>2 DEF CountInv, GUsed, FetchTypes
<1>6. last <=> beat /\ (m = 1 \/ m = BPR + 1)
    <2>1. beat => 1 \in 1 .. m
        BY <1>2
    <2>2. beat => ((mem[1] % GB = GB - WB) <=> (1 = m \/ 1 = m - BPR))
        BY <1>5, <2>1
    <2> HIDE DEF m
    <2> QED BY <1>2, <2>2 DEF last
<1>7. /\ Drops(c) => gmem' = <<>> /\ oValid' = FALSE
      /\ ~Drops(c) /\ stale => gmem' = <<>> /\ oValid' = FALSE
      /\ ~Drops(c) => g' + One(oValid') <= g + One(oValid) + One(Full(c, beat))
      /\ g \in Nat /\ g' \in Nat
    <2>1. stale => ~Full(c, beat)
        BY DEF Full
    <2>2. /\ g \in Nat /\ (gmem = <<>> <=> g = 0) /\ oValid \in BOOLEAN /\ g' \in Nat
          /\ Drops(c) => gmem' = <<>> /\ oValid' = FALSE
          /\ ~Drops(c) =>
                /\ g' = g - One(Reads(pop)) + One(Full(c, beat))
                /\ One(oValid') <= One(oValid) + One(Reads(pop))
                /\ gmem = <<>> /\ ~Full(c, beat) => gmem' = <<>>
                /\ gmem = <<>> /\ ~oValid => oValid' = FALSE
        BY <1>1, QueueLength
    <2> HIDE DEF g
    <2>3. /\ One(oValid') \in Int /\ One(oValid) \in Int /\ One(Reads(pop)) \in Int
          /\ One(Full(c, beat)) \in Int
        BY DEF One
    <2>4. ~Drops(c) => g' + One(oValid') <= g + One(oValid) + One(Full(c, beat))
        BY <2>2, <2>3
    <2> QED BY <1>5, <2>1, <2>2, <2>4
<1>8. Full(c, beat) <=> beat /\ ~stale /\ ~Drops(c) /\ n = BPR - 1
    BY DEF Full
<1>9. \A i \in 1 .. m' : (mem'[i] % GB = GB - WB) <=> (i = m' \/ i = m' - BPR)
    <2> SUFFICES ASSUME NEW i \in 1 .. m'
                 PROVE  (mem'[i] % GB = GB - WB) <=> (i = m' \/ i = m' - BPR)
        OBVIOUS
    <2>1. mem'[i] = IF i <= m - One(beat) THEN mem[i + One(beat)]
                    ELSE BeatAt(rq.addr, i - (m - One(beat)))
        BY <1>1, MemMoves
    <2>2. CASE i <= m - One(beat)
        <3>1. i + One(beat) \in 1 .. m
            BY <1>2, <2>2 DEF One
        <3>2. took => m <= BPR
            BY <1>2, <1>4, <1>5 DEF One
        <3>3. (mem[i + One(beat)] % GB = GB - WB) <=> (i + One(beat) = m \/ i + One(beat) = m - BPR)
            BY <1>5, <3>1
        <3> HIDE DEF m
        <3> QED BY <1>2, <2>1, <2>2, <3>2, <3>3 DEF One
    <2>3. CASE ~(i <= m - One(beat))
        <3>1. took /\ i - (m - One(beat)) \in 1 .. BPR
            BY <1>2, <2>3 DEF One
        <3>2. rq.addr \in Bases
            BY DEF FetchTypes
        <3> DEFINE j == i - (m - One(beat))
        <3>3. (BeatAt(rq.addr, j) % GB = GB - WB) <=> j = BPR
            BY <3>1, <3>2, Beats
        <3> QED BY <1>2, <2>1, <2>3, <3>1, <3>3 DEF One
    <2> QED BY <2>2, <2>3
<1> HIDE DEF m, n, g, last
<1>10. /\ outBeats' = m' + (IF InStage' THEN BPR ELSE 0)
       /\ m' <= BPR + BPR
       /\ bursts' = (IF m' = 0 THEN 0 ELSE IF m' <= BPR THEN 1 ELSE 2) + One(InStage')
    BY <1>2, <1>4, <1>5, <1>6 DEF One
<1>11. bursts' + One(fReqValid') <= 2
    BY <1>2, <1>4, <1>5, <1>6 DEF One
<1>12. g' + One(oValid') + bursts' + One(fReqValid') <= GD
    <2>1. CASE Drops(c) \/ stale
        <3>1. g' = 0 /\ One(oValid') = 0
            BY <1>7, <2>1 DEF g, One
        <3> QED BY <1>2, <1>10, <1>11, <3>1 DEF One
    <2>2. CASE ~Drops(c) /\ ~stale
        <3>1. Full(c, beat) => last
            BY <1>2, <1>3, <1>5, <1>6, <1>8, <2>2
        <3>2. g' + One(oValid') <= g + One(oValid) + One(last)
            <4>1. One(Full(c, beat)) <= One(last) /\ One(Full(c, beat)) \in Int /\ One(last) \in Int
                  /\ One(oValid') \in Int /\ One(oValid) \in Int
                BY <3>1 DEF One
            <4> QED BY <1>7, <2>2, <4>1
        <3>3. bursts' + One(fReqValid') + One(last) <= bursts + One(fReqValid) + One(load)
            BY <1>4, <1>5, <1>2, <1>6 DEF One
        <3>4. g + One(oValid) + bursts + One(fReqValid) + One(load) <= GD
            BY <1>2, <1>4, <1>5, <1>7 DEF One
        <3>5. /\ One(oValid) \in Int
              /\ One(oValid') \in Int /\ One(last) \in Int /\ One(load) \in Int
              /\ One(fReqValid) \in Int /\ One(fReqValid') \in Int
            BY DEF One
        <3>6. g' \in Int /\ g \in Int /\ bursts \in Int /\ bursts' \in Int
            BY <1>2, <1>5, <1>7, <1>10 DEF One
        <3>7. GD \in Int
            BY <1>2
        <3> HIDE DEF last
        <3> DEFINE u == g' + One(oValid')
                   v == g + One(oValid)
                   w == bursts' + One(fReqValid')
                   x == bursts + One(fReqValid)
                   y == One(last)
                   z == One(load)
        <3>8. u \in Int /\ v \in Int /\ w \in Int /\ x \in Int /\ y \in Int /\ z \in Int
            BY <3>5, <3>6
        <3>9. u <= v + y /\ w + y <= x + z /\ v + x + z <= GD
            BY <3>2, <3>3, <3>4, <3>5, <3>6
        <3>10. g' + One(oValid') + bursts' + One(fReqValid') = u + w
            BY <3>5, <3>6
        <3> HIDE DEF u, v, w, x, y, z
        <3>11. u + w <= GD
            BY <3>7, <3>8, <3>9
        <3> QED BY <3>10, <3>11
    <2> QED BY <2>1, <2>2
<1>13. stale' => hist' = <<>> /\ gmem' = <<>> /\ ~oValid'
    BY <1>3, <1>4, <1>5, <1>7
<1>14. ~stale' => n' + m' \in {0, BPR, BPR + BPR}
    <2>1. CASE Drops(c) \/ stale
        <3>1. ~stale' => outBeats' = 0
            BY <1>4, <2>1
        <3>2. hist' = <<>>
            BY <1>3, <1>5, <2>1
        <3> QED BY <1>2, <1>3, <1>10, <3>1, <3>2
    <2>2. CASE ~Drops(c) /\ ~stale
        <3>1. took => m <= BPR
            BY <1>2, <1>4, <1>5 DEF One
        <3>2. beat => n' = IF n = BPR - 1 THEN 0 ELSE n + 1
            BY <1>3, <2>2
        <3>3. ~beat => n' = n
            BY <1>3, <2>2 DEF n
        <3>4. n + m \in {0, BPR, BPR + BPR} /\ m <= BPR + BPR
            BY <1>5, <2>2
        <3>5. m' = m - One(beat) + (IF took THEN BPR ELSE 0) /\ (beat => m >= 1)
            BY <1>2
        <3>6. n \in 0 .. (BPR - 1) /\ m \in Nat /\ BPR \in Nat \ {0}
            BY <1>2, <1>3
        <3>7. CASE beat /\ took
            BY <3>1, <3>2, <3>4, <3>5, <3>6, <3>7 DEF One
        <3>8. CASE beat /\ ~took
            BY <3>2, <3>4, <3>5, <3>6, <3>8 DEF One
        <3>9. CASE ~beat /\ took
            BY <3>1, <3>3, <3>4, <3>5, <3>6, <3>9 DEF One
        <3>10. CASE ~beat /\ ~took
            BY <3>3, <3>4, <3>5, <3>6, <3>10 DEF One
        <3> QED BY <3>7, <3>8, <3>9, <3>10
    <2> QED BY <2>1, <2>2
<1>15. n' < BPR
    BY <1>2, <1>3
<1> QED
    BY <1>2, <1>9, <1>10, <1>11, <1>12, <1>13, <1>14, <1>15 DEF CountInv, GUsed, m, n, g

-----------------------------------------------------------------------------
(* The addresses on their way *)

LEMMA AfterMoves ==
    ASSUME NEW a \in Bases
    PROVE  /\ After(a, 0) = a /\ After(a, 1) = NextGrp(a) /\ After(a, 2) = NextGrp(NextGrp(a))
           /\ NextGrp(a) \in Bases
    BY NextGrpType DEF After

\* The beats counted while answers are wanted: the last of a burst completes a
\* group, and one that is half assembled waits for the beats behind it.
LEMMA BeatCounts ==
    ASSUME FetchTypes, CountInv, ~stale, NEW c, NEW grant \in BOOLEAN, NEW load \in BOOLEAN,
           NEW beat \in BOOLEAN, NEW took \in BOOLEAN, FlightEdge(c, grant, load, beat, took),
           ~Drops(c)
    PROVE  /\ Len(mem) \in Nat /\ Len(hist) \in 0 .. (BPR - 1) /\ BPR \in Nat \ {0}
           /\ Full(c, beat) => beat /\ Len(hist) = BPR - 1 /\ Len(mem) \in {1, BPR + 1} /\ bursts >= 1
           /\ ~Full(c, beat) /\ beat => Len(hist) < BPR - 1
           /\ bursts' = bursts + One(grant) - One(Full(c, beat))
           /\ beat => Len(mem) >= 1
           /\ InStage => /\ ~fReqValid \/ (Len(mem) = 0)
                         /\ bursts = (IF Len(mem) = 0 THEN 1 ELSE 2)
                         /\ Len(mem) <= BPR /\ (Len(mem) # 0 => Len(hist) + Len(mem) = BPR)
           /\ Len(mem) = 0 => Len(hist) = 0
           /\ ~InStage => bursts = (IF Len(mem) = 0 THEN 0 ELSE IF Len(mem) <= BPR THEN 1 ELSE 2)
           /\ fReqValid => bursts \in {0, 1}
           /\ load => bursts + One(fReqValid) \in {0, 1} /\ (fReqValid => grant)
           /\ bursts \in {0, 1, 2} /\ bursts + One(fReqValid) \in {0, 1, 2}
<1> DEFINE m == Len(mem)
           n == Len(hist)
           last == beat /\ mem[1] % GB = GB - WB
<1>1. /\ mem \in Seq(Bytes) /\ (beat => m >= 1) /\ n \in 0 .. (BPR - 1) /\ BPR \in Nat \ {0}
      /\ m \in Nat /\ (mem = <<>> <=> m = 0)
    <2>1. mem \in Seq(Bytes)
        BY DEF FetchTypes
    <2>2. m \in Nat /\ (mem = <<>> <=> m = 0)
        BY <2>1, EmptySeq
    <2>3. (beat => m >= 1) /\ n \in 0 .. (BPR - 1)
        BY MemMoves, HistMoves
    <2> QED BY <2>1, <2>2, <2>3, Sizes
<1>2. /\ \A i \in 1 .. m : (mem[i] % GB = GB - WB) <=> (i = m \/ i = m - BPR)
      /\ m <= BPR + BPR
      /\ bursts = (IF m = 0 THEN 0 ELSE IF m <= BPR THEN 1 ELSE 2) + One(InStage)
      /\ bursts + One(fReqValid) <= 2
      /\ n + m \in {0, BPR, BPR + BPR}
      /\ fReqValid \in BOOLEAN
    BY <1>1 DEF CountInv, FetchTypes
<1>3. /\ load => bursts + One(fReqValid) < 2 /\ (fReqValid => grant)
      /\ bursts' = bursts + One(grant) - One(last)
    BY DEF FlightEdge, BurstRoom
<1>4. last <=> beat /\ (m = 1 \/ m = BPR + 1)
    <2>1. beat => 1 \in 1 .. m
        BY <1>1
    <2>2. beat => ((mem[1] % GB = GB - WB) <=> (1 = m \/ 1 = m - BPR))
        BY <1>2, <2>1
    <2> HIDE DEF m
    <2> QED BY <1>1, <2>2 DEF last
<1>5. Full(c, beat) <=> beat /\ n = BPR - 1
    BY DEF Full
<1> HIDE DEF m, n, last
<1>6. last <=> Full(c, beat)
    BY <1>1, <1>2, <1>4, <1>5
<1>7. bursts' = bursts + One(grant) - One(Full(c, beat))
    BY <1>3, <1>6 DEF One
<1>8. /\ Full(c, beat) => beat /\ n = BPR - 1 /\ m \in {1, BPR + 1} /\ bursts >= 1
      /\ ~Full(c, beat) /\ beat => n < BPR - 1
    BY <1>1, <1>2, <1>5 DEF One
<1>9. /\ InStage => /\ ~fReqValid \/ m = 0
                    /\ bursts = (IF m = 0 THEN 1 ELSE 2)
                    /\ m <= BPR /\ (m # 0 => n + m = BPR)
      /\ m = 0 => n = 0
      /\ ~InStage => bursts = (IF m = 0 THEN 0 ELSE IF m <= BPR THEN 1 ELSE 2)
    BY <1>1, <1>2 DEF One
<1>10. /\ fReqValid => bursts \in {0, 1}
       /\ load => bursts + One(fReqValid) \in {0, 1} /\ (fReqValid => grant)
       /\ bursts \in {0, 1, 2} /\ bursts + One(fReqValid) \in {0, 1, 2}
    BY <1>1, <1>2, <1>3 DEF One
<1> QED BY <1>1, <1>7, <1>8, <1>9, <1>10 DEF m, n

\* The base of the group after one that is completed is known already.
LEMMA DueMoves ==
    ASSUME FetchTypes, CountInv, CountInv', FlightInv, NEW c, NEW grant \in BOOLEAN,
           NEW load \in BOOLEAN, NEW beat \in BOOLEAN, NEW took \in BOOLEAN,
           FlightEdge(c, grant, load, beat, took)
    PROVE  /\ Drops(c) \/ stale =>
                /\ Due' = reqAddr'
                /\ ~stale' => bursts' = 0 /\ ~fReqValid' /\ ~InStage' /\ hist' = <<>> /\ mem' = <<>>
           /\ ~Drops(c) /\ ~stale =>
                ~stale' /\ Due' = IF Full(c, beat) THEN NextGrp(Due) ELSE Due
<1>0. mem \in Seq(Bytes) /\ mem' \in Seq(Bytes) /\ fReqValid \in BOOLEAN /\ stale \in BOOLEAN
    BY MemMoves DEF FetchTypes
<1>1. CASE Drops(c) \/ stale
    <2>1. stale' = (outBeats' # 0 \/ fReqValid')
        BY <1>1 DEF FlightEdge
    <2>2. hist' = <<>>
        BY <1>1, HistMoves DEF CountInv
    <2>3. ASSUME ~stale' PROVE bursts' = 0 /\ ~fReqValid' /\ ~InStage' /\ mem' = <<>>
        <3>1. outBeats' = 0 /\ ~fReqValid'
            BY <2>1, <2>3
        <3>2. /\ outBeats' = Len(mem') + (IF InStage' THEN BPR ELSE 0)
              /\ bursts' = (IF mem' = <<>> THEN 0 ELSE IF Len(mem') <= BPR THEN 1 ELSE 2) + One(InStage')
            BY DEF CountInv
        <3>3. Len(mem') \in Nat /\ BPR \in Nat \ {0} /\ (Len(mem') = 0 => mem' = <<>>)
            BY <1>0, Sizes, EmptySeq
        <3>4. Len(mem') = 0 /\ ~InStage'
            BY <3>1, <3>2, <3>3
        <3> QED BY <3>1, <3>2, <3>3, <3>4 DEF One
    <2>4. Due' = reqAddr'
        BY <2>2, <2>3 DEF Due
    <2> QED BY <1>1, <2>2, <2>3, <2>4
<1>2. CASE ~Drops(c) /\ ~stale
    <2>1. ~stale'
        BY <1>2 DEF FlightEdge
    <2> DEFINE D == Due
    <2>2. /\ D \in Bases
          /\ InStage => rq.addr = After(D, bursts - 1)
          /\ fReqValid => fReqAddr = After(D, bursts)
          /\ reqAddr = After(D, bursts + One(fReqValid))
          /\ \A j \in 1 .. Len(hist) : hist[j] = BeatAt(D, j)
          /\ \A i \in 1 .. Len(mem) :
                mem[i] = IF Len(hist) + i <= BPR THEN BeatAt(D, Len(hist) + i)
                         ELSE BeatAt(NextGrp(D), Len(hist) + i - BPR)
        BY <1>2 DEF FlightInv
    <2>3. D = IF hist # <<>> THEN hist[1]
              ELSE IF mem # <<>> THEN mem[1]
              ELSE IF InStage THEN rq.addr
              ELSE IF fReqValid THEN fReqAddr ELSE reqAddr
        BY <1>2 DEF Due
    <2>4. Due' = IF hist' # <<>> THEN hist'[1]
                 ELSE IF mem' # <<>> THEN mem'[1]
                 ELSE IF InStage' THEN rq'.addr
                 ELSE IF fReqValid' THEN fReqAddr' ELSE reqAddr'
        BY <2>1 DEF Due
    <2> SUFFICES Due' = IF Full(c, beat) THEN NextGrp(D) ELSE D
        BY <1>2, <2>1
    <2> HIDE DEF D
    <2>5. /\ load => (fReqValid => grant)
          /\ grant => fReqValid /\ (InStage => took)
          /\ took => InStage
          /\ fReqValid' = (load \/ (fReqValid /\ ~grant))
          /\ fReqAddr' = IF load THEN reqAddr ELSE fReqAddr
          /\ ~load => reqAddr' = reqAddr
          /\ InStage' <=> grant \/ (InStage /\ ~took)
          /\ InStage' => rq'.addr = IF grant THEN fReqAddr ELSE rq.addr
        BY <1>2 DEF FlightEdge, Drops
    <2>6. /\ Len(mem') = Len(mem) - One(beat) + (IF took THEN BPR ELSE 0)
          /\ \A i \in 1 .. Len(mem') :
                  mem'[i] = IF i <= Len(mem) - One(beat) THEN mem[i + One(beat)]
                            ELSE BeatAt(rq.addr, i - (Len(mem) - One(beat)))
          /\ Len(mem') \in Nat /\ (mem' = <<>> <=> Len(mem') = 0)
          /\ Len(mem) \in Nat /\ (mem = <<>> <=> Len(mem) = 0)
        <3>1. Len(mem') \in Nat /\ (mem' = <<>> <=> Len(mem') = 0) /\ Len(mem) \in Nat /\ (mem = <<>> <=> Len(mem) = 0)
            BY <1>0, EmptySeq
        <3> QED BY <3>1, MemMoves
    <2>7. /\ Len(hist) \in 0 .. (BPR - 1) /\ BPR \in Nat \ {0} /\ bursts \in {0, 1, 2}
          /\ Full(c, beat) => beat /\ Len(hist) = BPR - 1 /\ Len(mem) \in {1, BPR + 1} /\ bursts >= 1
          /\ beat => Len(mem) >= 1
          /\ InStage => /\ ~fReqValid \/ (Len(mem) = 0)
                        /\ bursts = (IF Len(mem) = 0 THEN 1 ELSE 2)
                        /\ Len(mem) <= BPR
          /\ Len(mem) = 0 => Len(hist) = 0
          /\ ~InStage => bursts = (IF Len(mem) = 0 THEN 0 ELSE IF Len(mem) <= BPR THEN 1 ELSE 2)
          /\ fReqValid => bursts \in {0, 1}
          /\ load => bursts + One(fReqValid) \in {0, 1}
        BY <1>2, BeatCounts
    <2>8. After(D, 0) = D /\ After(D, 1) = NextGrp(D)
        BY DEF After
    <2>9. BeatAt(D, 1) = D /\ BeatAt(NextGrp(D), 1) = NextGrp(D) /\ BeatAt(rq.addr, 1) = rq.addr
        <3>1. 1 \in 1 .. BPR /\ rq.addr \in Bases
            BY <2>7 DEF FetchTypes
        <3> QED BY <2>2, <3>1, NextGrpType, Beats
    <2>10. CASE Full(c, beat)
        <3>1. hist' = <<>>
            BY <1>2, <2>7, <2>10, HistMoves
        <3>2. CASE Len(mem) = BPR + 1
            <4>1. /\ bursts = 2 /\ ~took /\ Len(mem') = BPR /\ 2 \in 1 .. Len(mem) /\ 1 \in 1 .. Len(mem')
                  /\ 1 <= Len(mem) - One(beat)
                BY <2>5, <2>6, <2>7, <2>10, <3>2 DEF One
            <4>2. mem'[1] = mem[2]
                BY <2>6, <2>7, <2>10, <4>1 DEF One
            <4>3. mem[2] = BeatAt(NextGrp(D), 1)
                <5>1. ~(Len(hist) + 2 <= BPR) /\ Len(hist) + 2 - BPR = 1
                    BY <2>7, <2>10
                <5> QED BY <2>2, <4>1, <5>1
            <4> QED BY <2>4, <2>6, <2>7, <2>9, <2>10, <3>1, <4>1, <4>2, <4>3
        <3>3. CASE Len(mem) = 1
            <4>1. Len(mem') = (IF took THEN BPR ELSE 0)
                BY <2>6, <2>7, <2>10, <3>3 DEF One
            <4>2. CASE took
                <5>1. bursts - 1 = 1 /\ rq.addr = NextGrp(D)
                    BY <2>2, <2>5, <2>7, <2>8, <3>3, <4>2
                <5>2. 1 \in 1 .. Len(mem') /\ ~(1 <= Len(mem) - One(beat)) /\ 1 - (Len(mem) - One(beat)) = 1
                    BY <2>7, <2>10, <3>3, <4>1, <4>2 DEF One
                <5>3. mem'[1] = BeatAt(rq.addr, 1)
                    BY <2>6, <5>2
                <5> QED BY <2>4, <2>6, <2>7, <2>9, <2>10, <3>1, <4>1, <4>2, <5>1, <5>3
            <4>3. CASE ~took /\ InStage
                <5>1. bursts - 1 = 1 /\ rq.addr = NextGrp(D) /\ ~grant
                    BY <2>2, <2>5, <2>7, <2>8, <3>3, <4>3
                <5> QED BY <2>4, <2>5, <2>6, <2>10, <3>1, <4>1, <4>3, <5>1
            <4>4. CASE ~took /\ ~InStage
                <5>1. bursts = 1
                    BY <2>7, <3>3, <4>4
                <5>2. fReqValid => fReqAddr = NextGrp(D)
                    BY <2>2, <2>8, <5>1
                <5>3. ~fReqValid => reqAddr = NextGrp(D)
                    BY <2>2, <2>8, <5>1 DEF One
                <5>4. load => ~fReqValid
                    BY <1>0, <2>7, <5>1 DEF One
                <5> QED BY <2>4, <2>5, <2>6, <2>10, <3>1, <4>1, <4>4, <5>2, <5>3, <5>4
            <4> QED BY <4>2, <4>3, <4>4
        <3> QED BY <2>7, <2>10, <3>2, <3>3
    <2>11. CASE ~Full(c, beat)
        <3>1. /\ hist # <<>> => hist' # <<>> /\ hist'[1] = hist[1]
              /\ hist = <<>> /\ beat => hist' # <<>> /\ hist'[1] = mem[1]
              /\ hist = <<>> /\ ~beat => hist' = <<>>
            <4>1. /\ ~beat => hist' = hist
                  /\ beat => /\ Len(hist') = Len(hist) + 1 /\ hist'[Len(hist) + 1] = mem[1]
                             /\ \A j \in 1 .. Len(hist) : hist'[j] = hist[j]
                <5>1. beat => Len(hist) # BPR - 1
                    BY <1>2, <2>11 DEF Full
                <5> QED BY <1>2, <5>1, HistMoves
            <4>2. hist \in Seq(Bytes) /\ hist' \in Seq(Bytes)
                BY HistMoves DEF FetchTypes
            <4>3. /\ Len(hist) \in Nat /\ Len(hist') \in Nat /\ (hist = <<>> <=> Len(hist) = 0)
                  /\ (hist' = <<>> <=> Len(hist') = 0)
                BY <4>2, EmptySeq
            <4>4. hist # <<>> => 1 \in 1 .. Len(hist)
                BY <4>3
            <4>5. hist = <<>> => Len(hist) + 1 = 1
                BY <4>3
            <4> QED BY <4>1, <4>3, <4>4, <4>5
        <3>2. CASE hist # <<>> \/ beat
            <4>1. beat => mem # <<>>
                BY <2>6, <2>7
            <4> QED BY <2>3, <2>4, <2>11, <3>1, <3>2, <4>1
        <3>3. CASE hist = <<>> /\ ~beat /\ mem # <<>>
            <4>1. 1 \in 1 .. Len(mem') /\ 1 <= Len(mem) - One(beat) /\ 1 + One(beat) = 1
                BY <2>6, <2>7, <3>3 DEF One
            <4>2. mem'[1] = mem[1]
                BY <2>6, <4>1
            <4> QED BY <2>3, <2>4, <2>6, <2>11, <3>1, <3>3, <4>1, <4>2
        <3>4. CASE hist = <<>> /\ ~beat /\ mem = <<>> /\ took
            <4>1. 1 \in 1 .. Len(mem') /\ ~(1 <= Len(mem) - One(beat)) /\ 1 - (Len(mem) - One(beat)) = 1
                BY <2>6, <2>7, <3>4 DEF One
            <4>2. mem'[1] = BeatAt(rq.addr, 1)
                BY <2>6, <4>1
            <4> QED BY <2>3, <2>4, <2>5, <2>6, <2>9, <2>11, <3>1, <3>4, <4>1, <4>2
        <3>5. CASE hist = <<>> /\ ~beat /\ mem = <<>> /\ ~took
            <4>1. mem' = <<>>
                BY <2>6, <3>5 DEF One
            <4>2. ~InStage /\ load => ~fReqValid \/ grant
                BY <2>5
            <4>3. InStage => ~grant
                BY <2>5, <3>5
            <4>4. grant /\ load => fReqValid
                BY <2>5
            <4> QED BY <2>3, <2>4, <2>5, <2>11, <3>1, <3>5, <4>1, <4>2, <4>3, <4>4
        <3> QED BY <3>2, <3>3, <3>4, <3>5
    <2> QED BY <2>10, <2>11
<1> QED BY <1>0, <1>1, <1>2

\* The next request follows those on their way, at every edge.
LEMMA FlightStep ==
    ASSUME FetchTypes, CountInv, CountInv', FlightInv, NEW c \in Cmds, NEW grant \in BOOLEAN,
           NEW load \in BOOLEAN, NEW beat \in BOOLEAN, NEW took \in BOOLEAN,
           FlightEdge(c, grant, load, beat, took)
    PROVE  FlightInv' /\ reqAddr' \in Bases /\ fReqAddr' \in Bases
<1>1. reqAddr' \in Bases /\ fReqAddr' \in Bases
    <2>1. reqAddr \in Bases /\ fReqAddr \in Bases
        BY DEF FetchTypes
    <2>2. c.pc - (c.pc % GB) \in Bases
        BY CmdTypes, RestartPlace
    <2> QED BY <2>1, <2>2, NextGrpType DEF FlightEdge
<1>2. CASE Drops(c) \/ stale
    <2>1. Due' = reqAddr'
          /\ (~stale' => bursts' = 0 /\ ~fReqValid' /\ ~InStage' /\ hist' = <<>> /\ mem' = <<>>)
        BY <1>2, DueMoves
    <2>2. reqAddr' = After(reqAddr', 0)
        BY DEF After
    <2>3. ~stale' => bursts' + One(fReqValid') = 0
        BY <2>1 DEF One
    <2>4. Len(<<>>) = 0
        OBVIOUS
    <2> QED BY <1>1, <2>1, <2>2, <2>3, <2>4 DEF FlightInv
<1>3. CASE ~Drops(c) /\ ~stale
    <2> DEFINE D == Due
               E == IF Full(c, beat) THEN NextGrp(D) ELSE D
    <2>1. ~stale' /\ Due' = E
        BY <1>3, DueMoves
    <2>2. /\ D \in Bases
          /\ InStage => rq.addr = After(D, bursts - 1)
          /\ fReqValid => fReqAddr = After(D, bursts)
          /\ reqAddr = After(D, bursts + One(fReqValid))
          /\ \A j \in 1 .. Len(hist) : hist[j] = BeatAt(D, j)
          /\ \A i \in 1 .. Len(mem) :
                mem[i] = IF Len(hist) + i <= BPR THEN BeatAt(D, Len(hist) + i)
                         ELSE BeatAt(NextGrp(D), Len(hist) + i - BPR)
        BY <1>3 DEF FlightInv
    <2> HIDE DEF D
    <2>3. /\ load => (fReqValid => grant)
          /\ grant => fReqValid /\ (InStage => took)
          /\ took => InStage
          /\ fReqValid' = (load \/ (fReqValid /\ ~grant))
          /\ fReqAddr' = IF load THEN reqAddr ELSE fReqAddr
          /\ reqAddr' = IF load THEN NextGrp(reqAddr) ELSE reqAddr
          /\ InStage' <=> grant \/ (InStage /\ ~took)
          /\ InStage' => rq'.addr = IF grant THEN fReqAddr ELSE rq.addr
        BY <1>3 DEF FlightEdge, Drops
    <2>4. /\ Len(hist) \in 0 .. (BPR - 1) /\ BPR \in Nat \ {0} /\ bursts \in {0, 1, 2}
          /\ Full(c, beat) => beat /\ Len(hist) = BPR - 1 /\ Len(mem) \in {1, BPR + 1} /\ bursts >= 1
          /\ ~Full(c, beat) /\ beat => Len(hist) < BPR - 1
          /\ beat => Len(mem) >= 1
          /\ bursts' = bursts + One(grant) - One(Full(c, beat))
          /\ InStage => /\ ~fReqValid \/ (Len(mem) = 0)
                        /\ bursts = (IF Len(mem) = 0 THEN 1 ELSE 2)
                        /\ Len(mem) <= BPR /\ (Len(mem) # 0 => Len(hist) + Len(mem) = BPR)
          /\ Len(mem) = 0 => Len(hist) = 0
          /\ fReqValid => bursts \in {0, 1}
          /\ load => bursts + One(fReqValid) \in {0, 1}
          /\ bursts + One(fReqValid) \in {0, 1, 2} /\ Len(mem) \in Nat
        BY <1>3, BeatCounts
    <2>5. /\ \A k \in {0, 1} : After(NextGrp(D), k) = After(D, k + 1)
          /\ \A k \in {0, 1} : NextGrp(After(D, k)) = After(D, k + 1)
        BY DEF After
    <2>6. Full(c, beat) \in BOOLEAN /\ fReqValid \in BOOLEAN
        BY <2>4 DEF Full, FetchTypes
    <2>7. E \in Bases
        BY <2>2, NextGrpType
    \* k requests past the base that is due, counted from the base of before.
    <2>8. ASSUME NEW k \in {0, 1, 2}, Full(c, beat) => k >= 1
          PROVE  After(E, k - One(Full(c, beat))) = After(D, k)
        <3>1. CASE Full(c, beat)
            <4>1. k - 1 \in {0, 1} /\ k - 1 + 1 = k
                BY <2>8, <3>1
            <4> QED BY <2>5, <3>1, <4>1 DEF One
        <3>2. CASE ~Full(c, beat)
            BY <3>2 DEF One
        <3> QED BY <2>6, <3>1, <3>2
    <2> HIDE DEF E
    <2>9. InStage' => rq'.addr = After(Due', bursts' - 1)
        <3>1. CASE grant
            <4>1. bursts' - 1 = bursts - One(Full(c, beat))
                BY <2>4, <2>6, <3>1 DEF One
            <4>2. After(E, bursts - One(Full(c, beat))) = After(D, bursts)
                BY <2>4, <2>8
            <4> QED BY <2>1, <2>2, <2>3, <3>1, <4>1, <4>2
        <3>2. CASE ~grant /\ InStage
            <4> DEFINE k == bursts - 1
            <4>1. k \in {0, 1, 2} /\ (Full(c, beat) => k >= 1) /\ bursts' - 1 = k - One(Full(c, beat))
                BY <2>4, <2>6, <3>2 DEF One
            <4> HIDE DEF k
            <4>2. After(E, k - One(Full(c, beat))) = After(D, k)
                BY <2>8, <4>1
            <4>3. rq.addr = After(D, k)
                BY <2>2, <3>2 DEF k
            <4> QED BY <2>1, <2>3, <3>2, <4>1, <4>2, <4>3
        <3> QED BY <2>3, <3>1, <3>2
    <2>10. fReqValid' => fReqAddr' = After(Due', bursts')
        <3>1. CASE load
            <4> DEFINE k == bursts + One(fReqValid)
            <4>1. k \in {0, 1, 2} /\ (Full(c, beat) => k >= 1) /\ bursts' = k - One(Full(c, beat))
                BY <2>3, <2>4, <2>6, <3>1 DEF One
            <4>2. reqAddr = After(D, k)
                BY <2>2
            <4> HIDE DEF k
            <4>3. After(E, k - One(Full(c, beat))) = After(D, k)
                BY <2>8, <4>1
            <4> QED BY <2>1, <2>3, <3>1, <4>1, <4>2, <4>3
        <3>2. CASE ~load /\ fReqValid /\ ~grant
            <4>1. bursts' = bursts - One(Full(c, beat))
                BY <2>4, <2>6, <3>2 DEF One
            <4>2. After(E, bursts - One(Full(c, beat))) = After(D, bursts)
                BY <2>4, <2>8
            <4> QED BY <2>1, <2>2, <2>3, <3>2, <4>1, <4>2
        <3> QED BY <2>3, <3>1, <3>2
    <2>11. reqAddr' = After(Due', bursts' + One(fReqValid'))
        <3>1. CASE load
            <4> DEFINE j == bursts + One(fReqValid)
                       k == j + 1
            <4>1. j \in {0, 1} /\ k \in {0, 1, 2} /\ (Full(c, beat) => k >= 1)
                  /\ bursts' + One(fReqValid') = k - One(Full(c, beat))
                <5>1. One(fReqValid) = One(grant) /\ One(fReqValid') = 1 /\ j \in {0, 1}
                    BY <2>3, <2>4, <2>6, <3>1 DEF One
                <5>2. One(grant) \in Int /\ One(Full(c, beat)) \in Int /\ bursts \in Int
                    BY <2>4 DEF One
                <5>3. bursts' + One(fReqValid') = j + 1 - One(Full(c, beat))
                    BY <2>4, <5>1, <5>2
                <5>4. Full(c, beat) => j >= 1
                    BY <2>4, <5>1, <5>2 DEF One
                <5>0. bursts' + One(fReqValid') = k - One(Full(c, beat))
                    BY <5>1, <5>2, <5>3
                <5> HIDE DEF j
                <5>5. j \in {0, 1} /\ k = j + 1
                    BY <5>1
                <5>6. k \in {0, 1, 2} /\ (Full(c, beat) => k >= 1)
                    BY <5>5
                <5> QED BY <5>0, <5>5, <5>6
            <4>2. reqAddr = After(D, j)
                BY <2>2
            <4> HIDE DEF j
            <4>3. NextGrp(After(D, j)) = After(D, k)
                BY <2>5, <4>1
            <4> HIDE DEF k
            <4>4. After(E, k - One(Full(c, beat))) = After(D, k)
                BY <2>8, <4>1
            <4> QED BY <2>1, <2>3, <3>1, <4>1, <4>2, <4>3, <4>4
        <3>2. CASE ~load
            <4> DEFINE k == bursts + One(fReqValid)
            <4>1. fReqValid' <=> fReqValid /\ ~grant
                BY <2>3, <3>2
            <4>2. k \in {0, 1, 2} /\ (Full(c, beat) => k >= 1)
                  /\ bursts' + One(fReqValid') = k - One(Full(c, beat))
                BY <2>3, <2>4, <2>6, <4>1 DEF One
            <4>3. reqAddr = After(D, k)
                BY <2>2
            <4> HIDE DEF k
            <4>4. After(E, k - One(Full(c, beat))) = After(D, k)
                BY <2>8, <4>2
            <4> QED BY <2>1, <2>3, <3>2, <4>2, <4>3, <4>4
        <3> QED BY <3>1, <3>2
    <2>12. \A j \in 1 .. Len(hist') : hist'[j] = BeatAt(Due', j)
        <3>1. CASE Full(c, beat)
            <4>1. hist' = <<>>
                BY <1>3, <2>4, <3>1, HistMoves
            <4> QED BY <4>1
        <3>2. CASE ~Full(c, beat) /\ ~beat
            <4>1. hist' = hist
                BY <1>3, <3>2, HistMoves
            <4> QED BY <2>1, <2>2, <3>2, <4>1 DEF E
        <3>3. CASE ~Full(c, beat) /\ beat
            <4>1. Len(hist) # BPR - 1
                BY <2>4, <3>3
            <4>2. /\ Len(hist') = Len(hist) + 1 /\ hist'[Len(hist) + 1] = mem[1]
                  /\ \A j \in 1 .. Len(hist) : hist'[j] = hist[j]
                BY <1>3, <3>3, <4>1, HistMoves
            <4>3. mem[1] = BeatAt(D, Len(hist) + 1)
                <5>1. 1 \in 1 .. Len(mem) /\ Len(hist) + 1 <= BPR
                    BY <2>4, <3>3
                <5> QED BY <2>2, <5>1
            <4>4. Due' = D
                BY <2>1, <3>3 DEF E
            <4>5. ASSUME NEW j \in 1 .. Len(hist') PROVE hist'[j] = BeatAt(Due', j)
                <5>1. j \in 1 .. Len(hist) \/ j = Len(hist) + 1
                    BY <2>4, <4>2, <4>5
                <5> QED BY <2>2, <4>2, <4>3, <4>4, <5>1
            <4> QED BY <4>5
        <3> QED BY <3>1, <3>2, <3>3
    <2>13. \A i \in 1 .. Len(mem') :
              mem'[i] = IF Len(hist') + i <= BPR THEN BeatAt(Due', Len(hist') + i)
                        ELSE BeatAt(NextGrp(Due'), Len(hist') + i - BPR)
        <3> SUFFICES ASSUME NEW i \in 1 .. Len(mem')
                     PROVE  mem'[i] = IF Len(hist') + i <= BPR THEN BeatAt(Due', Len(hist') + i)
                                      ELSE BeatAt(NextGrp(Due'), Len(hist') + i - BPR)
            OBVIOUS
        <3> DEFINE m == Len(mem)
                   n == Len(hist)
        <3>1. /\ Len(mem') = m - One(beat) + (IF took THEN BPR ELSE 0)
              /\ mem'[i] = IF i <= m - One(beat) THEN mem[i + One(beat)]
                           ELSE BeatAt(rq.addr, i - (m - One(beat)))
            BY MemMoves
        <3>2. Len(hist') = IF Full(c, beat) THEN 0 ELSE n + One(beat)
            <4>1. ~Full(c, beat) /\ beat => Len(hist) # BPR - 1
                BY <2>4
            <4>2. Len(<<>>) = 0
                OBVIOUS
            <4>3. /\ Full(c, beat) => hist' = <<>>
                  /\ ~beat => hist' = hist
                  /\ ~Full(c, beat) /\ beat => Len(hist') = Len(hist) + 1
                BY <1>3, <2>4, <4>1, HistMoves
            <4> QED BY <2>4, <2>6, <4>2, <4>3 DEF One
        <3>3. i \in Nat \ {0} /\ i <= Len(mem')
            OBVIOUS
        <3>4. Due' = IF Full(c, beat) THEN NextGrp(D) ELSE D
            BY <2>1 DEF E
        <3>5. CASE i <= m - One(beat)
            <4>1. i + One(beat) \in 1 .. m
                BY <2>4, <3>3, <3>5 DEF One
            <4> DEFINE x == i + One(beat)
                       k == n + x
            <4>2. mem'[i] = IF k <= BPR THEN BeatAt(D, k) ELSE BeatAt(NextGrp(D), k - BPR)
                <5>1. x \in 1 .. Len(mem) /\ mem'[i] = mem[x]
                    BY <3>1, <3>5, <4>1
                <5> HIDE DEF x
                <5>2. \A l \in 1 .. Len(mem) :
                          mem[l] = IF n + l <= BPR THEN BeatAt(D, n + l) ELSE BeatAt(NextGrp(D), n + l - BPR)
                    BY <2>2
                <5>3. n \in Int /\ x \in Int /\ BPR \in Int
                    BY <2>4, <5>1
                <5> HIDE DEF n
                <5> QED BY <5>1, <5>2, <5>3
            <4>0. k = n + (i + One(beat))
                OBVIOUS
            <4> HIDE DEF x, k
            <4>3. CASE Full(c, beat)
                <5>1. One(beat) = 1 /\ n = BPR - 1 /\ m \in {1, BPR + 1} /\ BPR \in Nat \ {0}
                    BY <2>4, <4>3 DEF One
                <5> HIDE DEF m, n
                <5>2. k = BPR + i
                    BY <3>3, <4>0, <5>1
                <5>3. ~(k <= BPR) /\ k - BPR = i /\ i <= BPR
                    BY <3>3, <3>5, <5>1, <5>2
                <5>4. Len(hist') + i = i
                    BY <3>2, <3>3, <4>3
                <5> QED BY <3>4, <4>2, <4>3, <5>3, <5>4
            <4>4. CASE ~Full(c, beat)
                <5>1. Len(hist') + i = k
                    BY <2>4, <3>2, <3>3, <4>0, <4>4 DEF One
                <5>2. Due' = D
                    BY <3>4, <4>4
                <5>3. k \in Int /\ BPR \in Int
                    BY <2>4, <3>3, <4>0 DEF One
                <5> QED BY <4>2, <5>1, <5>2, <5>3
            <4> QED BY <4>3, <4>4
        <3>6. CASE ~(i <= m - One(beat))
            <4> DEFINE j == i - (m - One(beat))
            <4>1. took /\ j \in 1 .. BPR /\ InStage
                BY <2>3, <2>4, <3>1, <3>3, <3>6 DEF One
            <4>2. mem'[i] = BeatAt(rq.addr, j)
                BY <3>1, <3>6
            <4>3. CASE m = 0
                <5>1. rq.addr = D /\ ~beat /\ j = i /\ n = 0 /\ ~Full(c, beat)
                    <6>1. bursts - 1 = 0 /\ After(D, 0) = D
                        BY <2>4, <4>1, <4>3 DEF After
                    <6>2. ~beat /\ n = 0 /\ ~Full(c, beat)
                        BY <2>4, <4>3
                    <6> QED BY <2>2, <3>3, <4>1, <4>3, <6>1, <6>2 DEF One
                <5>2. Len(hist') + i = j /\ j <= BPR
                    BY <3>2, <3>3, <4>1, <5>1 DEF One
                <5> QED BY <3>4, <4>2, <5>1, <5>2
            <4>4. CASE m # 0
                <5>1. bursts - 1 = 1 /\ After(D, 1) = NextGrp(D) /\ n + m = BPR
                    BY <2>4, <4>1, <4>4 DEF After
                <5>2. rq.addr = NextGrp(D)
                    BY <2>2, <4>1, <5>1
                <5>3. CASE Full(c, beat)
                    <6>1. i = j /\ Len(hist') + i = i /\ i <= BPR
                        BY <2>4, <3>2, <3>3, <4>1, <5>1, <5>3 DEF One
                    <6> QED BY <3>4, <4>2, <5>2, <5>3, <6>1
                <5>4. CASE ~Full(c, beat)
                    <6>1. ~(Len(hist') + i <= BPR) /\ Len(hist') + i - BPR = j
                        BY <2>4, <3>2, <3>3, <4>1, <5>1, <5>4 DEF One
                    <6> QED BY <3>4, <4>2, <5>2, <5>4, <6>1
                <5> QED BY <5>3, <5>4
            <4> QED BY <4>3, <4>4
        <3> QED BY <3>5, <3>6
    <2> QED BY <1>1, <2>1, <2>7, <2>9, <2>10, <2>11, <2>12, <2>13 DEF FlightInv
<1>4. stale \in BOOLEAN
    BY DEF FetchTypes
<1> QED BY <1>1, <1>2, <1>3, <1>4

-----------------------------------------------------------------------------
(* The groups queued *)

\* The beat that completes a group makes it whole, at the base that is due.
LEMMA NewGroup ==
    ASSUME FetchTypes, CountInv, FlightInv, NEW c, NEW grant \in BOOLEAN, NEW load \in BOOLEAN,
           NEW beat \in BOOLEAN, NEW took \in BOOLEAN, FlightEdge(c, grant, load, beat, took),
           Full(c, beat)
    PROVE  /\ Append(hist, mem[1]) \in Groups /\ Whole(Append(hist, mem[1]))
           /\ Append(hist, mem[1])[1] = Due
<1> DEFINE g == Append(hist, mem[1])
           n == Len(hist)
<1>1. beat /\ ~stale /\ ~Drops(c) /\ n = BPR - 1
    BY DEF Full
<1>2. /\ n \in 0 .. (BPR - 1) /\ BPR \in Nat \ {0} /\ Len(mem) \in Nat /\ (beat => Len(mem) >= 1)
      /\ mem[1] \in Bytes /\ hist \in Seq(Bytes)
    <2>1. n \in 0 .. (BPR - 1) /\ BPR \in Nat \ {0} /\ Len(mem) \in Nat /\ (beat => Len(mem) >= 1)
        BY <1>1, BeatCounts
    <2>2. mem[1] \in Bytes
        BY <1>1, MemMoves
    <2>3. hist \in Seq(Bytes)
        BY DEF FetchTypes
    <2> QED BY <2>1, <2>2, <2>3
<1>3. /\ g \in Seq(Bytes) /\ Len(g) = n + 1 /\ g[n + 1] = mem[1]
      /\ \A j \in 1 .. n : g[j] = hist[j]
    BY <1>2
<1>4. /\ Due \in Bases
      /\ \A j \in 1 .. n : hist[j] = BeatAt(Due, j)
      /\ \A i \in 1 .. Len(mem) :
            mem[i] = IF n + i <= BPR THEN BeatAt(Due, n + i) ELSE BeatAt(NextGrp(Due), n + i - BPR)
    BY <1>1 DEF FlightInv
<1>5. mem[1] = BeatAt(Due, n + 1)
    <2>1. 1 \in 1 .. Len(mem) /\ n + 1 <= BPR
        BY <1>1, <1>2
    <2> QED BY <1>4, <2>1
<1> HIDE DEF g
<1>6. ASSUME NEW j \in 1 .. BPR PROVE g[j] = BeatAt(Due, j)
    <2>1. j \in 1 .. n \/ j = n + 1
        BY <1>1, <1>2
    <2> QED BY <1>3, <1>4, <1>5, <2>1
<1>7. g[1] = Due
    <2>1. 1 \in 1 .. BPR
        BY <1>2
    <2> QED BY <1>4, <1>6, <2>1, Beats
<1>8. g \in Groups
    BY <1>1, <1>2, <1>3 DEF Groups
<1> QED BY <1>4, <1>6, <1>7, <1>8 DEF Whole, g

\* The queue loses the group that is read and gains the one completed.
LEMMA QueueMoves ==
    ASSUME FetchTypes, CountInv, FlightInv, NEW c, NEW grant \in BOOLEAN, NEW load \in BOOLEAN,
           NEW beat \in BOOLEAN, NEW took \in BOOLEAN, FlightEdge(c, grant, load, beat, took),
           NEW pop \in BOOLEAN, QueueEdge(c, beat, pop)
    PROVE  /\ gmem' \in Seq(Groups) /\ Len(gmem) \in Nat /\ Len(gmem') \in Nat
           /\ (gmem = <<>> <=> Len(gmem) = 0) /\ (gmem' = <<>> <=> Len(gmem') = 0)
           /\ Reads(pop) => Len(gmem) >= 1
           /\ ~Drops(c) =>
                /\ Len(gmem') = Len(gmem) - One(Reads(pop)) + One(Full(c, beat))
                /\ \A j \in 1 .. (Len(gmem) - One(Reads(pop))) : gmem'[j] = gmem[j + One(Reads(pop))]
                /\ Full(c, beat) => /\ gmem'[Len(gmem) - One(Reads(pop)) + 1] = Append(hist, mem[1])
<1> DEFINE rest == IF Reads(pop) THEN Tail(gmem) ELSE gmem
           g == Append(hist, mem[1])
<1>1. gmem \in Seq(Groups) /\ Len(gmem) \in Nat
      /\ (gmem = <<>> <=> Len(gmem) = 0) /\ (Reads(pop) => gmem # <<>>)
    BY EmptySeq DEF FetchTypes, Reads
<1>2. /\ rest \in Seq(Groups) /\ Len(rest) = Len(gmem) - One(Reads(pop))
      /\ \A j \in 1 .. Len(rest) : rest[j] = gmem[j + One(Reads(pop))]
    BY <1>1 DEF One
<1>3. Full(c, beat) => g \in Groups
    BY NewGroup
<1> HIDE DEF g, rest
<1>4. Full(c, beat) => /\ Append(rest, g) \in Seq(Groups) /\ Len(Append(rest, g)) = Len(rest) + 1
                       /\ Append(rest, g)[Len(rest) + 1] = g
                       /\ \A j \in 1 .. Len(rest) : Append(rest, g)[j] = rest[j]
    BY <1>2, <1>3
<1>5. CASE Drops(c)
    <2>1. gmem' = <<>>
        BY <1>5 DEF QueueEdge
    <2> QED BY <1>1, <1>5, <2>1
<1>6. CASE ~Drops(c)
    <2>1. gmem' = IF Full(c, beat) THEN Append(rest, g) ELSE rest
        BY <1>6 DEF QueueEdge, rest, g
    <2>2. gmem' \in Seq(Groups)
        BY <1>2, <1>4, <2>1
    <2>3. Len(gmem') \in Nat /\ (gmem' = <<>> <=> Len(gmem') = 0)
        BY <2>2, EmptySeq
    <2>4. Full(c, beat) \in BOOLEAN
        BY DEF Full
    <2>5. Len(gmem') = Len(rest) + One(Full(c, beat)) /\ \A j \in 1 .. Len(rest) : gmem'[j] = rest[j]
        <3>1. CASE Full(c, beat)
            BY <1>4, <2>1, <3>1 DEF One
        <3>2. CASE ~Full(c, beat)
            BY <1>2, <2>1, <3>2 DEF One
        <3> QED BY <3>1, <3>2
    <2>6. Full(c, beat) => gmem'[Len(rest) + 1] = g
        BY <1>4, <2>1
    <2> QED BY <1>1, <1>2, <1>6, <2>2, <2>3, <2>5, <2>6 DEF g
<1> QED BY <1>5, <1>6

\* Whole groups, one after the other, at every edge.
LEMMA QueueStep ==
    ASSUME FetchTypes, CountInv, CountInv', FlightInv, QueueInv, NEW c, NEW grant \in BOOLEAN,
           NEW load \in BOOLEAN, NEW beat \in BOOLEAN, NEW took \in BOOLEAN,
           FlightEdge(c, grant, load, beat, took), NEW pop \in BOOLEAN, QueueEdge(c, beat, pop)
    PROVE  QueueInv'
<1>1. CASE Drops(c)
    <2>1. gmem' = <<>> /\ oValid' = FALSE /\ Len(<<>>) = 0
        BY <1>1 DEF QueueEdge
    <2> QED BY <2>1 DEF QueueInv
<1>2. CASE stale /\ ~Drops(c)
    <2>1. gmem = <<>> /\ ~oValid /\ ~Full(c, beat) /\ Len(<<>>) = 0
        BY <1>2 DEF CountInv, Full
    <2>2. gmem' = <<>> /\ oValid' = FALSE
        BY <1>2, <2>1, QueueLength
    <2> QED BY <2>1, <2>2 DEF QueueInv
<1>3. CASE ~stale /\ ~Drops(c)
    <2> DEFINE g == Len(gmem)
               r == One(Reads(pop))
               new == Append(hist, mem[1])
               D == Due
    <2>1. /\ g \in Nat /\ Len(gmem') \in Nat /\ (gmem = <<>> <=> g = 0)
          /\ (gmem' = <<>> <=> Len(gmem') = 0) /\ (Reads(pop) => g >= 1)
          /\ Len(gmem') = g - r + One(Full(c, beat))
          /\ \A j \in 1 .. (g - r) : gmem'[j] = gmem[j + r]
          /\ Full(c, beat) => gmem'[g - r + 1] = new
        BY <1>3, QueueMoves
    <2>2. Full(c, beat) => Whole(new) /\ new[1] = D
        BY NewGroup
    <2>3. Due' = IF Full(c, beat) THEN NextGrp(D) ELSE D
        BY <1>3, DueMoves
    <2>4. /\ \A j \in 1 .. g : Whole(gmem[j])
          /\ \A j \in 1 .. g : NextGrp(gmem[j][1]) = IF j = g THEN D ELSE gmem[j + 1][1]
          /\ oValid => Whole(oGrp) /\ NextGrp(oGrp[1]) = IF g = 0 THEN D ELSE gmem[1][1]
        BY <2>1 DEF QueueInv, Behind
    <2>5. /\ oGrp' = IF Reads(pop) THEN gmem[1] ELSE oGrp
          /\ oValid' = (Reads(pop) \/ (oValid /\ ~LastPop(pop)))
        BY <1>3 DEF QueueEdge
    <2>6. /\ r \in {0, 1} /\ (r = 1 <=> Reads(pop)) /\ g \in Nat /\ Len(gmem') \in Nat
          /\ Full(c, beat) => Len(gmem') = g - r + 1
          /\ ~Full(c, beat) => Len(gmem') = g - r
        <3>1. r \in {0, 1} /\ (r = 1 <=> Reads(pop))
            BY DEF One
        <3>2. CASE Full(c, beat)
            <4>1. One(Full(c, beat)) = 1
                BY <3>2 DEF One
            <4> HIDE DEF g, r
            <4> QED BY <2>1, <3>1, <3>2, <4>1
        <3>3. CASE ~Full(c, beat)
            <4>1. One(Full(c, beat)) = 0
                BY <3>3 DEF One
            <4> HIDE DEF g, r
            <4> QED BY <2>1, <3>1, <3>3, <4>1
        <3> QED BY <2>1, <3>1, <3>2, <3>3
    <2> HIDE DEF g, r, new, D
    <2>7. ASSUME NEW j \in 1 .. Len(gmem')
          PROVE  Whole(gmem'[j]) /\ NextGrp(gmem'[j][1]) = IF j = Len(gmem') THEN Due' ELSE gmem'[j + 1][1]
        <3>1. CASE j <= g - r
            <4>1. j \in 1 .. (g - r) /\ j + r \in 1 .. g /\ gmem'[j] = gmem[j + r]
                BY <2>1, <2>6, <3>1
            <4>2. Whole(gmem[j + r])
                BY <2>4, <4>1
            <4>3. NextGrp(gmem[j + r][1]) = IF j + r = g THEN D ELSE gmem[(j + r) + 1][1]
                BY <2>4, <4>1
            <4>4. CASE j + r = g
                <5>1. j = g - r
                    BY <2>1, <2>6, <4>1, <4>4
                <5>2. CASE Full(c, beat)
                    <6>0. j # Len(gmem') /\ j + 1 = g - r + 1
                        BY <2>6, <5>1, <5>2
                    <6>1. j # Len(gmem') /\ gmem'[j + 1] = new
                        BY <2>1, <5>2, <6>0
                    <6> QED BY <2>2, <4>1, <4>2, <4>3, <4>4, <5>2, <6>1
                <5>3. CASE ~Full(c, beat)
                    <6>1. j = Len(gmem')
                        BY <2>1, <2>6, <5>1, <5>3
                    <6> QED BY <2>3, <4>1, <4>2, <4>3, <4>4, <5>3, <6>1
                <5> QED BY <5>2, <5>3
            <4>5. CASE j + r # g
                <5>1. j + 1 \in 1 .. (g - r) /\ j # Len(gmem') /\ (j + 1) + r = (j + r) + 1
                    BY <2>1, <2>6, <4>1, <4>5
                <5>2. gmem'[j + 1] = gmem[(j + r) + 1]
                    BY <2>1, <5>1
                <5> QED BY <4>1, <4>2, <4>3, <4>5, <5>1, <5>2
            <4> QED BY <4>4, <4>5
        <3>2. CASE ~(j <= g - r)
            <4>1. j = g - r + 1 /\ j = Len(gmem') /\ Full(c, beat)
                BY <2>1, <2>6, <3>2
            <4> QED BY <2>1, <2>2, <2>3, <4>1
        <3> QED BY <2>1, <2>6, <3>1, <3>2
    \* The base behind the register, once what is read is read.
    <2>8. Behind' = IF g - r = 0 THEN D ELSE gmem[1 + r][1]
        <3>1. CASE g - r = 0
            <4>1. CASE Full(c, beat)
                <5>0. g - r + 1 = 1
                    BY <2>6, <3>1
                <5>1. gmem'[1] = new
                    BY <2>1, <4>1, <5>0
                <5>3. Len(gmem') = 1
                    BY <2>6, <4>1, <5>0
                <5>4. gmem' # <<>>
                    BY <2>1, <5>3
                <5>2. Behind' = gmem'[1][1]
                    BY <5>4 DEF Behind
                <5> QED BY <2>2, <3>1, <4>1, <5>1, <5>2
            <4>2. CASE ~Full(c, beat)
                <5>1. Len(gmem') = 0
                    BY <2>1, <2>6, <3>1, <4>2
                <5> QED BY <2>1, <2>3, <3>1, <4>2, <5>1 DEF Behind
            <4> QED BY <4>1, <4>2
        <3>2. CASE g - r # 0
            <4>1. 1 \in 1 .. (g - r) /\ Len(gmem') # 0
                BY <2>1, <2>6, <3>2
            <4>2. gmem'[1] = gmem[1 + r]
                BY <2>1, <4>1
            <4> QED BY <2>1, <3>2, <4>1, <4>2 DEF Behind
        <3> QED BY <3>1, <3>2
    <2>9. oValid' => Whole(oGrp') /\ NextGrp(oGrp'[1]) = Behind'
        <3>1. CASE Reads(pop)
            <4>1. 1 \in 1 .. g /\ r = 1 /\ oGrp' = gmem[1]
                BY <2>1, <2>5, <2>6, <3>1
            <4>2. Whole(gmem[1]) /\ NextGrp(gmem[1][1]) = IF 1 = g THEN D ELSE gmem[1 + 1][1]
                BY <2>4, <4>1
            <4>3. 1 = g <=> g - r = 0
                BY <2>1, <4>1
            <4> QED BY <2>8, <4>1, <4>2, <4>3
        <3>2. CASE ~Reads(pop)
            <4>1. r = 0 /\ oGrp' = oGrp /\ (oValid' => oValid) /\ 1 + r = 1 /\ (g - r = 0 <=> g = 0)
                <5>1. r = 0 /\ oGrp' = oGrp /\ (oValid' => oValid)
                    BY <2>5, <2>6, <3>2
                <5> QED BY <2>1, <5>1
            <4> QED BY <2>4, <2>8, <4>1
        <3> QED BY <3>1, <3>2
    <2> QED BY <2>7, <2>9 DEF QueueInv
<1>4. stale \in BOOLEAN
    BY DEF FetchTypes
<1> QED BY <1>1, <1>2, <1>3, <1>4

-----------------------------------------------------------------------------
(* The head *)

\* The base behind the output register changes only as the register is filled.
LEMMA BehindMoves ==
    ASSUME FetchTypes, CountInv, CountInv', FlightInv, NEW c, NEW grant \in BOOLEAN,
           NEW load \in BOOLEAN, NEW beat \in BOOLEAN, NEW took \in BOOLEAN,
           FlightEdge(c, grant, load, beat, took), NEW pop \in BOOLEAN, QueueEdge(c, beat, pop),
           ~Drops(c), ~stale, ~Reads(pop)
    PROVE  Behind' = Behind
<1> DEFINE g == Len(gmem)
           new == Append(hist, mem[1])
<1>1. One(Reads(pop)) = 0
    BY DEF One
<1>2. /\ g \in Nat /\ Len(gmem') \in Nat /\ (gmem = <<>> <=> g = 0) /\ (gmem' = <<>> <=> Len(gmem') = 0)
      /\ Len(gmem') = g - 0 + One(Full(c, beat))
      /\ \A j \in 1 .. (g - 0) : gmem'[j] = gmem[j + 0]
      /\ Full(c, beat) => gmem'[g - 0 + 1] = new
    BY <1>1, QueueMoves
<1>3. Due' = IF Full(c, beat) THEN NextGrp(Due) ELSE Due
    BY DueMoves
<1>4. Full(c, beat) => new[1] = Due
    BY NewGroup
<1> HIDE DEF g, new
<1>5. CASE g = 0 /\ Full(c, beat)
    <2>1. g - 0 + 1 = 1 /\ One(Full(c, beat)) = 1
        BY <1>5 DEF One
    <2>2. gmem'[1] = new
        BY <1>2, <1>5, <2>1
    <2>3. Len(gmem') = 1
        BY <1>2, <1>5, <2>1
    <2>4. gmem' = <<>> <=> Len(gmem') = 0
        BY <1>2
    <2>5. gmem' # <<>>
        BY <2>3, <2>4
    <2> QED BY <1>2, <1>4, <1>5, <2>2, <2>5 DEF Behind
<1>6. CASE g = 0 /\ ~Full(c, beat)
    <2>1. gmem' = <<>>
        BY <1>2, <1>6 DEF One
    <2> QED BY <1>2, <1>3, <1>6, <2>1 DEF Behind
<1>7. CASE g # 0
    <2>1. One(Full(c, beat)) \in {0, 1}
        BY DEF One
    <2>2. 1 \in 1 .. (g - 0) /\ 1 + 0 = 1 /\ gmem' # <<>>
        BY <1>2, <1>7, <2>1
    <2>3. gmem'[1] = gmem[1]
        BY <1>2, <2>2
    <2> QED BY <1>2, <1>7, <2>2, <2>3 DEF Behind
<1> QED BY <1>5, <1>6, <1>7

\* The head, or the next one to appear, is the descriptor owed.
LEMMA HeadPlace ==
    ASSUME FetchTypes, CountInv, CountInv', FlightInv, QueueInv, HeadInv, NEW c \in Cmds,
           NEW grant \in BOOLEAN, NEW load \in BOOLEAN, NEW beat \in BOOLEAN, NEW took \in BOOLEAN,
           FlightEdge(c, grant, load, beat, took), NEW pop \in BOOLEAN, QueueEdge(c, beat, pop), on'
    PROVE  nextPc' = IF oValid' THEN LaneAt(oGrp'[1], oLane')
                     ELSE LaneAt(Behind', IF skipR' THEN skip' ELSE 0)
<1> USE DEF HeadInv
<1>0. /\ c.pc \in Bytes /\ c.start \in BOOLEAN /\ c.flush \in BOOLEAN /\ (c.start => c.flush)
      /\ c.pc % DescB = 0 /\ stale \in BOOLEAN /\ pop \in BOOLEAN /\ oValid \in BOOLEAN
      /\ oLane \in 0 .. (DPR - 1) /\ DPR \in Nat \ {0}
    BY CmdTypes, Sizes DEF FetchTypes
<1>1. /\ pop => oValid /\ on /\ ~Drops(c)
      /\ on' = (c.start \/ (on /\ ~c.flush))
      /\ nextPc' = IF c.start THEN c.pc ELSE IF pop THEN (nextPc + DescB) % ByteMod ELSE nextPc
      /\ skip' = IF c.start THEN (c.pc \div DescB) % DPR ELSE skip
      /\ skipR' = (c.start \/ (skipR /\ ~Reads(pop)))
      /\ Drops(c) => gmem' = <<>> /\ oValid' = FALSE
      /\ ~Drops(c) =>
            /\ oGrp' = IF Reads(pop) THEN gmem[1] ELSE oGrp
            /\ oValid' = (Reads(pop) \/ (oValid /\ ~LastPop(pop)))
            /\ oLane' = IF Reads(pop) THEN IF skipR THEN skip ELSE 0
                        ELSE IF pop /\ ~LastPop(pop) THEN oLane + 1 ELSE oLane
    BY DEF QueueEdge
<1>2. CASE c.start
    <2>1. Drops(c)
        BY <1>2 DEF Drops
    <2>2. Due' = reqAddr' /\ reqAddr' = c.pc - (c.pc % GB)
        BY <1>2, <2>1, DueMoves DEF FlightEdge
    <2>3. LaneAt(c.pc - (c.pc % GB), (c.pc \div DescB) % DPR) = c.pc
        BY <1>0, RestartPlace
    <2>4. Behind' = Due'
        BY <1>1, <2>1 DEF Behind
    <2> QED BY <1>1, <1>2, <2>1, <2>2, <2>3, <2>4
<1>3. CASE ~c.start
    <2>1. ~Drops(c) /\ on
        BY <1>0, <1>1, <1>3 DEF Drops
    <2>2. nextPc = IF oValid THEN LaneAt(oGrp[1], oLane) ELSE LaneAt(Behind, IF skipR THEN skip ELSE 0)
        BY <2>1
    <2>3. CASE stale
        <3>1. gmem = <<>> /\ ~oValid /\ ~Full(c, beat)
            BY <2>3 DEF CountInv, Full
        <3>2. gmem' = <<>> /\ oValid' = FALSE
            BY <2>1, <3>1, QueueLength
        <3>3. ~pop /\ ~Reads(pop)
            BY <1>1, <3>1 DEF Reads
        <3>4. Due' = reqAddr' /\ reqAddr' = reqAddr /\ Due = reqAddr
            <4>1. ~load
                BY <2>3 DEF FlightEdge
            <4> QED BY <1>3, <2>3, <4>1, DueMoves DEF FlightEdge, Due
        <3>5. Behind' = Behind
            BY <3>1, <3>2, <3>4 DEF Behind
        <3> QED BY <1>1, <1>3, <2>2, <3>1, <3>2, <3>3, <3>5
    <2>4. CASE ~stale
        \* A pop leaves the lane behind the head, or the base behind its group.
        <3>1. oValid => oGrp[1] \in Bases /\ NextGrp(oGrp[1]) = Behind
            BY DEF QueueInv, Whole
        <3>2. pop => nextPc' = IF oLane = DPR - 1 THEN Behind ELSE LaneAt(oGrp[1], oLane + 1)
            <4> SUFFICES ASSUME pop PROVE nextPc' = IF oLane = DPR - 1 THEN Behind ELSE LaneAt(oGrp[1], oLane + 1)
                OBVIOUS
            <4>1. oValid /\ oGrp[1] \in Bases /\ NextGrp(oGrp[1]) = Behind
                BY <1>1, <3>1
            <4>2. (LaneAt(oGrp[1], oLane) + DescB) % ByteMod
                      = IF oLane = DPR - 1 THEN NextGrp(oGrp[1]) ELSE LaneAt(oGrp[1], oLane + 1)
                BY <1>0, <4>1, Lanes
            <4> QED BY <1>1, <1>3, <2>2, <4>1, <4>2
        <3>3. oValid => LaneAt(Behind, 0) = Behind
            <4>1. oValid => Behind \in Bases
                BY <3>1, NextGrpType
            <4>2. 0 \in 0 .. (DPR - 1)
                BY <1>0
            <4> QED BY <4>1, <4>2, Lanes
        <3>4. LastPop(pop) <=> pop /\ oLane = DPR - 1
            BY DEF LastPop
        <3>5. Reads(pop) <=> gmem # <<>> /\ (~oValid \/ LastPop(pop))
            BY DEF Reads
        <3>6. gmem # <<>> => Behind = gmem[1][1]
            BY DEF Behind
        <3>7. ~Reads(pop) => Behind' = Behind
            BY <2>1, <2>4, BehindMoves
        <3>8. CASE Reads(pop) /\ ~oValid
            BY <1>1, <1>3, <2>1, <2>2, <3>5, <3>6, <3>8
        <3>9. CASE Reads(pop) /\ oValid
            <4>1. pop /\ oLane = DPR - 1 /\ ~skipR /\ oGrp' = gmem[1] /\ oValid' /\ oLane' = 0
                BY <1>1, <2>1, <3>4, <3>5, <3>9
            <4>2. nextPc' = Behind
                BY <3>2, <4>1
            <4> QED BY <3>3, <3>5, <3>6, <3>9, <4>1, <4>2
        <3>10. CASE ~Reads(pop) /\ oValid /\ ~LastPop(pop)
            <4>1. oValid' /\ oGrp' = oGrp /\ oLane' = IF pop THEN oLane + 1 ELSE oLane
                BY <1>1, <2>1, <3>10
            <4> QED BY <1>1, <1>3, <2>2, <3>2, <3>4, <3>10, <4>1
        <3>11. CASE ~Reads(pop) /\ oValid /\ LastPop(pop)
            <4>1. ~oValid' /\ ~skipR' /\ nextPc' = Behind /\ Behind' = Behind
                BY <1>1, <1>3, <2>1, <3>2, <3>4, <3>7, <3>11
            <4> QED BY <3>3, <3>11, <4>1
        <3>12. CASE ~Reads(pop) /\ ~oValid
            <4>1. ~oValid' /\ ~pop /\ nextPc' = nextPc /\ Behind' = Behind /\ skipR' = skipR /\ skip' = skip
                BY <1>1, <1>3, <2>1, <3>7, <3>12 DEF FetchTypes
            <4> QED BY <2>2, <3>12, <4>1
        <3> QED BY <3>8, <3>9, <3>10, <3>11, <3>12
    <2> QED BY <1>0, <2>3, <2>4
<1> QED BY <1>0, <1>2, <1>3

\* dq_count counts the descriptors queued: those before fetch_pc in the first
\* group are taken off once, when it is queued.
LEMMA HeadCount ==
    ASSUME FetchTypes, CountInv, CountInv', FlightInv, HeadInv, NEW c \in Cmds,
           NEW grant \in BOOLEAN, NEW load \in BOOLEAN, NEW beat \in BOOLEAN, NEW took \in BOOLEAN,
           FlightEdge(c, grant, load, beat, took), NEW pop \in BOOLEAN, QueueEdge(c, beat, pop)
    PROVE  dcount' = Queued'
<1> USE DEF HeadInv
<1> DEFINE g == Len(gmem)
           full == Full(c, beat)
<1>1. /\ gmem' \in Seq(Groups) /\ g \in Nat /\ g' \in Nat
      /\ (gmem = <<>> <=> g = 0) /\ (gmem' = <<>> <=> g' = 0)
      /\ Reads(pop) => g >= 1
      /\ ~Drops(c) => g' = g - One(Reads(pop)) + One(full)
    BY QueueMoves
<1>2. /\ oLane \in 0 .. (DPR - 1) /\ DPR \in Nat \ {0} /\ skip \in 0 .. (DPR - 1)
      /\ oValid \in BOOLEAN /\ skipR \in BOOLEAN /\ skipW \in BOOLEAN /\ stale \in BOOLEAN
    BY Sizes DEF FetchTypes
<1>3. CASE Drops(c)
    <2>1. gmem' = <<>> /\ oValid' = FALSE /\ dcount' = 0 /\ g' = 0
        BY <1>1, <1>3 DEF QueueEdge
    <2>2. Queued' = 0 + DPR * g' - 0
        BY <2>1 DEF Queued
    <2> QED BY <1>2, <2>1, <2>2
<1>4. CASE ~Drops(c)
    <2>1. /\ pop => oValid /\ on
          /\ on' = on /\ skip' = skip
          /\ skipR' = (skipR /\ ~Reads(pop))
          /\ oValid' = (Reads(pop) \/ (oValid /\ ~LastPop(pop)))
          /\ oLane' = IF Reads(pop) THEN IF skipR THEN skip ELSE 0
                      ELSE IF pop /\ ~LastPop(pop) THEN oLane + 1 ELSE oLane
          /\ dcount' = dcount + (IF full THEN DPR - (IF skipW THEN skip ELSE 0) ELSE 0) - One(pop)
        BY <1>2, <1>4 DEF QueueEdge, Drops, AddN, FetchTypes
    <2>2. dcount = (IF oValid THEN DPR - oLane ELSE 0) + DPR * g - (IF skipR /\ g # 0 THEN skip ELSE 0)
        BY <1>1 DEF Queued
    <2>3. Queued' = (IF oValid' THEN DPR - oLane' ELSE 0) + DPR * g'
                    - (IF skipR' /\ g' # 0 THEN skip' ELSE 0)
        BY <1>1 DEF Queued
    <2>4. LastPop(pop) <=> pop /\ oLane = DPR - 1
        BY DEF LastPop
    <2>5. Reads(pop) <=> g # 0 /\ (~oValid \/ LastPop(pop))
        BY <1>1 DEF Reads
    <2>6. /\ oValid => ~skipR
          /\ skipW => skipR /\ g = 0
          /\ on /\ skipR /\ g = 0 => skipW
        BY <1>1
    <2>7. full => on
        <3>1. full => ~stale /\ mem # <<>>
            BY DEF Full, FlightEdge
        <3> QED BY <3>1
    <2> DEFINE P == DPR * g
               Q == DPR * g'
    <2>8. /\ P \in Int
          /\ g' = g - (IF Reads(pop) THEN 1 ELSE 0) + (IF full THEN 1 ELSE 0)
          /\ Q = P - (IF Reads(pop) THEN DPR ELSE 0) + (IF full THEN DPR ELSE 0)
        <3>1. P \in Int /\ DPR * (g - 1) = P - DPR /\ DPR * (g + 1) = P + DPR
            BY <1>1, <1>2
        <3>2. g' = g - (IF Reads(pop) THEN 1 ELSE 0) + (IF full THEN 1 ELSE 0)
            BY <1>1, <1>4 DEF One
        <3>3. CASE Reads(pop) /\ full
            BY <1>1, <1>2, <3>1, <3>2, <3>3
        <3>4. CASE Reads(pop) /\ ~full
            <4>1. g' = g - 1
                BY <1>1, <3>2, <3>4
            <4> QED BY <1>2, <3>1, <3>2, <3>4, <4>1
        <3>5. CASE ~Reads(pop) /\ full
            <4>1. g' = g + 1
                BY <1>1, <3>2, <3>5
            <4> QED BY <1>2, <3>1, <3>2, <3>5, <4>1
        <3>6. CASE ~Reads(pop) /\ ~full
            BY <1>1, <1>2, <3>1, <3>2, <3>6
        <3> QED BY <3>3, <3>4, <3>5, <3>6
    <2>13. dcount = (IF oValid THEN DPR - oLane ELSE 0) + P - (IF skipR /\ g # 0 THEN skip ELSE 0)
        BY <2>2
    <2>14. Queued' = (IF oValid' THEN DPR - oLane' ELSE 0) + Q
                     - (IF skipR' /\ g' # 0 THEN skip' ELSE 0)
        BY <2>3
    <2>15. g \in Nat
        BY <1>1
    <2> HIDE DEF g, full, P, Q, HeadInv
    <2> DEFINE L == IF skipR THEN skip ELSE 0
    <2>16. ASSUME Reads(pop)
           PROVE  /\ Queued' = DPR - L + Q /\ dcount - One(pop) = P - L /\ dcount \in Int
                  /\ dcount' = dcount - One(pop) + (IF full THEN DPR ELSE 0)
        <3>1. g # 0 /\ ~skipW /\ (oValid => pop /\ oLane = DPR - 1) /\ L \in Int
            BY <1>2, <2>4, <2>5, <2>6, <2>16
        <3>2. oValid' /\ oLane' = L /\ ~skipR'
            BY <2>1, <2>16
        <3> HIDE DEF L
        <3>3. Queued' = DPR - L + Q
            BY <1>2, <2>8, <2>14, <3>1, <3>2
        <3>4. dcount - One(pop) = P - L /\ dcount \in Int
            <4>1. dcount = (IF oValid THEN DPR - oLane ELSE 0) + P - L
                BY <1>2, <2>13, <3>1 DEF L
            <4>2. CASE oValid
                <5>1. dcount = 1 + P - L /\ One(pop) = 1
                    BY <1>2, <3>1, <4>1, <4>2 DEF One
                <5> QED BY <2>8, <3>1, <5>1
            <4>3. CASE ~oValid
                <5>1. dcount = 0 + P - L /\ One(pop) = 0
                    BY <2>1, <4>1, <4>3 DEF One
                <5> QED BY <2>8, <3>1, <5>1
            <4> QED BY <1>2, <4>2, <4>3
        <3>5. dcount' = dcount + (IF full THEN DPR - 0 ELSE 0) - One(pop) /\ One(pop) \in Int
            BY <2>1, <3>1 DEF One
        <3>6. dcount' = dcount - One(pop) + (IF full THEN DPR ELSE 0)
            BY <1>2, <3>4, <3>5
        <3> QED BY <3>3, <3>4, <3>6
    <2>17. L \in Int
        BY <1>2
    <2> HIDE DEF L
    <2>9. CASE Reads(pop) /\ full
        <3>1. Q = P - DPR + DPR
            BY <2>8, <2>9
        <3> QED BY <1>2, <2>8, <2>9, <2>16, <2>17, <3>1
    <2>10. CASE Reads(pop) /\ ~full
        <3>1. Q = P - DPR + 0
            BY <2>8, <2>10
        <3> QED BY <1>2, <2>8, <2>10, <2>16, <2>17, <3>1
    <2>11. CASE ~Reads(pop) /\ full
        BY <1>2, <2>1, <2>13, <2>14, <2>15, <2>4, <2>5, <2>6, <2>7, <2>8, <2>11 DEF One
    <2>12. CASE ~Reads(pop) /\ ~full
        BY <1>2, <2>1, <2>13, <2>14, <2>15, <2>4, <2>5, <2>6, <2>8, <2>12 DEF One
    <2> QED BY <2>9, <2>10, <2>11, <2>12
<1> QED BY <1>3, <1>4

LEMMA HeadStep ==
    ASSUME FetchTypes, CountInv, CountInv', FlightInv, QueueInv, HeadInv, NEW c \in Cmds,
           NEW grant \in BOOLEAN, NEW load \in BOOLEAN, NEW beat \in BOOLEAN, NEW took \in BOOLEAN,
           FlightEdge(c, grant, load, beat, took), NEW pop \in BOOLEAN, QueueEdge(c, beat, pop)
    PROVE  HeadInv'
<1>1. /\ c.start \in BOOLEAN /\ c.flush \in BOOLEAN /\ (c.start => c.flush)
      /\ oValid \in BOOLEAN /\ skipR \in BOOLEAN /\ skipW \in BOOLEAN /\ stale \in BOOLEAN /\ on \in BOOLEAN
    BY CmdTypes DEF FetchTypes
<1>2. /\ oValid => ~skipR
      /\ skipW => skipR /\ gmem = <<>>
      /\ on /\ skipR /\ gmem = <<>> => skipW
      /\ ~on => /\ ~reqEn /\ ~oValid /\ gmem = <<>>
                /\ ~stale => mem = <<>> /\ ~InStage /\ ~fReqValid
    BY DEF HeadInv
<1>3. /\ pop => oValid /\ on /\ ~Drops(c)
      /\ on' = (c.start \/ (on /\ ~c.flush))
      /\ skipW' = (c.start \/ (skipW /\ ~Full(c, beat)))
      /\ skipR' = (c.start \/ (skipR /\ ~Reads(pop)))
      /\ Drops(c) => gmem' = <<>> /\ oValid' = FALSE
      /\ ~Drops(c) => oValid' = (Reads(pop) \/ (oValid /\ ~LastPop(pop)))
    BY DEF QueueEdge
<1>4. Reads(pop) => gmem # <<>>
    BY DEF Reads
<1>5. Full(c, beat) => beat /\ ~stale /\ ~Drops(c) /\ mem # <<>>
    BY DEF Full, FlightEdge
<1>6. gmem = <<>> /\ ~Full(c, beat) => gmem' = <<>>
    BY <1>3, QueueLength
<1>7. ~Drops(c) /\ ~Reads(pop) /\ gmem' = <<>> => gmem = <<>> /\ ~Full(c, beat)
    <2> SUFFICES ASSUME ~Drops(c), ~Reads(pop), gmem' = <<>> PROVE gmem = <<>> /\ ~Full(c, beat)
        OBVIOUS
    <2> DEFINE g == Len(gmem)
               h == Len(gmem')
    <2>1. g \in Nat /\ (gmem = <<>> <=> g = 0) /\ (gmem' = <<>> <=> h = 0)
          /\ h = g - One(Reads(pop)) + One(Full(c, beat))
        BY QueueMoves
    <2> HIDE DEF g, h
    <2>2. CASE Full(c, beat)
        BY <2>1, <2>2 DEF One
    <2>3. CASE ~Full(c, beat)
        BY <2>1, <2>3 DEF One
    <2> QED BY <2>2, <2>3
<1>8. on' => nextPc' = IF oValid' THEN LaneAt(oGrp'[1], oLane')
                       ELSE LaneAt(Behind', IF skipR' THEN skip' ELSE 0)
    <2>1. ASSUME on'
          PROVE  nextPc' = IF oValid' THEN LaneAt(oGrp'[1], oLane')
                           ELSE LaneAt(Behind', IF skipR' THEN skip' ELSE 0)
        BY <2>1, HeadPlace
    <2> QED BY <2>1
<1>9. dcount' = Queued'
    BY HeadCount
<1>10. oValid' => ~skipR'
    BY <1>1, <1>2, <1>3, <1>4 DEF Drops
<1>11. skipW' => skipR' /\ gmem' = <<>>
    BY <1>1, <1>2, <1>3, <1>4, <1>6 DEF Drops
<1>12. on' /\ skipR' /\ gmem' = <<>> => skipW'
    BY <1>1, <1>2, <1>3, <1>7 DEF Drops
<1>13. ~on' => /\ ~reqEn' /\ ~oValid' /\ gmem' = <<>>
               /\ ~stale' => mem' = <<>> /\ ~InStage' /\ ~fReqValid'
    <2> SUFFICES ASSUME ~on'
                 PROVE  /\ ~reqEn' /\ ~oValid' /\ gmem' = <<>>
                        /\ ~stale' => mem' = <<>> /\ ~InStage' /\ ~fReqValid'
        OBVIOUS
    <2>1. ~c.start /\ (~on \/ c.flush)
        BY <1>1, <1>3
    <2>2. reqEn' => c.start \/ (reqEn /\ ~c.flush)
        BY DEF FlightEdge
    <2>3. CASE Drops(c) \/ stale
        <3>1. ~stale' => mem' = <<>> /\ ~InStage' /\ ~fReqValid'
            BY <2>3, DueMoves
        <3>2. CASE c.flush
            BY <1>3, <2>1, <2>2, <3>1, <3>2 DEF Drops
        <3>3. CASE ~c.flush
            <4>1. ~on /\ ~Drops(c)
                BY <2>1, <3>3 DEF Drops
            <4> QED BY <1>2, <1>3, <1>4, <1>5, <1>6, <2>1, <2>2, <2>3, <3>1, <4>1
        <3> QED BY <3>2, <3>3
    <2>4. CASE ~Drops(c) /\ ~stale
        <3>1. ~on
            BY <2>1, <2>4 DEF Drops
        <3>2. ~beat /\ ~took /\ ~grant /\ ~load
            BY <1>2, <2>4, <3>1 DEF FlightEdge
        <3>3. mem' = <<>>
            <4>1. /\ mem' \in Seq(Bytes)
                  /\ Len(mem') = Len(mem) - One(beat) + (IF took THEN BPR ELSE 0)
                BY MemMoves
            <4>2. Len(mem) = 0 /\ One(beat) = 0
                BY <1>2, <2>4, <3>1, <3>2 DEF One
            <4>3. Len(mem') = 0
                BY <3>2, <4>1, <4>2
            <4> QED BY <4>1, <4>3, EmptySeq
        <3>4. ~InStage' /\ ~fReqValid'
            BY <1>2, <2>4, <3>1, <3>2 DEF FlightEdge
        <3> QED BY <1>2, <1>3, <1>4, <1>5, <1>6, <2>1, <2>2, <2>4, <3>1, <3>3, <3>4
    <2> QED BY <1>1, <2>3, <2>4
<1> QED BY <1>8, <1>9, <1>10, <1>11, <1>12, <1>13 DEF HeadInv

-----------------------------------------------------------------------------
(* The invariant *)

\* Only the request presented before the write passes it.
LEMMA GrantStep ==
    ASSUME FetchTypes, GrantInv, NEW c, NEW grant \in BOOLEAN, NEW load \in BOOLEAN,
           NEW beat \in BOOLEAN, NEW took \in BOOLEAN, FlightEdge(c, grant, load, beat, took),
           ReaderEdge(grant, load)
    PROVE  GrantInv'
<1>1. /\ load => WrIdle
      /\ grant => fReqValid
      /\ fReqValid' = (load \/ (fReqValid /\ ~grant))
    BY DEF FlightEdge
<1>2. /\ granted' \in 0 .. MaxBurst /\ granted' <= sBeats'
      /\ overtook' = IF WrIdle THEN 0 ELSE IF grant THEN AtMost(overtook + 1, 2) ELSE overtook
    BY DEF ReaderEdge
<1>3. overtook \in {0, 1} /\ (overtook = 1 => ~fReqValid) /\ fReqValid \in BOOLEAN
    BY DEF GrantInv, FetchTypes
<1>4. AtMost(0 + 1, 2) = 1
    BY DEF AtMost
<1>5. overtook' \in {0, 1} /\ (overtook' = 1 => ~fReqValid')
    <2>1. CASE WrIdle
        BY <1>2, <2>1
    <2>2. CASE ~WrIdle /\ grant
        BY <1>1, <1>2, <1>3, <1>4, <2>2
    <2>3. CASE ~WrIdle /\ ~grant
        BY <1>1, <1>2, <1>3, <2>3
    <2> QED BY <2>1, <2>2, <2>3
<1> QED BY <1>2, <1>5 DEF GrantInv

LEMMA TypesStep ==
    ASSUME FetchTypes, CountInv, CountInv', FlightInv, NEW c \in Cmds, NEW grant \in BOOLEAN,
           NEW load \in BOOLEAN, NEW beat \in BOOLEAN, NEW took \in BOOLEAN,
           FlightEdge(c, grant, load, beat, took), NEW pop \in BOOLEAN, QueueEdge(c, beat, pop),
           ReaderEdge(grant, load)
    PROVE  FetchTypes'
<1>1. reqAddr' \in Bases /\ fReqAddr' \in Bases
    BY FlightStep
<1>2. c.pc \in Bytes /\ c.start \in BOOLEAN /\ c.flush \in BOOLEAN /\ (c.start => c.flush) /\ c.pc % DescB = 0
    BY CmdTypes
<1>3. /\ mem' \in Seq(Bytes) /\ hist' \in Seq(Bytes) /\ gmem' \in Seq(Groups)
    <2>1. mem' \in Seq(Bytes)
        BY MemMoves
    <2>2. hist' \in Seq(Bytes)
        BY HistMoves
    <2>3. gmem' \in Seq(Groups)
        BY QueueMoves
    <2> QED BY <2>1, <2>2, <2>3
<1>4. fReqValid' \in BOOLEAN /\ reqEn' \in BOOLEAN /\ stale' \in BOOLEAN
      /\ rq' \in [tag : {"none", "s", "v", "f"}, addr : Bases]
    BY DEF FlightEdge, FetchTypes
<1>5. outBeats' \in Nat /\ bursts' \in Nat
    <2>1. Len(mem') \in Nat /\ BPR \in Nat
        BY <1>3, Sizes
    <2> QED BY <2>1 DEF CountInv, One
<1>6. /\ oLane \in 0 .. (DPR - 1) /\ skip \in 0 .. (DPR - 1) /\ DPR \in Nat \ {0} /\ dcount \in Int
      /\ nextPc \in Bytes /\ oValid \in BOOLEAN
      /\ skipW \in BOOLEAN /\ skipR \in BOOLEAN /\ on \in BOOLEAN
    BY Sizes DEF FetchTypes
<1>7. /\ on' = (c.start \/ (on /\ ~c.flush))
      /\ nextPc' = IF c.start THEN c.pc ELSE IF pop THEN (nextPc + DescB) % ByteMod ELSE nextPc
      /\ skip' = IF c.start THEN (c.pc \div DescB) % DPR ELSE skip
      /\ skipW' = (c.start \/ (skipW /\ ~Full(c, beat)))
      /\ skipR' = (c.start \/ (skipR /\ ~Reads(pop)))
      /\ Drops(c) => oValid' = FALSE /\ oLane' = 0 /\ dcount' = 0
      /\ ~Drops(c) =>
            /\ oValid' = (Reads(pop) \/ (oValid /\ ~LastPop(pop)))
            /\ oLane' = IF Reads(pop) THEN IF skipR THEN skip ELSE 0
                        ELSE IF pop /\ ~LastPop(pop) THEN oLane + 1 ELSE oLane
            /\ dcount' = dcount + (IF Full(c, beat) THEN AddN ELSE 0) - One(pop)
    BY DEF QueueEdge
<1>8. on' \in BOOLEAN /\ skipW' \in BOOLEAN /\ skipR' \in BOOLEAN /\ oValid' \in BOOLEAN
    BY <1>6, <1>7
<1>9. skip' \in 0 .. (DPR - 1)
    BY <1>2, <1>6, <1>7, RestartPlace
<1>10. oLane' \in 0 .. (DPR - 1)
    <2>1. pop /\ ~LastPop(pop) => oLane # DPR - 1
        BY DEF LastPop
    <2> QED BY <1>6, <1>7, <2>1
<1>11. dcount' \in Int
    <2>1. AddN \in Int /\ One(pop) \in Int
        BY <1>6 DEF AddN, One
    <2> QED BY <1>6, <1>7, <2>1
<1>12. nextPc' \in Bytes
    <2>1. ByteMod \in Nat \ {0} /\ DescB \in Nat /\ nextPc \in Int
        BY <1>6, Sizes DEF Bytes
    <2>2. (nextPc + DescB) % ByteMod \in Bytes
        BY <2>1, ModType DEF Bytes
    <2> QED BY <1>2, <1>6, <1>7, <2>2
<1>13. sReq' \in BOOLEAN /\ vReq' \in BOOLEAN /\ sLen' \in SLens /\ sBeats' \in Nat
    BY DEF ReaderEdge
<1> QED
    BY <1>1, <1>3, <1>4, <1>5, <1>8, <1>9, <1>10, <1>11, <1>12, <1>13 DEF FetchTypes

LEMMA PathInvInit == ASSUME Init PROVE PathInv
<1>1. 0 \in Bases /\ 0 \in Bytes /\ GB \in Nat \ {0} /\ BPR \in Nat \ {0} /\ DPR \in Nat \ {0}
    BY Sizes, ModSmall DEF Bases, Bytes
<1>2. /\ fReqValid = FALSE /\ fReqAddr = 0 /\ reqAddr = 0
      /\ reqEn = FALSE /\ stale = FALSE /\ outBeats = 0 /\ bursts = 0
      /\ hist = <<>> /\ gmem = <<>> /\ oValid = FALSE /\ oLane = 0
      /\ dcount = 0 /\ skip = 0 /\ skipW = FALSE /\ skipR = FALSE
      /\ rq = [tag |-> "none", addr |-> 0] /\ sBeats = 0
      /\ on = FALSE /\ sReq = FALSE /\ sLen \in SLens /\ vReq = FALSE /\ mem = <<>>
      /\ nextPc = 0 /\ granted = 0 /\ overtook = 0
    BY DEF Init, FetchInit, ArbInit, NoRequest
<1>3. /\ <<>> \in Seq(Bytes) /\ <<>> \in Seq(Groups) /\ Len(<<>>) = 0
    OBVIOUS
<1>4. ~InStage
    BY <1>2 DEF InStage
<1>5. FetchTypes
    <2>1. rq \in [tag : {"none", "s", "v", "f"}, addr : Bases]
        BY <1>1, <1>2
    <2>2. /\ oLane \in 0 .. (DPR - 1) /\ skip \in 0 .. (DPR - 1) /\ dcount \in Int
          /\ outBeats \in Nat /\ bursts \in Nat /\ sBeats \in Nat
        BY <1>1, <1>2
    <2>3. hist \in Seq(Bytes) /\ gmem \in Seq(Groups) /\ mem \in Seq(Bytes)
        BY <1>2, <1>3
    <2> QED BY <1>1, <1>2, <2>1, <2>2, <2>3 DEF FetchTypes
<1>6. CountInv
    <2>1. 2 <= GD
        BY Sizes
    <2>2. outBeats = Len(mem) + (IF InStage THEN BPR ELSE 0) /\ Len(mem) <= BPR + BPR
        BY <1>1, <1>2, <1>3, <1>4
    <2>3. bursts = (IF mem = <<>> THEN 0 ELSE IF Len(mem) <= BPR THEN 1 ELSE 2) + One(InStage)
          /\ bursts + One(fReqValid) <= 2
        BY <1>2, <1>4 DEF One
    <2>4. GUsed <= GD
        <3>1. GUsed = 0 + 0 + 0 + 0
            BY <1>2, <1>3 DEF GUsed, One
        <3> QED BY <2>1, <3>1, Sizes
    <2>5. /\ \A i \in 1 .. Len(mem) : (mem[i] % GB = GB - WB) <=> (i = Len(mem) \/ i = Len(mem) - BPR)
          /\ Len(hist) < BPR /\ Len(hist) + Len(mem) \in {0, BPR, BPR + BPR} /\ ~stale
        BY <1>1, <1>2, <1>3
    <2> QED BY <2>2, <2>3, <2>4, <2>5 DEF CountInv
<1>7. Due = 0
    BY <1>2, <1>4 DEF Due
<1>8. FlightInv
    <2>1. reqAddr = After(Due, bursts + One(fReqValid))
        BY <1>2, <1>7 DEF After, One
    <2> QED BY <1>1, <1>2, <1>3, <1>4, <1>7, <2>1 DEF FlightInv
<1>9. QueueInv
    BY <1>2, <1>3 DEF QueueInv
<1>10. HeadInv
    <2>1. Queued = 0 + DPR * 0 - 0
        BY <1>2, <1>3 DEF Queued
    <2>2. dcount = Queued
        BY <1>1, <1>2, <2>1
    <2> QED BY <1>2, <1>4, <2>2 DEF HeadInv
<1>11. GrantInv
    BY <1>2, ReadArbAssumption DEF GrantInv
<1> QED BY <1>5, <1>6, <1>8, <1>9, <1>10, <1>11 DEF PathInv

LEMMA PathInvStep == ASSUME PathInv, [Next]_vars PROVE PathInv'
<1>1. CASE Next
    <2>1. FetchTypes /\ CountInv /\ FlightInv /\ QueueInv /\ HeadInv /\ GrantInv
        BY DEF PathInv
    <2>2. CountInv'
        BY <1>1, <2>1, CountStep
    <2>3. PICK c \in Cmds, grant, load, beat, took, pop \in BOOLEAN :
              FlightEdge(c, grant, load, beat, took) /\ QueueEdge(c, beat, pop) /\ ReaderEdge(grant, load)
        BY <1>1, <2>1, Edges
    <2>4. FetchTypes'
        BY <2>1, <2>2, <2>3, TypesStep
    <2>5. FlightInv'
        BY <2>1, <2>2, <2>3, FlightStep
    <2>6. QueueInv'
        BY <2>1, <2>2, <2>3, QueueStep
    <2>7. HeadInv'
        BY <2>1, <2>2, <2>3, HeadStep
    <2>8. GrantInv'
        BY <2>1, <2>3, GrantStep
    <2> QED BY <2>2, <2>4, <2>5, <2>6, <2>7, <2>8 DEF PathInv
<1>2. CASE UNCHANGED vars
    BY <1>2 DEF vars, fetchVars, arbVars, writeVars, envVars, histVars, PathInv, FetchTypes, CountInv,
        FlightInv, QueueInv, HeadInv, GrantInv, InStage, Due, Behind, Queued, GUsed
<1> QED BY <1>1, <1>2

\* Everything below rests on this: the invariant holds in every state reached.
THEOREM PathInductive == Spec => []PathInv
<1>1. Init => PathInv
    BY PathInvInit
<1>2. PathInv /\ [Next]_vars => PathInv'
    BY PathInvStep
<1> QED BY <1>1, <1>2, PTL DEF Spec

-----------------------------------------------------------------------------
(* What the fetch promises *)

\* qcore_seq_fetch counts as outstanding exactly the beats and the bursts the
\* request stage and memory still owe it, over flushes and restarts.
THEOREM BeatsCounted == Spec => []OutBeatsExact
<1>1. PathInv => OutBeatsExact
    <2> SUFFICES ASSUME PathInv PROVE OutBeatsExact
        OBVIOUS
    <2> DEFINE m == Len(mem)
               b == BPR
               q == IF m = 0 THEN 0 ELSE IF m <= b THEN 1 ELSE 2
               r == m + b - 1 - b * q
    <2>1. mem \in Seq(Bytes) /\ b \in Nat \ {0}
        BY Sizes DEF PathInv, FetchTypes
    <2>2. m \in Nat /\ (mem = <<>> <=> m = 0)
        BY <2>1, EmptySeq
    <2>3. /\ outBeats = m + (IF InStage THEN b ELSE 0) /\ m <= b + b
          /\ bursts = q + One(InStage)
        BY <2>2 DEF PathInv, CountInv
    <2> HIDE DEF m, b
    <2>4. q \in Int /\ r \in 0 .. (b - 1)
        <3>1. CASE m = 0
            <4>1. q = 0 /\ b * 0 = 0
                BY <2>1, <3>1
            <4> QED BY <2>1, <3>1, <4>1
        <3>2. CASE m # 0 /\ m <= b
            <4>1. q = 1 /\ b * 1 = b
                BY <2>1, <3>2
            <4> QED BY <2>1, <2>2, <3>2, <4>1
        <3>3. CASE m # 0 /\ ~(m <= b)
            <4>1. q = 2 /\ b * 2 = b + b
                BY <2>1, <3>3
            <4> QED BY <2>1, <2>2, <2>3, <3>3, <4>1
        <3> QED BY <3>1, <3>2, <3>3
    <2> HIDE DEF q
    <2>5. m + b - 1 = b * q + r
        BY <2>1, <2>2, <2>4
    <2> HIDE DEF r
    <2>6. (b * q + r) \div b = q
        BY <2>1, <2>4, ModUnique
    <2>7. (m + b - 1) \div b = q
        BY <2>5, <2>6
    <2> QED BY <2>3, <2>7 DEF OutBeatsExact, InStage, m, b
<1> QED BY <1>1, PathInductive, PTL

\* A group comes back only into space reserved when its request was raised.
THEOREM SpaceKept == Spec => []NoOverflow
<1>1. PathInv => NoOverflow
    <2> SUFFICES ASSUME PathInv PROVE NoOverflow
        OBVIOUS
    <2> DEFINE u == Len(gmem) + One(oValid) + bursts
    <2>1. u + One(fReqValid) <= GD /\ GD \in Nat
        BY Sizes DEF PathInv, CountInv, GUsed
    <2>2. gmem \in Seq(Groups) /\ bursts \in Nat
        BY DEF PathInv, FetchTypes
    <2>3. Len(gmem) \in Nat /\ One(oValid) \in Nat /\ One(fReqValid) \in Nat
        BY <2>2 DEF One
    <2>4. u \in Nat
        BY <2>2, <2>3
    <2> HIDE DEF u
    <2>5. u <= GD
        BY <2>1, <2>3, <2>4
    <2> QED BY <2>5 DEF NoOverflow, u
<1> QED BY <1>1, PathInductive, PTL

\* The head is the descriptor owed, in a group of one request.
LEMMA HeadOwed == ASSUME PathInv PROVE HeadIsNext
<1> SUFFICES ASSUME oValid
             PROVE  HeadAddr = nextPc /\ \A i \in 1 .. BPR : oGrp[i] = oGrp[1] + (i - 1) * WB
    BY DEF HeadIsNext
<1>1. on /\ nextPc = LaneAt(oGrp[1], oLane)
    BY DEF PathInv, HeadInv
<1>2. Whole(oGrp)
    BY DEF PathInv, QueueInv
<1> QED BY <1>1, <1>2 DEF HeadAddr, LaneAt, Whole, BeatAt

\* The dispatcher pops the descriptor it is owed and no other, whatever was in
\* flight when an older run was flushed, and wherever in a beat its own starts.
THEOREM HeadIsOwed == Spec => []HeadIsNext
<1>1. PathInv => HeadIsNext
    BY HeadOwed
<1> QED BY <1>1, PathInductive, PTL

\* The fence of qcore_mem_arb: once a write is presented, one fetch read at most
\* is still taken, and it was presented before.
THEOREM FenceHolds == Spec => []OneOvertakes
<1>1. PathInv => OneOvertakes
    BY DEF PathInv, GrantInv, OneOvertakes
<1> QED BY <1>1, PathInductive, PTL

\* After MaxBurst stream beats a fetch whose queue runs low is served before the
\* other readers: dq_count and s_beats, which the arbiter goes by, do not drift.
THEOREM SlotKept == Spec => []FetchSlot
<1>1. PathInv => FetchSlot
    <2> SUFFICES ASSUME PathInv, fReqValid, granted >= MaxBurst, Queued < LowMark, NEW rdReady \in BOOLEAN
                 PROVE  ~TakeS(Presented, rdReady) /\ ~TakeV(Presented, rdReady)
        BY DEF FetchSlot
    <2>1. dcount = Queued /\ granted \in 0 .. MaxBurst /\ granted <= sBeats /\ sBeats \in Nat
          /\ MaxBurst \in Nat
        BY ReadArbAssumption DEF PathInv, HeadInv, GrantInv, FetchTypes
    <2>2. sBeats >= MaxBurst
        BY <2>1
    <2>3. Presented.f /\ Presented.dqCount = dcount
        BY DEF Presented
    <2>4. FReserved(Presented)
        BY <2>1, <2>2, <2>3 DEF FReserved
    <2> QED BY <2>4 DEF TakeS, TakeV
<1> QED BY <1>1, PathInductive, PTL

\* The fetch, behind the arbiter and under the fence, is the stream of
\* descriptors Control is built on: a restart at any address, its descriptors
\* in order, and nothing more once it is flushed.
THEOREM FetchIsStream == Spec => StreamsInOrder
<1> DEFINE next == IF oValid THEN HeadAddr ELSE nextPc
<1>1. Init => Stream!StreamInit
    BY DEF Init, FetchInit, Stream!StreamInit
<1>2. PathInv /\ PathInv' /\ HeadIsNext /\ HeadIsNext' /\ [Next]_vars
          => [Stream!StreamNext]_(Stream!streamVars)
    <2> SUFFICES ASSUME PathInv, PathInv', HeadIsNext, HeadIsNext', [Next]_vars
                 PROVE  [Stream!StreamNext]_(Stream!streamVars)
        OBVIOUS
    <2>1. CASE Next
        <3>1. next = nextPc /\ next' = nextPc'
            BY DEF HeadIsNext
        <3> HIDE DEF next
        <3>2. PICK c \in Cmds, grant, load, beat, took, pop \in BOOLEAN :
                  FlightEdge(c, grant, load, beat, took) /\ QueueEdge(c, beat, pop)
            BY <2>1, Edges DEF PathInv
        <3>3. c.pc \in Bytes /\ c.start \in BOOLEAN /\ c.flush \in BOOLEAN /\ (c.start => c.flush)
            BY CmdTypes
        <3>4. /\ pop => oValid /\ on /\ ~Drops(c)
              /\ on' = (c.start \/ (on /\ ~c.flush))
              /\ nextPc' = IF c.start THEN c.pc ELSE IF pop THEN (nextPc + DescB) % ByteMod ELSE nextPc
              /\ Drops(c) => oValid' = FALSE
              /\ ~Drops(c) => oValid' = (Reads(pop) \/ (oValid /\ ~LastPop(pop)))
            BY <3>2 DEF QueueEdge
        <3>5. /\ on \in BOOLEAN /\ oValid \in BOOLEAN /\ oValid' \in BOOLEAN
              /\ (oValid' => on') /\ (LastPop(pop) => pop)
            BY DEF PathInv, FetchTypes, HeadInv, LastPop
        <3>6. CASE c.start
            <4>1. Stream!Restart(c.pc)
                BY <3>1, <3>4, <3>6 DEF Stream!Restart, next, Drops
            <4> QED BY <3>3, <4>1 DEF Stream!StreamNext
        <3>7. CASE ~c.start /\ c.flush
            <4>1. Stream!Flush
                BY <3>1, <3>4, <3>7 DEF Stream!Flush, next, Drops
            <4> QED BY <4>1 DEF Stream!StreamNext
        <3>8. CASE ~c.start /\ ~c.flush
            <4>1. ~Drops(c) /\ on' = on
                BY <3>3, <3>4, <3>5, <3>8 DEF Drops
            <4>2. nextPc' = IF oValid /\ pop THEN (nextPc + DescB) % ByteMod ELSE nextPc
                BY <3>4, <3>8
            <4>3. oValid' = ((oValid /\ ~pop) \/ oValid') /\ (oValid' => on)
                <5>1. oValid /\ ~pop => oValid'
                    BY <3>4, <4>1 DEF LastPop
                <5>2. oValid' => on
                    BY <3>5, <4>1
                <5> QED BY <3>5, <5>1, <5>2
            <4>4. Stream!Deliver(pop, oValid')
                BY <3>1, <4>1, <4>2, <4>3 DEF Stream!Deliver, next
            <4> QED BY <3>5, <4>4 DEF Stream!StreamNext
        <3> QED BY <3>3, <3>6, <3>7, <3>8
    <2>2. CASE UNCHANGED vars
        BY <2>2 DEF vars, fetchVars, arbVars, writeVars, envVars, histVars, Stream!streamVars, HeadAddr
    <2> QED BY <2>1, <2>2
<1> QED BY <1>1, <1>2, PathInductive, HeadIsOwed, PTL DEF Spec, StreamsInOrder, Stream!StreamSpec
=============================================================================
