------------------------------- MODULE Layout -------------------------------
(***************************************************************************)
(* The static half of sw/quettos/compiler.py: tiling, the VSRAM and SREG   *)
(* maps, the QMEM regions and the image.  A shape m is a model with the    *)
(* parameters of the compilation.  An address holds an atom, the name of   *)
(* the datum stored there: <<what, layer, i, j>>.                          *)
(***************************************************************************)
EXTENDS Isa

CONSTANTS
    Align,        \* ALIGN: every region starts on a beat
    RopeBase, ConstBase, WeightBase,   \* ROPE_BASE, CONST_BASE, WEIGHT_BASE
    WbUnit,       \* the port width is a multiple of this, 8 in the source
    MaxCtxCap     \* program.MAX_CTX

Shape == [layers : Nat \ {0}, hidden : Nat \ {0}, heads : Nat \ {0}, kv : Nat \ {0},
          inter : Nat \ {0}, vocab : Nat \ {0}, wb : Nat \ {0}, ctx : Nat \ {0},
          words : Nat]

Zero == <<"zero", 0, 0, 0>>

AlignUp(x) == RoundUp(x, Align)

-----------------------------------------------------------------------------
(* Tiling *)

TilesFor(n, wb)      == CeilDiv(n, wb)
TiledBytes(n, k, wb) == TilesFor(n, wb) * k * wb

\* iter_weight_tiles: byte (tile * K + k) * Wb + j is channel tile * Wb + j at k.
WeightByte(n, k, wb, off) ==
    [n |-> (off \div (k * wb)) * wb + (off % wb), k |-> (off \div wb) % k]

-----------------------------------------------------------------------------
(* Shapes *)

HD(m)  == m.heads * HeadDim
KVD(m) == m.kv * HeadDim

Linears == <<"wqkv", "wo", "wgu", "wdown">>
MetaOf  == [wqkv |-> "wqkv.meta", wo |-> "wo.meta", wgu |-> "wgu.meta",
            wdown |-> "wdown.meta", embed |-> "embed.meta"]

Channels(m, lin) ==
    CASE lin = "wqkv" -> HD(m) + 2 * KVD(m)
      [] lin = "wgu" -> 2 * m.inter
      [] lin = "embed" -> m.vocab
      [] OTHER -> m.hidden

Depth(m, lin) ==
    CASE lin = "wo" -> HD(m)
      [] lin = "wdown" -> m.inter
      [] OTHER -> m.hidden

\* _check_params: head_dim is fixed here, the numeric windows are in Program.
ParamsOk(m) ==
    /\ m.wb % WbUnit = 0
    /\ m.ctx \in 1 .. MaxCtxCap /\ m.ctx % m.wb = 0
    /\ m.words >= 1

-----------------------------------------------------------------------------
(* On-chip maps *)

VsramOrder == <<"X", "XN", "A", "QKV", "CTX", "CTXQ", "GU", "HQ", "S", "W">>

VsramSize(m, name) ==
    CASE name \in {"X", "XN", "A"} -> m.hidden
      [] name = "QKV" -> HD(m) + 2 * KVD(m)
      [] name \in {"CTX", "CTXQ"} -> HD(m)
      [] name = "GU" -> 2 * m.inter
      [] name = "HQ" -> m.inter
      [] name \in {"S", "W"} -> m.ctx

\* vsram_map: the start of each range, in order, and the elements used.
VsramMap(m) ==
    LET place(acc, name) ==
          LET at == RoundUp(acc.pos, WordElems)
          IN [pos |-> at + VsramSize(m, name), start |-> acc.start @@ (name :> at)]
    IN Fold(place, [pos |-> 0, start |-> <<>>], VsramOrder)

\* Fault: the last range is only required to start inside.
VsramFitsStart(m) == VsramMap(m).start["W"] <= m.words * WordElems

VsramFits(m) == VsramMap(m).pos <= m.words * WordElems

\* sreg_map: fixed slots, then one per query head and per KV head for K and V.
SregMap(m) ==
    [absmax |-> 0, a |-> 1, ctx |-> 2, h |-> 3, w |-> 4, q0 |-> 5,
     k0 |-> 5 + m.heads, v0 |-> 5 + m.heads + m.kv,
     count |-> 5 + m.heads + 2 * m.kv]

SregFits(m) == SregMap(m).count <= SregCount

-----------------------------------------------------------------------------
(* QMEM regions *)

\* kv_sizes: K^T has the tokens as channels, V has the dimensions.
KvSize(m, part) ==
    CASE part = "kt" -> TilesFor(m.ctx, m.wb) * HeadDim * m.wb
      [] part = "v" -> TilesFor(HeadDim, m.wb) * m.ctx * m.wb
      [] OTHER -> m.ctx * MetaBytes

Item(name, layer, head, size, kind) ==
    [name |-> <<name, layer, head>>, size |-> size, kind |-> kind]

Linear(m, lin, layer) ==
    <<Item(lin, layer, 0, TiledBytes(Channels(m, lin), Depth(m, lin), m.wb), "weights"),
      Item(MetaOf[lin], layer, 0, TilesFor(Channels(m, lin), m.wb) * m.wb * MetaBytes, "meta")>>

LayerItems(m, i) ==
    Concat([j \in 1 .. Len(Linears) |-> Linear(m, Linears[j], i)])
        \o <<Item("gamma_in", i, 0, m.hidden, "gamma"), Item("gamma_post", i, 0, m.hidden, "gamma")>>

KvItems(m, i, g) ==
    [j \in 1 .. 4 |-> LET part == <<"kt", "v", "k_meta", "v_meta">>[j]
                      IN Item(part, i, g, KvSize(m, part), "kv")]

\* add: place the items one after the other from base, each start aligned.
Place(base, items) ==
    LET add(acc, it) ==
          [next |-> AlignUp(acc.next + it.size), regions |-> Append(acc.regions, it @@ [addr |-> acc.next])]
    IN With(items, LAMBDA list : Fold(add, [next |-> base, regions |-> <<>>], list))

\* plan_regions: the tables, the constants, the weights and the KV region.
TableItems(m) == <<Item("rope", 0, 0, m.ctx * RopeRowBytes, "table")>>
ConstItems(m) == [i \in 1 .. m.layers |-> Item("kcenter", i - 1, 0, KVD(m), "const")]
WeightItems(m) ==
    Concat([i \in 1 .. m.layers |-> LayerItems(m, i - 1)])
        \o Linear(m, "embed", 0) \o <<Item("gamma_final", 0, 0, m.hidden, "gamma")>>
        \o Concat([i \in 1 .. m.layers |->
                          Concat([g \in 1 .. m.kv |-> KvItems(m, i - 1, g - 1)])])

PlanRegions(m) ==
    Place(RopeBase, TableItems(m)).regions \o Place(ConstBase, ConstItems(m)).regions
        \o Place(WeightBase, WeightItems(m)).regions

\* jump: an area may not run into the base of the next.
JumpsOk(m) ==
    /\ Place(RopeBase, TableItems(m)).next <= ConstBase
    /\ Place(ConstBase, ConstItems(m)).next <= WeightBase

RegionEnd(r) == r.addr + r.size

\* The regions above the programs of a shape, by name.
RegionsOf(m) ==
    With(PlanRegions(m), LAMBDA rs :
        [nm \in {rs[i].name : i \in DOMAIN rs} |-> rs[CHOOSE i \in DOMAIN rs : rs[i].name = nm]])

-----------------------------------------------------------------------------
(* The image *)

\* region_chunks: what the byte at an offset of a region holds.
Payload(m, r, off) ==
    LET what == r.name[1]
        layer == r.name[2]
    IN CASE r.kind = "weights" ->
              LET b == WeightByte(Channels(m, what), Depth(m, what), m.wb, off)
              IN IF b.n < Channels(m, what) THEN <<what, layer, b.n, b.k>> ELSE Zero
         [] r.kind = "meta" ->
              LET lin == CHOOSE x \in DOMAIN MetaOf : MetaOf[x] = what
              IN IF off % MetaBytes = 0 /\ off \div MetaBytes < Channels(m, lin)
                 THEN <<what, layer, off \div MetaBytes, 0>> ELSE Zero
         [] r.kind = "table" ->
              IF off % RopeRowBytes = 0 THEN <<what, layer, off \div RopeRowBytes, 0>> ELSE Zero
         [] r.kind \in {"const", "gamma"} -> <<what, layer, off, 0>>
         [] r.kind = "program" ->
              IF off % DescBytes = 0 THEN <<what, layer, off \div DescBytes, 0>> ELSE Zero
         [] r.kind = "kv" -> Zero

\* write_image: regions in address order, zero gaps, extended to total.
ImageOk(rs) ==
    \A i \in DOMAIN rs :
        /\ rs[i].addr % Align = 0
        /\ i > 1 => RegionEnd(rs[i - 1]) <= rs[i].addr

\* The streamed bytes, zero up to total.
Filled(stream, rs) ==
    [a \in 0 .. AlignUp(RegionEnd(rs[Len(rs)])) - 1 |->
        IF a + 1 \in DOMAIN stream THEN stream[a + 1] ELSE Zero]

Bytes(m, r) == Seqn([o \in 1 .. r.size |-> Payload(m, r, o - 1)])

Image(m, rs) ==
    LET zeros(n) == Seqn([o \in 1 .. n |-> Zero])
        before(i) == IF i = 1 THEN 0 ELSE RegionEnd(rs[i - 1])
    IN With(Concat([i \in DOMAIN rs |-> zeros(rs[i].addr - before(i)) \o Bytes(m, rs[i])]),
            LAMBDA stream : Filled(stream, rs))
=============================================================================
