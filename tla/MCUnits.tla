------------------------------ MODULE MCUnits ------------------------------
EXTENDS Units

\* Regions of QMEM.
Weights == 0
Metas   == 128
Table   == 256
TableM  == 448
KCache  == 512
VCache  == 768
KvMetas == 960
Dump    == 1008

MCMem ==
    [a \in 0 .. 1200 |->
        IF a \in Metas .. Table - 1 \/ a \in TableM .. KCache - 1 THEN 1 + ((a * 5) % 61)
        ELSE ((a * 7 + a \div 8) % 11) - 5]

MCLoaded == [v \in Rows |-> [a \in Elems |-> ((37 * v + 17 * a) % 97) - 40]]

Gemv(rows, vs_src, vs_dst, mode, f) ==
    gemv(f @@ [row_mask |-> rows, addr_a |-> Weights, addr_m |-> Metas, vs_src |-> vs_src,
               vs_dst |-> vs_dst, out_mode |-> mode, sreg_src |-> 1, sreg_dst |-> 3,
               imm |-> IF mode \in {"VSRAM_DUMP", "ARGMAX_DUMP"} THEN Dump ELSE 0, sh |-> "qkv"])

Job(d, pos, tok) == [d |-> d, pos |-> pos, tok |-> tok]

\* Two rows, a partial last tile, an old value under every output; the activations
\* take three words, the last past the end of the VSRAM.
Accumulates(n, mode, kpos) ==
    Job(Gemv({0, 1}, 19, 8, mode,
             [n |-> n, k |-> 7, k_from_pos |-> TRUE, accumulate |-> TRUE, track_absmax |-> TRUE]), kpos, 0)
\* Extents of POS, rounded up past the field; tiles of one beat; no meta stream.
Scores ==
    Job(Gemv({0, 1}, 8, 0, "ARGMAX_DUMP", [n |-> 11, k |-> 1, n_from_pos |-> TRUE, unit_meta |-> TRUE]), 8, 0)
\* The outputs leave the VSRAM and POS the extent; the banks differ.
Leaves ==
    Job(Gemv({0}, 11, 16, "VSRAM", [n |-> 10, k |-> 4, k_from_pos |-> TRUE, src_row |-> 1, accumulate |-> TRUE]), 8, 0)
Embeds ==
    Job(embed([row_mask |-> {0, 1}, addr_a |-> Table, addr_m |-> TableM, k |-> 10, vs_dst |-> 8,
               sh |-> "embed", track_absmax |-> TRUE, sreg_dst |-> 2]), 0, 11)
Kv(rows, transposed, vs_src, pos) ==
    Job(kvwrite([row_mask |-> rows, addr_a |-> IF transposed THEN KCache ELSE VCache, addr_m |-> KvMetas,
                 vs_src |-> vs_src, sreg_src |-> 1], transposed, 10), pos, 0)

\* Retired at once: nothing of it is on the units.
NoWork == Job(Gemv({0}, 0, 0, "VSRAM", [n |-> 4, k |-> 0]), 0, 0)

MCPrograms == {
    <<Accumulates(10, "VSRAM_DUMP", 3), Scores>>,
    <<Embeds, NoWork, Accumulates(9, "VSRAM", 5)>>,
    <<Kv({0, 1}, TRUE, 3, 9), Leaves>>,
    <<Kv({1}, FALSE, 5, 9), Embeds>>,
    <<Kv({0, 1}, FALSE, 4, 10), Kv({0}, TRUE, 12, 3), Kv({1}, FALSE, 8, 3)>>}

\* A last tile of one channel behind dump beats.
OldWordPrograms == {<<Accumulates(9, "VSRAM_DUMP", 5)>>}
=============================================================================
