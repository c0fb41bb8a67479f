----------------------------- MODULE MCTokenRun -----------------------------
(***************************************************************************)
(* Shapes around the boundaries: tile narrower and wider than a head, one   *)
(* query head per KV head and two, channels that fill no tile, VSRAM words  *)
(* and registers exactly enough; the last three are refused (a word and a   *)
(* register too few, a context of half a tile).                             *)
(***************************************************************************)
EXTENDS TokenRun

Sh(layers, hidden, heads, kv, inter, vocab, wb, ctx, words) ==
    [layers |-> layers, hidden |-> hidden, heads |-> heads, kv |-> kv, inter |-> inter,
     vocab |-> vocab, wb |-> wb, ctx |-> ctx, words |-> words]

MCShapes == {Sh(1, 3, 2, 1, 1, 3, 2, 4, 20), Sh(2, 2, 1, 1, 1, 2, 4, 4, 14),
             Sh(1, 2, 4, 2, 2, 2, 1, 3, 26), Sh(1, 3, 2, 1, 1, 3, 2, 4, 19),
             Sh(1, 2, 4, 4, 1, 2, 1, 3, 40), Sh(1, 3, 2, 1, 1, 3, 2, 3, 40)}
=============================================================================
