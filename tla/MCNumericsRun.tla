---------------------------- MODULE MCNumericsRun ----------------------------
EXTENDS NumericsRun

MCExp2 == <<32, 35, 38, 41, 45, 49, 54, 59, 64>>

\* sigmoid(i / 2) of Half = 32, 0 to 16.
MCSigmoid == <<16, 20, 23, 26, 28, 30, 30, 31>> \o [i \in 1 .. 25 |-> IF i < 2 THEN 31 ELSE 32]

Row(a, b, n) == Pattern(a, b, n)
Maxima(x, s) == [X |-> x, XN |-> x, QKV |-> 0, S |-> s, GU |-> x, H |-> x + 2, CTX |-> x, LOGITS |-> x]

\* Large first K pairs against a small query; values of both heads apart; a score
\* too large for its class.
MCTokens ==
    {[q |-> Row(1, 6, 16), k |-> Row(12, 2, 4) \o Row(4, 4, 4), v |-> Row(3, -5, 8), maxima |-> Maxima(8, 4)],
     [q |-> Row(-2, 3, 8) \o Row(9, 1, 8), k |-> Row(10, -2, 4) \o Row(1, 7, 4), v |-> Row(2, 2, 8),
      maxima |-> Maxima(20, 6)],
     [q |-> Row(40, -40, 16), k |-> Row(40, -40, 8), v |-> Row(2, 2, 8), maxima |-> Maxima(20, 6)]}

MCCheckpoint ==
    [embed |-> <<<<3, -7>>, <<16, 5>>, <<0, 0>>>>,
     wq |-> [i \in 1 .. 16 |-> <<i - 8, 3>>], bq |-> [i \in 1 .. 16 |-> i % 3],
     wk |-> [i \in 1 .. 8 |-> <<5, i>>], wv |-> [i \in 1 .. 8 |-> <<-3, i - 4>>],
     bv |-> [i \in 1 .. 8 |-> i % 2],
     wo |-> [i \in 1 .. 2 |-> Row(2, i - 3, 16)],
     wgu |-> <<<<4, 1>>, <<-9, 2>>>>, wdown |-> <<<<6, 6>>, <<1, -2>>>>]

MCLevels == {-2048, -37, 0, 1, 2047}
=============================================================================
