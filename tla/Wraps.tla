------------------------------- MODULE Wraps -------------------------------
(***************************************************************************)
(* What several proofs need: the arithmetic of registers that wrap, with   *)
(* remainders and quotients by a modulus that is a parameter, and the      *)
(* sequences whose elements have no one type.                              *)
(***************************************************************************)
EXTENDS Integers, SequenceTheorems, TLAPS

\* A value modulo m is a value of the register.
LEMMA ModType ==
    ASSUME NEW m \in Nat \ {0}, NEW x \in Int
    PROVE  x % m \in 0 .. (m - 1)
BY SMT

\* A register value is its own remainder.
LEMMA ModSmall ==
    ASSUME NEW m \in Nat \ {0}, NEW x \in 0 .. (m - 1)
    PROVE  x % m = x
BY SMT

\* One turn past the end is subtracted.
LEMMA ModWrap ==
    ASSUME NEW m \in Nat \ {0}, NEW x \in m .. (2 * m - 1)
    PROVE  x % m = x - m
BY SMT

\* Quotient and remainder.
LEMMA DivMod ==
    ASSUME NEW m \in Nat \ {0}, NEW x \in Int
    PROVE  x \div m \in Int /\ x = m * (x \div m) + (x % m)
BY SMT

\* A multiple that lies strictly between two neighbours of zero is zero.
LEMMA NoMultiple ==
    ASSUME NEW m \in Nat \ {0}, NEW k \in Int, m * k < m, -m < m * k
    PROVE  k = 0
<1>1. ASSUME k >= 1 PROVE FALSE
    <2>1. m * k = m + m * (k - 1)
        OBVIOUS
    <2>2. m * (k - 1) >= 0
        BY <1>1
    <2> QED BY <2>1, <2>2
<1>2. ASSUME k <= -1 PROVE FALSE
    <2>1. m * k = -m - m * (-k - 1)
        OBVIOUS
    <2>2. m * (-k - 1) >= 0
        BY <1>2
    <2> QED BY <2>1, <2>2
<1> QED BY <1>1, <1>2

\* The remainder is the only one.
LEMMA ModUnique ==
    ASSUME NEW m \in Nat \ {0}, NEW k \in Int, NEW r \in 0 .. (m - 1)
    PROVE  (m * k + r) % m = r /\ (m * k + r) \div m = k
<1> DEFINE x == m * k + r
           q == x \div m
           s == x % m
<1>1. x \in Int /\ q \in Int /\ s \in 0 .. (m - 1) /\ x = (m * q) + s
    BY DivMod, ModType
<1> HIDE DEF q, s
<1>2. m * (q - k) = m * q - m * k
    BY <1>1
<1>3. m * (q - k) = r - s
    BY <1>1, <1>2
<1>4. q - k = 0
    BY <1>1, <1>3, NoMultiple
<1> QED BY <1>1, <1>3, <1>4 DEF q, s

\* A multiple of the modulus added leaves the remainder.
LEMMA ModShift ==
    ASSUME NEW m \in Nat \ {0}, NEW x \in Int, NEW k \in Int
    PROVE  (x + m * k) % m = x % m
<1> DEFINE q == x \div m
           s == x % m
<1>1. q \in Int /\ s \in 0 .. (m - 1) /\ x = (m * q) + s
    BY DivMod, ModType
<1> HIDE DEF q, s
<1>2. x + m * k = m * (q + k) + s
    BY <1>1
<1>3. (m * (q + k) + s) % m = s
    BY <1>1, ModUnique
<1> QED BY <1>2, <1>3 DEF s

\* Cutting twice is cutting once.
LEMMA ModMod ==
    ASSUME NEW m \in Nat \ {0}, NEW x \in Int
    PROVE  (x % m) % m = x % m
BY ModType, ModSmall

\* A sum that was cut on the way is the sum cut at the end.
LEMMA ModAdd ==
    ASSUME NEW m \in Nat \ {0}, NEW x \in Int, NEW y \in Int
    PROVE  ((x % m) + y) % m = (x + y) % m
<1> DEFINE q == x \div m
           s == x % m
<1>1. q \in Int /\ s \in Int /\ x = (m * q) + s
    BY DivMod, ModType
<1> HIDE DEF q, s
<1>2. x + y = (s + y) + m * q
    BY <1>1
<1> DEFINE z == s + y
<1>3. z \in Int
    BY <1>1
<1> HIDE DEF z
<1>4. (z + m * q) % m = z % m
    BY <1>1, <1>3, ModShift
<1> QED BY <1>2, <1>4 DEF s, z

-----------------------------------------------------------------------------
(* Sequences *)

\* A sequence, of whatever.
IsSeq(s) == s \in Seq({s[i] : i \in DOMAIN s})

\* What is a sequence over some set is one.
LEMMA SeqIn ==
    ASSUME NEW S, NEW s \in Seq(S)
    PROVE  IsSeq(s) /\ Len(s) \in Nat /\ DOMAIN s = 1 .. Len(s)
<1>1. Len(s) \in Nat /\ s \in [1 .. Len(s) -> S] /\ DOMAIN s = 1 .. Len(s)
    BY LenProperties
<1> DEFINE T == {s[i] : i \in DOMAIN s}
<1>2. s = [i \in 1 .. Len(s) |-> s[i]]
    BY <1>1
<1>3. \A i \in 1 .. Len(s) : s[i] \in T
    BY <1>1
<1> HIDE DEF T
<1>4. s \in Seq(T)
    BY <1>1, <1>2, <1>3, SeqDef
<1> QED BY <1>1, <1>4 DEF IsSeq, T

\* The length and the indices of a sequence.
LEMMA SeqLen ==
    ASSUME NEW s, IsSeq(s)
    PROVE  /\ Len(s) \in Nat /\ DOMAIN s = 1 .. Len(s)
           /\ s = <<>> <=> Len(s) = 0
<1> DEFINE S == {s[i] : i \in DOMAIN s}
<1>1. s \in Seq(S)
    BY DEF IsSeq
<1> HIDE DEF S
<1>2. Len(s) \in Nat /\ DOMAIN s = 1 .. Len(s)
    BY <1>1, LenProperties
<1>3. Len(<<>>) = 0 /\ (s # <<>> => Len(s) \in Nat \ {0})
    BY <1>1, EmptySeq
<1> QED BY <1>2, <1>3

\* One sequence behind the other.
LEMMA SeqConcat ==
    ASSUME NEW s, NEW t, IsSeq(s), IsSeq(t)
    PROVE  /\ IsSeq(s \o t) /\ Len(s \o t) = Len(s) + Len(t)
           /\ \A i \in 1 .. Len(s) + Len(t) : (s \o t)[i] = IF i <= Len(s) THEN s[i] ELSE t[i - Len(s)]
<1> DEFINE S == {s[i] : i \in DOMAIN s}
           T == {t[i] : i \in DOMAIN t}
<1>1. s \in Seq(S) /\ t \in Seq(T)
    BY DEF IsSeq
<1> HIDE DEF S, T
<1>2. s \in Seq(S \cup T) /\ t \in Seq(S \cup T)
    BY <1>1, SeqMonotonic
<1>3. s \o t \in Seq(S \cup T)
    BY <1>2, ConcatProperties
<1>4. IsSeq(s \o t)
    BY <1>3, SeqIn
<1> QED BY <1>2, <1>4, ConcatProperties

\* A sequence without its head.
LEMMA SeqTail ==
    ASSUME NEW s, IsSeq(s), s # <<>>
    PROVE  /\ IsSeq(Tail(s)) /\ Len(Tail(s)) = Len(s) - 1
           /\ Head(s) = s[1]
           /\ \A i \in 1 .. Len(s) - 1 : Tail(s)[i] = s[i + 1]
<1> DEFINE S == {s[i] : i \in DOMAIN s}
<1>1. s \in Seq(S)
    BY DEF IsSeq
<1> HIDE DEF S
<1>2. /\ Tail(s) \in Seq(S) /\ Len(Tail(s)) = Len(s) - 1
      /\ \A i \in 1 .. Len(Tail(s)) : Tail(s)[i] = s[i + 1]
    BY <1>1, HeadTailProperties
<1>3. IsSeq(Tail(s))
    BY <1>2, SeqIn
<1>4. Head(s) = s[1]
    BY <1>1
<1> QED BY <1>2, <1>3, <1>4
=============================================================================
