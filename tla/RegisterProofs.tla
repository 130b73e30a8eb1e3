--------------------------- MODULE RegisterProofs ---------------------------
(***************************************************************************)
(* Proofs about the Modbus codecs: what is written to coils or registers   *)
(* is read back, for every size of a byte, every number of values, every   *)
(* codec, and however the answer is split.                                 *)
(***************************************************************************)
EXTENDS CaptureProofs, SequenceTheorems

-----------------------------------------------------------------------------
(* Division.                                                               *)

\* Quotient and remainder make up a number,
LEMMA Divided ==
    ASSUME NEW d \in Nat \ {0}, NEW n \in Int
    PROVE  n \div d \in Int /\ n % d \in 0..(d - 1) /\ n = d * (n \div d) + (n % d)
  OBVIOUS

\* and only they do.
LEMMA DividedOnce ==
    ASSUME NEW d \in Nat \ {0}, NEW q \in Int, NEW r \in 0..(d - 1), NEW a \in Int, NEW b \in 0..(d - 1),
           d * q + r = d * a + b
    PROVE  q = a /\ r = b
  <1>1. d * (q - a) = b - r
    OBVIOUS
  <1>2. q - a >= 1 => d * (q - a) >= d
    OBVIOUS
  <1>3. q - a <= -1 => d * (q - a) <= -d
    OBVIOUS
  <1> QED BY <1>1, <1>2, <1>3

LEMMA Composed ==
    ASSUME NEW d \in Nat \ {0}, NEW a \in Int, NEW b \in 0..(d - 1)
    PROVE  (a * d + b) \div d = a /\ (a * d + b) % d = b
  <1>1. a * d + b \in Int /\ a * d + b = d * a + b
    OBVIOUS
  <1> QED BY <1>1, Divided, DividedOnce

\* The two digits of a number below d * d.
LEMMA HighDigit ==
    ASSUME NEW d \in Nat \ {0}, NEW n \in 0..(d * d - 1)
    PROVE  n \div d \in 0..(d - 1)
  <1> DEFINE q == n \div d
  <1>1. q \in Int /\ n % d \in 0..(d - 1) /\ n = d * q + (n % d)
    BY Divided
  <1> HIDE DEF q
  <1>2. q >= d => d * q >= d * d
    BY <1>1
  <1>3. q <= -1 => d * q <= -d
    BY <1>1
  <1> QED BY <1>1, <1>2, <1>3 DEF q

\* Two digits make a number below d * d.
LEMMA TwoDigits ==
    ASSUME NEW d \in Nat \ {0}, NEW a \in 0..(d - 1), NEW b \in 0..(d - 1)
    PROVE  a * d + b \in 0..(d * d - 1)
  <1>1. a * d <= (d - 1) * d
    OBVIOUS
  <1>2. (d - 1) * d = d * d - d
    OBVIOUS
  <1>3. a * d \in Nat /\ d * d \in Nat
    OBVIOUS
  <1> QED BY <1>1, <1>2, <1>3

\* Two's complement: a number of either sign comes back from its remainder,
LEMMA SignKept ==
    ASSUME NEW w \in Nat \ {0, 1}, NEW n \in -(w \div 2)..(w \div 2 - 1)
    PROVE  Signed(n % w, w) = n
  <1>1. w \div 2 \in Nat /\ 2 * (w \div 2) <= w /\ w \div 2 >= 1
    OBVIOUS
  <1>2. CASE n >= 0
    <2>1. n \in 0..(w - 1) /\ n = 0 * w + n
      BY <1>1, <1>2
    <2>2. n % w = n
      BY <2>1, Composed
    <2> QED BY <1>1, <2>2 DEF Signed
  <1>3. CASE n < 0
    <2>1. n + w \in 0..(w - 1) /\ n = (-1) * w + (n + w)
      BY <1>1, <1>3
    <2>2. n % w = n + w
      <3> DEFINE m == n + w
      <3>1. ((-1) * w + m) % w = m
        <4> HIDE DEF m
        <4> QED BY <2>1, Composed DEF m
      <3> QED BY <2>1, <3>1
    <2>3. ~(n + w < w \div 2)
      BY <1>1
    <2> QED BY <1>1, <2>2, <2>3 DEF Signed
  <1> QED BY <1>2, <1>3

\* and a number of no sign is its own.
LEMMA NoSign ==
    ASSUME NEW w \in Nat \ {0}, NEW n \in 0..(w - 1)
    PROVE  n % w = n
  <1>1. n = 0 * w + n
    OBVIOUS
  <1> QED BY <1>1, Composed

-----------------------------------------------------------------------------
(* Words.                                                                  *)

LEMMA Widths ==
    /\ Base \in Nat \ {0, 1} /\ Word \in Nat \ {0, 1} /\ Wide \in Nat \ {0, 1}
    /\ Word = Base * Base /\ Wide = Word * Word
  <1>1. Base \in Nat \ {0, 1} /\ Word = Base * Base /\ Wide = Word * Word
    BY ModbusAssumptions DEF Word, Wide
  <1>2. \A b \in Nat \ {0, 1} : b * b \in Nat \ {0, 1}
    <2> TAKE b \in Nat \ {0, 1}
    <2>1. b >= 2 /\ b * b >= 2 * b
      OBVIOUS
    <2> QED BY <2>1
  <1> QED BY <1>1, <1>2

\* Swapping the bytes of a word twice changes nothing.
LEMMA SwapTwice ==
    ASSUME NEW w \in 0..(Word - 1)
    PROVE  Swap(w) \in 0..(Word - 1) /\ Swap(Swap(w)) = w
  <1> DEFINE h == w \div Base
             l == w % Base
  <1>1. h \in 0..(Base - 1) /\ l \in 0..(Base - 1) /\ w = Base * h + l
    <2>1. Base \in Nat \ {0} /\ w \in 0..(Base * Base - 1) /\ w \in Int
      BY Widths
    <2>2. h \in 0..(Base - 1)
      BY <2>1, HighDigit
    <2>3. l \in 0..(Base - 1) /\ w = Base * h + l
      BY <2>1, Divided
    <2> QED BY <2>2, <2>3
  <1>2. Swap(w) = l * Base + h
    BY DEF Swap
  <1> HIDE DEF h, l
  <1>3. l * Base + h \in 0..(Word - 1)
    BY <1>1, Widths, TwoDigits
  <1>4. (l * Base + h) \div Base = l /\ (l * Base + h) % Base = h
    BY <1>1, Widths, Composed
  <1>5. Swap(l * Base + h) = h * Base + l
    BY <1>4 DEF Swap
  <1>6. h * Base + l = w
    BY <1>1, Widths
  <1> QED BY <1>2, <1>3, <1>5, <1>6

\* The word of a register pair, as decode_modbus_value puts it together.
Joined2(codec, hi, lo) == IF codec \in LeCodecs THEN Swap(hi) * Word + Swap(lo) ELSE hi * Word + lo

\* The two registers of a number hold it.
LEMMA WordsJoined ==
    ASSUME NEW codec, NEW n \in Int
    PROVE  /\ Len(WordsOf(codec, n)) = 2 /\ WordsOf(codec, n) \in Seq(0..(Word - 1))
           /\ Joined2(codec, WordsOf(codec, n)[1], WordsOf(codec, n)[2]) = n % Wide
  <1> DEFINE u == n % Wide
             h == u \div Word
             l == u % Word
  <1>1. u \in 0..(Wide - 1)
    BY Widths, Divided
  <1> HIDE DEF u
  <1>2. h \in 0..(Word - 1) /\ l \in 0..(Word - 1) /\ u = Word * h + l
    <2>1. Word \in Nat \ {0} /\ u \in 0..(Word * Word - 1) /\ u \in Int
      BY <1>1, Widths
    <2>2. h \in 0..(Word - 1)
      BY <2>1, HighDigit
    <2>3. l \in 0..(Word - 1) /\ u = Word * h + l
      BY <2>1, Divided
    <2> QED BY <2>2, <2>3
  <1>3. WordsOf(codec, n) = IF codec \in LeCodecs THEN <<Swap(h), Swap(l)>> ELSE <<h, l>>
    BY DEF WordsOf, u
  <1> HIDE DEF h, l
  <1>4. h * Word + l = u
    BY <1>2, Widths
  <1>5. /\ Swap(h) \in 0..(Word - 1) /\ Swap(Swap(h)) = h
        /\ Swap(l) \in 0..(Word - 1) /\ Swap(Swap(l)) = l
    BY <1>2, SwapTwice
  <1>6. CASE codec \in LeCodecs
    <2>1. WordsOf(codec, n) = <<Swap(h), Swap(l)>>
      BY <1>3, <1>6
    <2> HIDE DEF Swap
    <2> QED BY <1>2, <1>4, <1>5, <1>6, <2>1 DEF Joined2, u
  <1>7. CASE codec \notin LeCodecs
    <2>1. WordsOf(codec, n) = <<h, l>>
      BY <1>3, <1>7
    <2> QED BY <1>2, <1>4, <1>7, <2>1 DEF Joined2, u
  <1> QED BY <1>6, <1>7

\* Registers that nothing was written to hold zero.
LEMMA ZeroJoined == ASSUME NEW codec PROVE Swap(0) = 0 /\ Joined2(codec, 0, 0) = 0
  <1>1. 0 \div Base = 0 /\ 0 % Base = 0
    <2>1. 0 = 0 * Base + 0
      BY Widths
    <2> QED BY <2>1, Widths, Composed
  <1>2. Swap(0) = 0
    BY <1>1, Widths DEF Swap
  <1> QED BY <1>2, Widths DEF Joined2

-----------------------------------------------------------------------------
(* Sequences of pairs.                                                     *)

\* s is a list of n pairs over S.
PairsOver(s, n, S) == /\ n \in Nat /\ s \in [1..n -> Seq(S)]
                      /\ \A i \in 1..n : Len(s[i]) = 2

\* The j-th half of a list of pairs.
Half(s, j) == s[(j + 1) \div 2][2 - (j % 2)]

\* f flattens longer and longer beginnings of s.
Flattens(f, s) == f = [i \in 1..Len(s) |-> IF i = 1 THEN s[i] ELSE f[i - 1] \o s[i]]

LEMMA FlattenByParts ==
    ASSUME NEW s, Len(s) # 0
    PROVE  FlattenSeq(s) = (CHOOSE f : Flattens(f, s))[Len(s)]
  BY DEF FlattenSeq, Flattens

\* Which pair a half belongs to.
LEMMA HalfPlace ==
    ASSUME NEW j \in Nat \ {0}
    PROVE  LET i == (j + 1) \div 2 IN
           /\ i \in Nat \ {0} /\ 2 - (j % 2) \in {1, 2}
           /\ j = 2 * i - 1 => 2 - (j % 2) = 1
           /\ j = 2 * i => 2 - (j % 2) = 2
           /\ j = 2 * i - 1 \/ j = 2 * i
  OBVIOUS

LEMMA HalvesOf ==
    ASSUME NEW s, NEW i \in Nat \ {0}
    PROVE  Half(s, 2 * i - 1) = s[i][1] /\ Half(s, 2 * i) = s[i][2]
  <1>1. (2 * i - 1 + 1) \div 2 = i /\ (2 * i - 1) % 2 = 1 /\ (2 * i + 1) \div 2 = i /\ (2 * i) % 2 = 0
    OBVIOUS
  <1> QED BY <1>1 DEF Half

\* The first i pairs, flattened.
FirstPairs(s, i) == [j \in 1..(2 * i) |-> Half(s, j)]

LEMMA PairsGrow ==
    ASSUME NEW n, NEW S, NEW s, PairsOver(s, n, S), NEW i \in 1..n
    PROVE  /\ FirstPairs(s, i) \in Seq(S) /\ Len(FirstPairs(s, i)) = 2 * i
           /\ i = 1 => FirstPairs(s, i) = s[i]
           /\ i # 1 => FirstPairs(s, i) = FirstPairs(s, i - 1) \o s[i]
  <1>1. n \in Nat /\ i \in Nat \ {0} /\ i <= n
    BY DEF PairsOver
  <1>2. \A k \in 1..n : s[k] \in Seq(S) /\ Len(s[k]) = 2 /\ s[k][1] \in S /\ s[k][2] \in S
    BY DEF PairsOver
  <1>3. ASSUME NEW k \in 0..n PROVE FirstPairs(s, k) \in Seq(S) /\ Len(FirstPairs(s, k)) = 2 * k
    <2>1. ASSUME NEW j \in 1..(2 * k) PROVE Half(s, j) \in S
      <3>1. j \in Nat \ {0} /\ (j + 1) \div 2 \in 1..n /\ 2 - (j % 2) \in {1, 2}
        BY <1>1
      <3> QED BY <1>2, <3>1 DEF Half
    <2>2. 2 * k \in Nat
      BY <1>1
    <2> QED BY <2>1, <2>2 DEF FirstPairs
  <1>4. \A j \in 1..(2 * i) : FirstPairs(s, i)[j] = Half(s, j)
    BY DEF FirstPairs
  <1>5. Half(s, 2 * i - 1) = s[i][1] /\ Half(s, 2 * i) = s[i][2]
    BY <1>1, HalvesOf
  <1>6. CASE i = 1
    <2>1. FirstPairs(s, i) \in Seq(S) /\ Len(FirstPairs(s, i)) = 2 /\ s[i] \in Seq(S) /\ Len(s[i]) = 2
      BY <1>2, <1>3, <1>6
    <2>2. FirstPairs(s, i)[1] = s[i][1] /\ FirstPairs(s, i)[2] = s[i][2]
      BY <1>4, <1>5, <1>6
    <2>3. \A j \in 1..2 : FirstPairs(s, i)[j] = s[i][j]
      BY <2>2
    <2>4. FirstPairs(s, i) = s[i]
      BY <2>1, <2>3, SeqEqual
    <2> QED BY <1>6, <2>1, <2>4
  <1>7. CASE i # 1
    <2> DEFINE m == 2 * (i - 1)
               p == FirstPairs(s, i - 1)
               t == s[i]
               w == p \o t
    <2>1. i - 1 \in 0..n /\ m \in Nat /\ 2 * i = m + 2
      BY <1>1
    <2>2. p \in Seq(S) /\ Len(p) = m /\ \A j \in 1..m : p[j] = Half(s, j)
      BY <1>3, <2>1 DEF FirstPairs
    <2>t. t \in Seq(S) /\ Len(t) = 2 /\ Half(s, m + 1) = t[1] /\ Half(s, m + 2) = t[2]
      <3>1. 2 * i - 1 = m + 1
        BY <2>1
      <3> QED BY <1>2, <1>5, <2>1, <3>1
    <2> HIDE DEF m, p, t
    <2>3. w \in Seq(S) /\ Len(w) = m + 2
          /\ \A j \in 1..(m + 2) : w[j] = IF j <= m THEN p[j] ELSE t[j - m]
      <3>1. /\ w \in Seq(S) /\ Len(w) = Len(p) + Len(t)
            /\ \A j \in 1..(Len(p) + Len(t)) : w[j] = IF j <= Len(p) THEN p[j] ELSE t[j - Len(p)]
        BY <2>2, <2>t, ConcatProperties
      <3>2. Len(p) = m /\ Len(t) = 2
        BY <2>2, <2>t
      <3> HIDE DEF w
      <3> QED BY <3>1, <3>2
    <2>5. \A j \in 1..(m + 2) : w[j] = Half(s, j)
      <3> SUFFICES ASSUME NEW j \in 1..(m + 2) PROVE w[j] = Half(s, j)
        OBVIOUS
      <3>0. j \in 1..m \/ j = m + 1 \/ j = m + 2
        BY <2>1
      <3>1. CASE j \in 1..m
        BY <2>1, <2>2, <2>3, <3>1
      <3>2. CASE j = m + 1
        <4>1. ~(j <= m) /\ j - m = 1
          BY <2>1, <3>2
        <4> QED BY <2>t, <2>3, <3>2, <4>1
      <3>3. CASE j = m + 2
        <4>1. ~(j <= m) /\ j - m = 2
          BY <2>1, <3>3
        <4> QED BY <2>t, <2>3, <3>3, <4>1
      <3> QED BY <3>0, <3>1, <3>2, <3>3
    <2> HIDE DEF w
    <2>6. FirstPairs(s, i) \in Seq(S) /\ Len(FirstPairs(s, i)) = 2 * i
      BY <1>1, <1>3
    <2>7. FirstPairs(s, i) = w
      BY <1>4, <2>1, <2>3, <2>5, <2>6, SeqEqual
    <2> QED BY <1>7, <2>6, <2>7 DEF w, p, t
  <1> QED BY <1>6, <1>7, <1>3, <1>1

\* Flattening a list of pairs puts its halves in a row.
LEMMA FlattenPairs ==
    ASSUME NEW n, NEW S, NEW s, PairsOver(s, n, S)
    PROVE  FlattenSeq(s) = FirstPairs(s, n)
  <1>1. n \in Nat /\ s \in [1..n -> Seq(S)] /\ Len(s) = n /\ s \in Seq(Seq(S))
    BY DEF PairsOver
  <1>2. CASE n = 0
    <2>1. FlattenSeq(s) = s
      BY <1>1, <1>2 DEF FlattenSeq
    <2>2. s = <<>> /\ FirstPairs(s, n) = <<>>
      BY <1>1, <1>2 DEF FirstPairs
    <2> QED BY <2>1, <2>2
  <1>3. CASE n # 0
    <2> DEFINE g == [i \in 1..n |-> FirstPairs(s, i)]
               f == CHOOSE h : Flattens(h, s)
               Wrong == {i \in 1..n : f[i] # FirstPairs(s, i)}
    <2>1. Flattens(g, s)
      <3>1. ASSUME NEW i \in 1..n PROVE g[i] = IF i = 1 THEN s[i] ELSE g[i - 1] \o s[i]
        <4>1. i # 1 => i - 1 \in 1..n
          BY <1>1
        <4>2. /\ i = 1 => FirstPairs(s, i) = s[i]
              /\ i # 1 => FirstPairs(s, i) = FirstPairs(s, i - 1) \o s[i]
          BY PairsGrow
        <4> QED BY <4>1, <4>2
      <3>2. g = [i \in 1..n |-> IF i = 1 THEN s[i] ELSE g[i - 1] \o s[i]]
        BY <3>1
      <3> HIDE DEF g
      <3> QED BY <1>1, <3>2 DEF Flattens
    <2>2. Flattens(f, s)
      BY <2>1, Zenon
    <2> HIDE DEF f
    <2>3. \A i \in 1..n : f[i] = IF i = 1 THEN s[i] ELSE f[i - 1] \o s[i]
      BY <1>1, <2>2 DEF Flattens
    <2>4. Wrong = {}
      <3> SUFFICES ASSUME Wrong # {} PROVE FALSE
        OBVIOUS
      <3>1. Wrong \in SUBSET Nat
        BY <1>1
      <3>2. PICK i \in Wrong : \A k \in Nat : k < i => k \notin Wrong
        BY <3>1, LeastOf
      <3>3. i \in 1..n /\ f[i] # FirstPairs(s, i)
        BY <3>2
      <3>4. /\ i = 1 => FirstPairs(s, i) = s[i]
            /\ i # 1 => FirstPairs(s, i) = FirstPairs(s, i - 1) \o s[i]
        BY <3>3, PairsGrow
      <3>5. i # 1 => f[i - 1] = FirstPairs(s, i - 1)
        <4> SUFFICES ASSUME i # 1 PROVE f[i - 1] = FirstPairs(s, i - 1)
          OBVIOUS
        <4>1. i - 1 \in 1..n /\ i - 1 \in Nat /\ i - 1 < i
          BY <1>1, <3>3
        <4>2. i - 1 \notin Wrong
          BY <3>2, <4>1
        <4> QED BY <4>1, <4>2
      <3>6. f[i] = IF i = 1 THEN s[i] ELSE f[i - 1] \o s[i]
        BY <2>3, <3>3
      <3>7. CASE i = 1
        BY <3>3, <3>4, <3>6, <3>7
      <3>8. CASE i # 1
        <4>1. f[i] = FirstPairs(s, i - 1) \o s[i]
          BY <3>5, <3>6, <3>8, Zenon
        <4> QED BY <3>3, <3>4, <3>8, <4>1, Zenon
      <3> QED BY <3>7, <3>8
    <2>5. FlattenSeq(s) = f[n]
      BY <1>1, <1>3, FlattenByParts DEF f
    <2>6. n \in 1..n
      BY <1>1, <1>3
    <2> QED BY <2>4, <2>5, <2>6
  <1> QED BY <1>2, <1>3

\* f has the halves of the n pairs s in a row.
InRow(f, s, n, S) == /\ f \in Seq(S) /\ Len(f) = 2 * n
                     /\ \A i \in 1..n : f[2 * i - 1] = s[i][1] /\ f[2 * i] = s[i][2]

LEMMA FlattenedPairs ==
    ASSUME NEW n, NEW S, NEW s, PairsOver(s, n, S)
    PROVE  InRow(FlattenSeq(s), s, n, S)
  <1>1. n \in Nat /\ FlattenSeq(s) = FirstPairs(s, n)
    BY FlattenPairs DEF PairsOver
  <1>2. FirstPairs(s, n) \in Seq(S) /\ Len(FirstPairs(s, n)) = 2 * n
    <2>1. CASE n = 0
      BY <2>1 DEF FirstPairs
    <2>2. CASE n # 0
      <3>1. n \in 1..n
        BY <1>1, <2>2
      <3> QED BY <3>1, PairsGrow
    <2> QED BY <2>1, <2>2
  <1>3. ASSUME NEW i \in 1..n
        PROVE  FirstPairs(s, n)[2 * i - 1] = s[i][1] /\ FirstPairs(s, n)[2 * i] = s[i][2]
    <2>1. i \in Nat \ {0} /\ 2 * i - 1 \in 1..(2 * n) /\ 2 * i \in 1..(2 * n)
      BY <1>1
    <2>2. FirstPairs(s, n)[2 * i - 1] = Half(s, 2 * i - 1) /\ FirstPairs(s, n)[2 * i] = Half(s, 2 * i)
      BY <2>1 DEF FirstPairs
    <2> QED BY <2>1, <2>2, HalvesOf
  <1> QED BY <1>1, <1>2, <1>3 DEF InRow

-----------------------------------------------------------------------------
(* Writing and reading back.                                               *)

\* What q coils or registers hold after w was written to the first of them.
Held(w, q) == [i \in 1..q |-> IF i <= Len(w) THEN w[i] ELSE 0]

\* What was read is what was stored, and zero where nothing was.
Plain(v, stored) == \A i \in DOMAIN v : v[i] = IF i <= Len(stored) THEN stored[i] ELSE 0

\* What was read is what the codec keeps of what was stored.
Back(codec, v, stored) == \A i \in DOMAIN v : v[i] = Kept(codec, IF i <= Len(stored) THEN stored[i] ELSE 0)

\* A number the registers of a codec hold as it is: of a float, one that is an f32.
Exact(codec, n) == codec \in FloatCodecs => \E b \in 0..(Wide - 1) : n = AsF64[b]

\* A payload that registers of a codec hold.
Storable(codec, v) == codec \in Codecs /\ v \in Seq(CodecValues(codec))

\* The values of an accepted write.
LEMMA WriteValue ==
    ASSUME NEW r, NEW p, ModbusWrite(r, p).ok, Storable(r.codec, p.v)
    PROVE  /\ r.codec \in BitCodecs => ModbusWrite(r, p).value = p.v
           /\ r.codec \in {"U16", "I16"} => /\ ModbusWrite(r, p).value = p.v
                                            /\ Len(p.v) = 1 /\ p.v[1] >= 0
           /\ r.codec \in WideCodecs =>
                LET v == Narrowed(r.codec, p.v) IN
                ModbusWrite(r, p).value = FlattenSeq([i \in DOMAIN v |-> WordsOf(r.codec, v[i])])
           /\ r.codec \in RawCodecs => ModbusWrite(r, p).value = PackWords(p.v)
           /\ r.codec \notin BitCodecs \cup RawCodecs => \A i \in DOMAIN p.v : InRange(r.codec, p.v[i])
  <1> DEFINE value == ModbusValue(r.codec, p)
             v == Narrowed(r.codec, p.v)
             words == FlattenSeq([i \in DOMAIN v |-> WordsOf(r.codec, v[i])])
             write == ModbusWrite(r, p)
             Store(values) ==
                IF r.kind = "Coil" /\ r.codec \in BitCodecs THEN Ok(values)
                ELSE IF r.kind # "HoldingRegister" \/ r.codec \in BitCodecs THEN Err("UnsupportedWrite")
                ELSE CASE r.codec \in {"U16", "I16"} ->
                            IF Len(values) = 1 /\ values[1] >= 0 THEN Ok(values) ELSE Err("InvalidPayload")
                       [] r.codec \in WideCodecs ->
                            Ok(FlattenSeq([i \in DOMAIN values |-> WordsOf(r.codec, values[i])]))
                       [] OTHER -> Ok(PackWords(values))
  <1>1. write = IF value.ok THEN Store(value.value) ELSE value
    BY DEF ModbusWrite, Then
  <1>2. value.ok => value = Ok(v)
    <2> HIDE DEF v
    <2> QED BY DEF ModbusValue, Ok, Err, v
  <1>3. value.ok /\ value.value = v
    <2> HIDE DEF value, Store, write, v
    <2>1. write.ok
      BY DEF write
    <2> QED BY <1>1, <1>2, <2>1 DEF Ok
  <1>4. r.codec \notin BitCodecs \cup RawCodecs => \A i \in DOMAIN p.v : InRange(r.codec, p.v[i])
    BY <1>3 DEF ModbusValue, Err, BitCodecs, RawCodecs
  <1>v. r.codec \notin WideCodecs => v = p.v
    BY DEF Narrowed, FloatCodecs, WideCodecs
  <1> HIDE DEF value, v
  <1>5. write = Store(v)
    <2> HIDE DEF Store, write
    <2> QED BY <1>1, <1>3
  <1>6. write.ok
    OBVIOUS
  <1> HIDE DEF write
  <1>7. CASE r.codec \in BitCodecs
    <2>v. v = p.v
      BY <1>7, <1>v DEF BitCodecs, WideCodecs
    <2>1. write = Ok(p.v)
      BY <1>5, <1>6, <1>7, <2>v DEF Err
    <2> QED BY <1>4, <1>7, <2>1 DEF write, Ok, BitCodecs, WideCodecs, RawCodecs
  <1>8. CASE r.codec \in {"U16", "I16"}
    <2>v. v = p.v
      BY <1>8, <1>v DEF WideCodecs
    <2>1. write = Ok(p.v) /\ Len(p.v) = 1 /\ p.v[1] >= 0
      BY <1>5, <1>6, <1>8, <2>v DEF Err, BitCodecs, WideCodecs
    <2> QED BY <1>4, <1>8, <2>1 DEF write, Ok, BitCodecs, WideCodecs, RawCodecs
  <1>9. CASE r.codec \in WideCodecs
    <2>1. write = Ok(words)
      BY <1>5, <1>6, <1>9 DEF Err, BitCodecs, WideCodecs
    <2> HIDE DEF words
    <2>2. write.value = words
      BY <2>1 DEF Ok
    <2>3. r.codec \notin BitCodecs \cup RawCodecs \cup {"U16", "I16"}
      BY <1>9 DEF BitCodecs, WideCodecs, RawCodecs
    <2> QED BY <1>4, <1>9, <2>2, <2>3 DEF write, words, v
  <1>10. CASE r.codec \in RawCodecs
    <2>v. v = p.v
      BY <1>10, <1>v DEF RawCodecs, WideCodecs
    <2>1. write = Ok(PackWords(p.v))
      BY <1>5, <1>6, <1>10, <2>v DEF Err, BitCodecs, WideCodecs, RawCodecs
    <2>2. write.value = PackWords(p.v)
      BY <2>1 DEF Ok
    <2>3. r.codec \notin BitCodecs \cup WideCodecs \cup {"U16", "I16"}
      BY <1>10 DEF BitCodecs, WideCodecs, RawCodecs
    <2> QED BY <1>4, <1>10, <2>2, <2>3 DEF write
  <1> QED BY <1>7, <1>8, <1>9, <1>10 DEF Storable, Codecs

\* Coils, and registers of 16 bits.
LEMMA NarrowBack ==
    ASSUME NEW codec \in BitCodecs \cup {"U16", "I16"}, NEW v \in Seq(Int), NEW q \in Nat \ {0},
           codec \in {"U16", "I16"} => Len(v) = 1 /\ v[1] >= 0 /\ InRange(codec, v[1])
    PROVE  Plain(DecodeValue(codec, Held(v, q)).v, v)
  <1> DEFINE u == Held(v, q)
  <1>1. DOMAIN u = 1..q /\ Len(u) = q /\ \A i \in 1..q : u[i] = IF i <= Len(v) THEN v[i] ELSE 0
    BY DEF Held
  <1> HIDE DEF u
  <1>2. CASE codec = "Bool"
    <2>1. DecodeValue(codec, u).v = <<u[1]>>
      BY <1>2 DEF DecodeValue, FloatCodecs
    <2> QED BY <1>1, <2>1 DEF Plain, u
  <1>3. CASE codec = "Bits"
    <2>1. DecodeValue(codec, u).v = u
      BY <1>3 DEF DecodeValue, FloatCodecs
    <2> QED BY <1>1, <2>1 DEF Plain, u
  <1>4. CASE codec = "U16"
    <2>1. DecodeValue(codec, u).v = u
      BY <1>4 DEF DecodeValue, FloatCodecs, OneOrList
    <2> QED BY <1>1, <2>1 DEF Plain, u
  <1>5. CASE codec = "I16"
    <2> DEFINE x == [i \in DOMAIN u |-> Signed(u[i], Word)]
    <2>1. DecodeValue(codec, u).v = x
      BY <1>5 DEF DecodeValue, FloatCodecs, OneOrList
    <2>2. v[1] < Word \div 2 /\ v[1] \in Int
      BY <1>5, Widths DEF InRange
    <2>3. 0 < Word \div 2
      BY Widths
    <2>4. \A i \in 1..q : u[i] \in Int /\ u[i] < Word \div 2
      <3> SUFFICES ASSUME NEW i \in 1..q PROVE u[i] \in Int /\ u[i] < Word \div 2
        OBVIOUS
      <3>1. u[i] = IF i <= Len(v) THEN v[i] ELSE 0
        BY <1>1
      <3>0. Len(v) = 1
        BY <1>5
      <3>2. i <= Len(v) => i = 1
        BY <3>0
      <3>3. u[i] \in {v[1], 0}
        BY <3>1, <3>2
      <3> QED BY <2>2, <2>3, <3>3
    <2>5. \A i \in 1..q : x[i] = u[i]
      BY <1>1, <2>4 DEF Signed
    <2>6. DOMAIN x = 1..q
      BY <1>1
    <2> HIDE DEF x
    <2> QED BY <1>1, <2>1, <2>5, <2>6 DEF Plain, u
  <1> QED BY <1>2, <1>3, <1>4, <1>5 DEF BitCodecs

\* The words of the pairs of registers read, of which w was written.
LEMMA WideWords ==
    ASSUME NEW codec, NEW v \in Seq(Int), NEW q \in Nat, NEW i \in 1..(q \div 2)
    PROVE  LET w == FlattenSeq([k \in DOMAIN v |-> WordsOf(codec, v[k])]) IN
           Joined2(codec, Held(w, q)[2 * i - 1], Held(w, q)[2 * i]) = IF i <= Len(v) THEN v[i] % Wide ELSE 0
  <1> DEFINE s == [k \in DOMAIN v |-> WordsOf(codec, v[k])]
             n == Len(v)
             w == FlattenSeq(s)
             u == Held(w, q)
  <1>1. n \in Nat /\ DOMAIN v = 1..n /\ \A k \in 1..n : v[k] \in Int
    OBVIOUS
  <1>2. PairsOver(s, n, 0..(Word - 1)) /\ \A k \in 1..n : s[k] = WordsOf(codec, v[k])
    <2>1. \A k \in 1..n : WordsOf(codec, v[k]) \in Seq(0..(Word - 1)) /\ Len(WordsOf(codec, v[k])) = 2
      BY <1>1, WordsJoined
    <2> HIDE DEF n
    <2> QED BY <1>1, <2>1 DEF PairsOver
  <1>3. /\ w \in Seq(0..(Word - 1)) /\ Len(w) = 2 * n
        /\ \A k \in 1..n : w[2 * k - 1] = s[k][1] /\ w[2 * k] = s[k][2]
    <2> HIDE DEF s, n
    <2>1. PairsOver(s, n, 0..(Word - 1))
      BY <1>2
    <2>2. InRow(w, s, n, 0..(Word - 1))
      BY <2>1, FlattenedPairs
    <2> HIDE DEF w
    <2> QED BY <2>2 DEF InRow
  <1>4. /\ u[2 * i - 1] = IF 2 * i - 1 <= Len(w) THEN w[2 * i - 1] ELSE 0
        /\ u[2 * i] = IF 2 * i <= Len(w) THEN w[2 * i] ELSE 0
    <2>1. 2 * i - 1 \in 1..q /\ 2 * i \in 1..q
      OBVIOUS
    <2> HIDE DEF w
    <2> QED BY <2>1 DEF Held
  <1> HIDE DEF s, n, w, u
  <1>5. CASE i <= n
    <2>1. i \in 1..n /\ 2 * i - 1 <= Len(w) /\ 2 * i <= Len(w)
      BY <1>1, <1>3, <1>5
    <2>2. u[2 * i - 1] = WordsOf(codec, v[i])[1] /\ u[2 * i] = WordsOf(codec, v[i])[2]
      BY <1>2, <1>3, <1>4, <2>1
    <2>3. Joined2(codec, WordsOf(codec, v[i])[1], WordsOf(codec, v[i])[2]) = v[i] % Wide
      BY <1>1, <2>1, WordsJoined
    <2> QED BY <1>5, <2>2, <2>3 DEF u, w, s, n
  <1>6. CASE ~(i <= n)
    <2>1. ~(2 * i - 1 <= Len(w)) /\ ~(2 * i <= Len(w))
      BY <1>1, <1>3, <1>6
    <2>2. u[2 * i - 1] = 0 /\ u[2 * i] = 0
      BY <1>4, <2>1
    <2> QED BY <1>6, <2>2, ZeroJoined DEF u, w, s, n
  <1> QED BY <1>5, <1>6

\* Registers of 32 bits; v is the bits of floats.
LEMMA WideBack ==
    ASSUME NEW codec \in WideCodecs, NEW v \in Seq(Int), NEW q \in Nat,
           \A i \in DOMAIN v : IF codec \in FloatCodecs THEN v[i] \in 0..(Wide - 1) ELSE InRange(codec, v[i])
    PROVE  LET x == DecodeValue(codec, Held(FlattenSeq([k \in DOMAIN v |-> WordsOf(codec, v[k])]), q)).v IN
           IF codec \in FloatCodecs THEN \A i \in DOMAIN x : x[i] = AsF64[IF i <= Len(v) THEN v[i] ELSE 0]
           ELSE Plain(x, v)
  <1> DEFINE u == Held(FlattenSeq([k \in DOMAIN v |-> WordsOf(codec, v[k])]), q)
             pairs == [i \in 1..(q \div 2) |-> Joined2(codec, u[2 * i - 1], u[2 * i])]
             signed == [i \in 1..(q \div 2) |-> Signed(pairs[i], Wide)]
             floats == [i \in 1..(q \div 2) |-> AsF64[pairs[i]]]
  <1>0. DOMAIN v = 1..Len(v) /\ Len(v) \in Nat
    OBVIOUS
  <1>i. codec \notin FloatCodecs => \A i \in 1..Len(v) : InRange(codec, v[i])
    BY <1>0
  <1>1. \A i \in 1..(q \div 2) : pairs[i] = IF i <= Len(v) THEN v[i] % Wide ELSE 0
    BY <1>0, WideWords
  <1>2. Len(u) = q
    BY DEF Held
  <1> HIDE DEF u
  <1>3. DecodeValue(codec, u).v = CASE codec \in {"I32Be", "I32Le"} -> signed
                                    [] codec \in FloatCodecs -> floats
                                    [] OTHER -> pairs
    <2> DEFINE raw == [i \in 1..(Len(u) \div 2) |->
                         LET hi == u[2 * i - 1]  lo == u[2 * i] IN
                         IF codec \in LeCodecs THEN Swap(hi) * Word + Swap(lo) ELSE hi * Word + lo]
    <2>1. raw = pairs
      BY <1>2 DEF Joined2
    <2>2. /\ codec \in {"U32Be", "U32Le"} => DecodeValue(codec, u) = OneOrList("U64", raw)
          /\ codec \in FloatCodecs =>
               DecodeValue(codec, u) = OneOrList("F64", [i \in DOMAIN raw |-> AsF64[raw[i]]])
          /\ codec \in {"I32Be", "I32Le"} =>
               DecodeValue(codec, u) = OneOrList("I64", [i \in DOMAIN raw |-> Signed(raw[i], Wide)])
      BY DEF DecodeValue, FloatCodecs
    <2>3. /\ [i \in DOMAIN raw |-> Signed(raw[i], Wide)] = signed
          /\ [i \in DOMAIN raw |-> AsF64[raw[i]]] = floats
      <3>1. DOMAIN pairs = 1..(q \div 2)
        OBVIOUS
      <3> HIDE DEF raw, pairs
      <3> QED BY <2>1, <3>1
    <2>4. \A t, x : OneOrList(t, x).v = x
      BY DEF OneOrList
    <2> HIDE DEF raw, pairs, signed, floats
    <2> QED BY <2>1, <2>2, <2>3, <2>4 DEF WideCodecs, FloatCodecs
  <1>4. /\ DOMAIN pairs = 1..(q \div 2) /\ DOMAIN signed = 1..(q \div 2) /\ DOMAIN floats = 1..(q \div 2)
        /\ \A i \in 1..(q \div 2) : signed[i] = Signed(pairs[i], Wide) /\ floats[i] = AsF64[pairs[i]]
    OBVIOUS
  <1> HIDE DEF pairs, signed, floats
  <1>5. CASE codec \in {"I32Be", "I32Le"}
    <2>1. ASSUME NEW i \in 1..(q \div 2) PROVE signed[i] = IF i <= Len(v) THEN v[i] ELSE 0
      <3>1. CASE i <= Len(v)
        <4>3. codec \notin FloatCodecs
          BY <1>5 DEF FloatCodecs
        <4>4. i \in 1..Len(v)
          BY <1>0, <3>1
        <4>2. InRange(codec, v[i])
          BY <1>i, <4>3, <4>4
        <4>1. v[i] \in -(Wide \div 2)..(Wide \div 2 - 1)
          BY <1>5, <4>2 DEF InRange
        <4>5. signed[i] = Signed(v[i] % Wide, Wide)
          BY <1>1, <1>4, <3>1
        <4>6. Signed(v[i] % Wide, Wide) = v[i]
          BY <4>1, Widths, SignKept
        <4> QED BY <3>1, <4>5, <4>6
      <3>2. CASE ~(i <= Len(v))
        <4>1. 0 < Wide \div 2
          BY Widths
        <4> QED BY <1>1, <1>4, <3>2, <4>1 DEF Signed
      <3> QED BY <3>1, <3>2
    <2>2. codec \notin FloatCodecs /\ DecodeValue(codec, u).v = signed
      BY <1>3, <1>5 DEF FloatCodecs
    <2> QED BY <1>4, <2>1, <2>2 DEF Plain, u
  <1>6. CASE codec \notin {"I32Be", "I32Le"}
    <2>1. ASSUME NEW i \in DOMAIN v PROVE v[i] % Wide = v[i]
      <3>1. v[i] \in 0..(Wide - 1)
        BY <1>6 DEF InRange, WideCodecs, FloatCodecs
      <3> QED BY <3>1, Widths, NoSign
    <2>2. ASSUME NEW i \in 1..(q \div 2) PROVE pairs[i] = IF i <= Len(v) THEN v[i] ELSE 0
      BY <1>0, <1>1, <2>1
    <2>3. CASE codec \in FloatCodecs
      <3>1. DecodeValue(codec, u).v = floats
        BY <1>3, <1>6, <2>3
      <3> QED BY <1>4, <2>2, <2>3, <3>1 DEF u
    <2>4. CASE codec \notin FloatCodecs
      <3>1. DecodeValue(codec, u).v = pairs
        BY <1>3, <1>6, <2>4
      <3> QED BY <1>4, <2>2, <2>4, <3>1 DEF Plain, u
    <2> QED BY <2>3, <2>4
  <1> QED BY <1>5, <1>6

\* Floats come out one for every two registers.
LEMMA WideDomain ==
    ASSUME NEW codec \in FloatCodecs, NEW w, NEW q \in Nat
    PROVE  DOMAIN DecodeValue(codec, Held(w, q)).v = 1..(q \div 2)
  <1> DEFINE u == Held(w, q)
             raw == [i \in 1..(Len(u) \div 2) |->
                         LET hi == u[2 * i - 1]  lo == u[2 * i] IN
                         IF codec \in LeCodecs THEN Swap(hi) * Word + Swap(lo) ELSE hi * Word + lo]
  <1>1. Len(u) = q
    BY DEF Held
  <1>2. DOMAIN raw = 1..(q \div 2)
    BY <1>1
  <1>3. DecodeValue(codec, u) = OneOrList("F64", [i \in DOMAIN raw |-> AsF64[raw[i]]])
    BY DEF DecodeValue, FloatCodecs
  <1>4. \A t, x : OneOrList(t, x).v = x
    BY DEF OneOrList
  <1> HIDE DEF raw, u
  <1> QED BY <1>2, <1>3, <1>4 DEF u

\* The halves of the registers that bytes were written to.
LEMMA PackedHalves ==
    ASSUME NEW v \in Seq(0..(Base - 1)), NEW q \in Nat, NEW i \in 1..q
    PROVE  /\ Held(PackWords(v), q)[i] \div Base = IF 2 * i - 1 <= Len(v) THEN v[2 * i - 1] ELSE 0
           /\ Held(PackWords(v), q)[i] % Base = IF 2 * i <= Len(v) THEN v[2 * i] ELSE 0
  <1> DEFINE w == PackWords(v)
             n == Len(v)
             m == (n + 1) \div 2
             hi == IF 2 * i - 1 <= n THEN v[2 * i - 1] ELSE 0
             lo == IF 2 * i <= n THEN v[2 * i] ELSE 0
  <1>1. n \in Nat /\ m \in Nat /\ i \in Nat \ {0} /\ (i <= m <=> 2 * i - 1 <= n)
    OBVIOUS
  <1>2. Len(w) = m /\ (i <= m => w[i] = v[2 * i - 1] * Base + lo)
    <2>1. i <= m => i \in 1..m
      BY <1>1
    <2>2. w = [k \in 1..m |-> v[2 * k - 1] * Base + (IF 2 * k <= n THEN v[2 * k] ELSE 0)]
      BY DEF PackWords
    <2> HIDE DEF w, m
    <2> QED BY <1>1, <2>1, <2>2
  <1>3. hi \in 0..(Base - 1) /\ lo \in 0..(Base - 1)
    <2>1. 0 \in 0..(Base - 1)
      BY Widths
    <2>v. \A k \in 1..n : v[k] \in 0..(Base - 1)
      BY ElementOfSeq
    <2>2. 2 * i - 1 <= n => v[2 * i - 1] \in 0..(Base - 1)
      <3>1. 2 * i - 1 <= n => 2 * i - 1 \in 1..n
        BY <1>1
      <3> QED BY <2>v, <3>1
    <2>3. 2 * i <= n => v[2 * i] \in 0..(Base - 1)
      <3>1. 2 * i <= n => 2 * i \in 1..n
        BY <1>1
      <3> QED BY <2>v, <3>1
    <2> QED BY <2>1, <2>2, <2>3
  <1>4. Held(w, q)[i] = IF i <= m THEN w[i] ELSE 0
    BY <1>2 DEF Held
  <1>5. CASE i <= m
    <2>1. Held(w, q)[i] = hi * Base + lo
      <3>1. 2 * i - 1 <= n
        BY <1>1, <1>5
      <3>2. hi = v[2 * i - 1]
        BY <3>1
      <3> HIDE DEF w, m, hi, lo
      <3> QED BY <1>2, <1>4, <1>5, <3>2
    <2> HIDE DEF w, m, hi, lo
    <2>2. (hi * Base + lo) \div Base = hi /\ (hi * Base + lo) % Base = lo
      <3>1. Base \in Nat \ {0} /\ hi \in Int
        BY <1>3, Widths
      <3> QED BY <1>3, <3>1, Composed
    <2> QED BY <2>1, <2>2 DEF hi, lo, w
  <1>6. CASE ~(i <= m)
    <2>1. Held(w, q)[i] = 0 /\ hi = 0 /\ lo = 0
      BY <1>1, <1>4, <1>6
    <2>2. 0 \div Base = 0 /\ 0 % Base = 0
      <3>1. 0 = 0 * Base + 0
        BY Widths
      <3> QED BY <3>1, Widths, Composed
    <2> HIDE DEF w, m, hi, lo
    <2> QED BY <2>1, <2>2 DEF hi, lo, w
  <1> QED BY <1>5, <1>6

\* Bytes come out of registers as they went in.
LEMMA BytesBack ==
    ASSUME NEW v \in Seq(0..(Base - 1)), NEW q \in Nat
    PROVE  LET b == Unpack(Held(PackWords(v), q)) IN b \in Seq(Int) /\ Len(b) = 2 * q /\ Plain(b, v)
  <1> DEFINE u == Held(PackWords(v), q)
             s == [i \in 1..q |-> <<u[i] \div Base, u[i] % Base>>]
             b == FlattenSeq(s)
  <1>1. DOMAIN u = 1..q
    BY DEF Held
  <1>2. Unpack(u) = b
    BY <1>1 DEF Unpack
  <1>3. \A i \in 1..q : /\ u[i] \div Base = IF 2 * i - 1 <= Len(v) THEN v[2 * i - 1] ELSE 0
                        /\ u[i] % Base = IF 2 * i <= Len(v) THEN v[2 * i] ELSE 0
    BY PackedHalves
  <1> HIDE DEF u
  <1>4. PairsOver(s, q, Int)
    <2>1. ASSUME NEW i \in 1..q PROVE u[i] \div Base \in Int /\ u[i] % Base \in Int
      <3>1. 2 * i - 1 <= Len(v) => v[2 * i - 1] \in Int
        BY Widths
      <3>2. 2 * i <= Len(v) => v[2 * i] \in Int
        BY Widths
      <3> QED BY <1>3, <3>1, <3>2
    <2>2. \A i \in 1..q : <<u[i] \div Base, u[i] % Base>> \in Seq(Int)
                          /\ Len(<<u[i] \div Base, u[i] % Base>>) = 2
      BY <2>1
    <2> QED BY <2>2 DEF PairsOver
  <1>5. \A i \in 1..q : s[i][1] = u[i] \div Base /\ s[i][2] = u[i] % Base
    OBVIOUS
  <1> HIDE DEF s
  <1>6. InRow(b, s, q, Int)
    BY <1>4, FlattenedPairs
  <1> HIDE DEF b
  <1>7. b \in Seq(Int) /\ Len(b) = 2 * q /\ \A i \in 1..q : b[2 * i - 1] = s[i][1] /\ b[2 * i] = s[i][2]
    BY <1>6 DEF InRow
  <1>8. ASSUME NEW j \in DOMAIN b PROVE b[j] = IF j <= Len(v) THEN v[j] ELSE 0
    <2> DEFINE i == (j + 1) \div 2
    <2>1. j \in 1..(2 * q) /\ j \in Nat \ {0}
      BY <1>7
    <2>2. i \in 1..q /\ (j = 2 * i - 1 \/ j = 2 * i)
      BY <2>1
    <2> HIDE DEF i
    <2>3. CASE j = 2 * i - 1
      BY <1>3, <1>5, <1>7, <2>2, <2>3
    <2>4. CASE j = 2 * i
      BY <1>3, <1>5, <1>7, <2>2, <2>4
    <2> QED BY <2>2, <2>3, <2>4
  <1> QED BY <1>2, <1>7, <1>8 DEF Plain, u

\* Bytes and text; a text ends before the zeros at its end.
LEMMA RawBack ==
    ASSUME NEW codec \in RawCodecs, NEW v \in Seq(0..(Base - 1)), NEW q \in Nat
    PROVE  Plain(DecodeValue(codec, Held(PackWords(v), q)).v, v)
  <1> DEFINE u == Held(PackWords(v), q)
             b == Unpack(u)
             n == 2 * q
  <1>1. b \in Seq(Int) /\ Len(b) = n /\ Plain(b, v) /\ n \in Nat
    <2>1. b \in Seq(Int) /\ Len(b) = 2 * q /\ Plain(b, v)
      BY BytesBack
    <2> HIDE DEF b
    <2> QED BY <2>1
  <1> HIDE DEF u, b, n
  <1>2. CASE codec = "Bytes"
    <2>1. DecodeValue(codec, u).v = b
      BY <1>2 DEF DecodeValue, b, LeCodecs
    <2> QED BY <1>1, <2>1 DEF u
  <1>3. CASE codec = "Utf8String"
    <2> DEFINE text == {i \in DOMAIN b : b[i] # 0}
    <2>1. DecodeValue(codec, u).v = TrimNuls(b)
      BY <1>3 DEF DecodeValue, b, LeCodecs
    <2>2. DOMAIN b = 1..n /\ text \in SUBSET (1..n)
      BY <1>1
    <2>3. CASE text = {}
      <3>1. TrimNuls(b) = <<>>
        BY <2>3 DEF TrimNuls
      <3> QED BY <2>1, <3>1 DEF Plain, u
    <2>4. CASE text # {}
      <3> DEFINE m == Max(text)
                 p == SubSeq(b, 1, m)
      <3>1. TrimNuls(b) = p
        BY <2>4 DEF TrimNuls
      <3>2. m \in 1..n
        BY <1>1, <2>2, <2>4, MaxInside
      <3> HIDE DEF m
      <3>3. DOMAIN p = 1..m /\ \A i \in 1..m : p[i] = b[i]
        BY <1>1, <3>2
      <3> HIDE DEF p
      <3>4. \A i \in 1..m : i \in DOMAIN b
        BY <1>1, <2>2, <3>2
      <3> QED BY <1>1, <2>1, <3>1, <3>3, <3>4 DEF Plain, u
    <2> QED BY <2>3, <2>4
  <1> QED BY <1>2, <1>3 DEF RawCodecs

\* What was written to coils or registers is what reading as many of them as one likes
\* gives (build_write_request against decode_modbus_value), in every width, sign and byte
\* order, for numbers, bits, bytes and text; of a float the nearest f32
\* (decode_payload_f32_list), and the number itself where it is one.
THEOREM RegistersRoundTrip ==
    ASSUME NEW r, NEW p, ModbusWrite(r, p).ok, Storable(r.codec, p.v), NEW q \in Nat \ {0}
    PROVE  LET x == DecodeValue(r.codec, Held(ModbusWrite(r, p).value, q)).v IN
           /\ Back(r.codec, x, p.v)
           /\ \A i \in DOMAIN x : i \in DOMAIN p.v /\ Exact(r.codec, p.v[i]) => x[i] = p.v[i]
  <1> DEFINE w == ModbusWrite(r, p).value
             n == Narrowed(r.codec, p.v)
             x == DecodeValue(r.codec, Held(w, q)).v
  <1>1. /\ r.codec \in BitCodecs => w = p.v
        /\ r.codec \in {"U16", "I16"} => w = p.v /\ Len(p.v) = 1 /\ p.v[1] >= 0
        /\ r.codec \in WideCodecs => w = FlattenSeq([i \in DOMAIN n |-> WordsOf(r.codec, n[i])])
        /\ r.codec \in RawCodecs => w = PackWords(p.v)
        /\ r.codec \notin BitCodecs \cup RawCodecs => \A i \in DOMAIN p.v : InRange(r.codec, p.v[i])
    BY WriteValue
  <1>2. p.v \in Seq(CodecValues(r.codec)) /\ DOMAIN p.v = 1..Len(p.v) /\ Len(p.v) \in Nat
    <2>1. p.v \in Seq(CodecValues(r.codec))
      BY DEF Storable
    <2> HIDE DEF w, n, x
    <2> QED BY <2>1
  <1> HIDE DEF w, n
  <1>0. r.codec \notin FloatCodecs /\ Plain(x, p.v) =>
          Back(r.codec, x, p.v) /\ \A i \in DOMAIN x : i \in DOMAIN p.v => x[i] = p.v[i]
    <2> HIDE DEF x
    <2>1. \A i \in DOMAIN p.v : i <= Len(p.v)
      BY <1>2
    <2> QED BY <2>1 DEF Plain, Back, Kept
  <1>3. CASE r.codec \in BitCodecs \cup {"U16", "I16"}
    <2>1. p.v \in Seq(Int)
      BY <1>2, <1>3 DEF CodecValues, BitCodecs, RawCodecs, FloatCodecs
    <2>2. ASSUME r.codec \in {"U16", "I16"} PROVE Len(p.v) = 1 /\ p.v[1] >= 0 /\ InRange(r.codec, p.v[1])
      <3>1. r.codec \notin BitCodecs \cup RawCodecs
        BY <2>2 DEF BitCodecs, RawCodecs
      <3>2. 1 \in DOMAIN p.v
        BY <1>1, <2>1, <2>2
      <3> QED BY <1>1, <2>2, <3>1, <3>2
    <2>3. w = p.v
      BY <1>1, <1>3
    <2>4. Plain(DecodeValue(r.codec, Held(p.v, q)).v, p.v)
      BY <1>3, <2>1, <2>2, NarrowBack
    <2>5. r.codec \notin FloatCodecs
      BY <1>3 DEF BitCodecs, FloatCodecs
    <2>6. Plain(x, p.v)
      BY <2>3, <2>4
    <2> HIDE DEF x
    <2> QED BY <1>0, <2>5, <2>6 DEF x, w
  <1>4. CASE r.codec \in WideCodecs
    <2>1. r.codec \notin BitCodecs \cup RawCodecs
      BY <1>4 DEF BitCodecs, RawCodecs, WideCodecs
    <2>2. /\ n \in Seq(Int) /\ Len(n) = Len(p.v)
          /\ \A i \in DOMAIN n : IF r.codec \in FloatCodecs THEN n[i] \in 0..(Wide - 1) /\ n[i] = AsF32[p.v[i]]
                                ELSE n[i] = p.v[i]
      <3>1. CASE r.codec \in FloatCodecs
        <4>1. p.v \in Seq(DOMAIN AsF32)
          BY <1>2, <2>1, <3>1 DEF CodecValues
        <4>2. \A i \in 1..Len(p.v) : p.v[i] \in DOMAIN AsF32 /\ AsF32[p.v[i]] \in 0..(Wide - 1)
          <5> SUFFICES ASSUME NEW i \in 1..Len(p.v) PROVE p.v[i] \in DOMAIN AsF32
            BY ModbusAssumptions
          <5> QED BY <4>1, ElementOfSeq
        <4>3. n = [i \in 1..Len(p.v) |-> AsF32[p.v[i]]]
          BY <1>2, <3>1 DEF n, Narrowed
        <4>4. n \in Seq(0..(Wide - 1)) /\ Len(n) = Len(p.v)
          BY <1>2, <4>2, <4>3
        <4> QED BY <1>2, <3>1, <4>2, <4>3, <4>4, Widths
      <3>2. CASE r.codec \notin FloatCodecs
        <4>1. n = p.v
          BY <3>2 DEF n, Narrowed
        <4>2. p.v \in Seq(Int)
          BY <1>2, <2>1, <3>2 DEF CodecValues
        <4> QED BY <3>2, <4>1, <4>2
      <3> QED BY <3>1, <3>2
    <2>3. DOMAIN n = DOMAIN p.v
      BY <1>2, <2>2
    <2>4. \A i \in DOMAIN n : IF r.codec \in FloatCodecs THEN n[i] \in 0..(Wide - 1) ELSE InRange(r.codec, n[i])
      BY <1>1, <2>1, <2>2, <2>3
    <2>5. w = FlattenSeq([i \in DOMAIN n |-> WordsOf(r.codec, n[i])])
      BY <1>1, <1>4
    <2>6. IF r.codec \in FloatCodecs THEN \A i \in DOMAIN x : x[i] = AsF64[IF i <= Len(n) THEN n[i] ELSE 0]
          ELSE Plain(x, n)
      BY <1>4, <2>2, <2>4, <2>5, WideBack
    <2> HIDE DEF x
    <2>7. CASE r.codec \in FloatCodecs
      <3>1. ASSUME NEW i \in DOMAIN x
            PROVE  x[i] = Kept(r.codec, IF i <= Len(p.v) THEN p.v[i] ELSE 0)
        <4>0. DecodeValue(r.codec, Held(w, q)).v = x
          BY DEF x
        <4>1. DOMAIN x \in SUBSET Nat /\ i >= 1
          BY <2>7, WideDomain, <4>0
        <4>2. i <= Len(p.v) => i \in DOMAIN n
          BY <1>2, <2>3, <4>1
        <4>3. x[i] = AsF64[IF i <= Len(n) THEN n[i] ELSE 0]
          BY <2>6, <2>7
        <4> QED BY <2>2, <2>7, <4>2, <4>3, ModbusAssumptions DEF Kept
      <3>2. ASSUME NEW i \in DOMAIN x, i \in DOMAIN p.v, Exact(r.codec, p.v[i]) PROVE x[i] = p.v[i]
        <4>1. i <= Len(p.v)
          BY <1>2, <3>2
        <4>2. x[i] = AsF64[AsF32[p.v[i]]]
          BY <2>7, <3>1, <4>1 DEF Kept
        <4>3. PICK b \in 0..(Wide - 1) : p.v[i] = AsF64[b]
          BY <2>7, <3>2 DEF Exact
        <4> QED BY <4>2, <4>3, ModbusAssumptions
      <3> QED BY <3>1, <3>2 DEF Back, x, w
    <2>8. CASE r.codec \notin FloatCodecs
      <3>1. n = p.v
        BY <2>8 DEF n, Narrowed
      <3>2. Plain(x, p.v)
        BY <2>6, <2>8, <3>1
      <3> QED BY <1>0, <2>8, <3>2 DEF x, w
    <2> QED BY <2>7, <2>8
  <1>5. CASE r.codec \in RawCodecs
    <2>1. p.v \in Seq(0..(Base - 1))
      BY <1>2, <1>5 DEF CodecValues
    <2>2. Plain(DecodeValue(r.codec, Held(PackWords(p.v), q)).v, p.v)
      BY <1>5, <2>1, RawBack
    <2>3. r.codec \notin FloatCodecs
      BY <1>5 DEF RawCodecs, FloatCodecs
    <2>4. Plain(x, p.v)
      BY <1>1, <1>5, <2>2
    <2> HIDE DEF x
    <2> QED BY <1>0, <2>3, <2>4 DEF x, w
  <1> QED BY <1>3, <1>4, <1>5 DEF Storable, Codecs

-----------------------------------------------------------------------------
(* The answer of the device.                                               *)

\* Two bytes for each register.
LEMMA UnpackedLength ==
    ASSUME NEW q \in Nat, NEW u, DOMAIN u = 1..q
    PROVE  Len(Unpack(u)) = 2 * q
  <1> DEFINE s == [i \in 1..q |-> <<u[i] \div Base, u[i] % Base>>]
             S == {u[i] \div Base : i \in 1..q} \cup {u[i] % Base : i \in 1..q}
  <1>1. Unpack(u) = FlattenSeq(s)
    BY DEF Unpack
  <1>2. PairsOver(s, q, S)
    <2>1. \A i \in 1..q : u[i] \div Base \in S /\ u[i] % Base \in S
      OBVIOUS
    <2> HIDE DEF S
    <2>2. \A i \in 1..q : <<u[i] \div Base, u[i] % Base>> \in Seq(S)
                          /\ Len(<<u[i] \div Base, u[i] % Base>>) = 2
      BY <2>1
    <2> QED BY <2>2 DEF PairsOver
  <1> HIDE DEF s, S
  <1>3. InRow(FlattenSeq(s), s, q, S)
    BY <1>2, FlattenedPairs
  <1> QED BY <1>1, <1>3 DEF InRow

\* A read asks for something.
LEMMA ReadQuantity ==
    ASSUME NEW r, ModbusRead(r).ok, r.quantity \in Nat \cup {None}
    PROVE  ModbusRead(r).value \in Nat \ {0}
  <1> DEFINE q == QuantityForRead(r)
  <1>1. q.ok => q.value \in Nat \ {0}
    BY BackoffAssumptions DEF QuantityForRead, Ok, Err
  <1> HIDE DEF q
  <1>2. ModbusRead(r) = IF ~q.ok THEN q
                        ELSE IF (r.kind \in {"Coil", "DiscreteInput"}) # (r.codec \in BitCodecs)
                        THEN Err("InvalidResource") ELSE Ok(q.value)
    BY DEF ModbusRead, Then, q
  <1> QED BY <1>1, <1>2 DEF Ok, Err

\* An answer that is no exception.
Unexceptional(a, proto, decoder) ==
    /\ a.mbap = TRUE /\ proto \in {"Tcp", "Udp", "Rtu", "Ascii"}
    /\ \/ a.kind = "ack" /\ decoder = "Ack"
       \/ a.kind = "data" /\ decoder # "Ack" /\ Len(a.bytes) \in Nat

\* The size of a frame, and when it is there.
LEMMA FrameSize ==
    ASSUME NEW proto, NEW a, NEW decoder, Unexceptional(a, proto, decoder)
    PROVE  LET size == WireSize(proto, a) IN
           /\ size \in Nat /\ size >= 5
           /\ proto # "Rtu" => size >= 6
           /\ proto = "Ascii" /\ a.kind = "data" => size = 11 + 2 * Len(a.bytes)
           /\ proto = "Rtu" /\ a.kind = "data" => size = 5 + Len(a.bytes)
           /\ proto \in {"Tcp", "Udp"} /\ a.kind = "data" => size = 9 + Len(a.bytes)
  <1> DEFINE body == CASE a.kind = "exception" -> 2
                       [] a.kind = "ack"       -> 5
                       [] OTHER                -> 2 + Len(a.bytes)
  <1>1. body \in Nat /\ body >= 2 /\ (a.kind = "data" => body = 2 + Len(a.bytes))
    BY DEF Unexceptional
  <1>2. WireSize(proto, a) = CASE proto \in {"Tcp", "Udp"} -> 7 + body
                               [] proto = "Rtu"            -> 1 + body + 2
                               [] proto = "Ascii"          -> 1 + 2 * (1 + body + 1) + 2
    BY DEF WireSize
  <1> HIDE DEF body
  <1>3. CASE proto \in {"Tcp", "Udp"}
    <2>1. WireSize(proto, a) = 7 + body
      BY <1>2, <1>3
    <2> QED BY <1>1, <1>3, <2>1
  <1>4. CASE proto = "Rtu"
    <2>1. WireSize(proto, a) = 1 + body + 2
      BY <1>2, <1>4
    <2> QED BY <1>1, <1>4, <2>1
  <1>5. CASE proto = "Ascii"
    <2>1. WireSize(proto, a) = 1 + 2 * (1 + body + 1) + 2
      BY <1>2, <1>5
    <2> QED BY <1>1, <1>5, <2>1
  <1> QED BY <1>3, <1>4, <1>5 DEF Unexceptional

LEMMA FrameThere ==
    ASSUME NEW proto, NEW a, NEW decoder, Unexceptional(a, proto, decoder), NEW n \in Nat,
           n >= WireSize(proto, a), proto = "Udp" => n = WireSize(proto, a)
    PROVE  TrimFrame(proto, a, n) = WireSize(proto, a)
  <1> DEFINE size == WireSize(proto, a)
  <1>1. size \in Nat /\ size >= 5 /\ (proto # "Rtu" => size >= 6)
    BY FrameSize
  <1>2. a.mbap = TRUE /\ proto \in {"Tcp", "Udp", "Rtu", "Ascii"} /\ n >= size /\ (proto = "Udp" => n = size)
    BY DEF Unexceptional
  <1>3. KnownSize(proto, a, n) = IF n < (CASE proto \in {"Tcp", "Udp"} -> 6 [] proto = "Rtu" -> 3 [] OTHER -> size)
                                    \/ (proto \in {"Tcp", "Udp"} /\ ~a.mbap) THEN None ELSE size
    BY DEF KnownSize
  <1> HIDE DEF size
  <1>4. KnownSize(proto, a, n) = size
    BY <1>1, <1>2, <1>3
  <1>5. TrimFrame(proto, a, n) = IF proto # "Udp" /\ size # None /\ size < n THEN size ELSE n
    BY <1>4 DEF TrimFrame
  <1>6. size # None
    BY <1>1, BackoffAssumptions
  <1> QED BY <1>1, <1>2, <1>5, <1>6 DEF size

LEMMA NotEarly ==
    ASSUME NEW proto, NEW a, NEW n, FrameComplete(proto, a, n)
    PROVE  n >= WireSize(proto, a)
  BY DEF FrameComplete, KnownSize

\* A whole frame is decoded.
LEMMA FrameDecoded ==
    ASSUME NEW proto, NEW a, NEW decoder, Unexceptional(a, proto, decoder)
    PROVE  ModbusDecode(proto, decoder, a, WireSize(proto, a)).ok
  <1> DEFINE n == WireSize(proto, a)
             binary == IF proto = "Ascii" THEN (n - 3) \div 2 ELSE n
             slice == DataSlice(proto, a, binary)
             Text(bytes) == IF decoder = "Utf8String" THEN [type |-> "String", v |-> TrimNuls(bytes)]
                            ELSE [type |-> "Bytes", v |-> bytes]
             d == ModbusDecode(proto, decoder, a, n)
  <1>0. a.mbap = TRUE /\ proto \in {"Tcp", "Udp", "Rtu", "Ascii"}
    BY DEF Unexceptional
  <1>1. CASE decoder \in RawCodecs
    <2>1. a.kind = "data" /\ Len(a.bytes) \in Nat
      BY <1>1 DEF Unexceptional, RawCodecs
    <2>2. binary >= (IF proto \in {"Tcp", "Udp"} THEN 9 ELSE 3) + Len(a.bytes) /\ binary \in Nat
      <3>1. /\ n \in Nat
            /\ proto = "Ascii" => n = 11 + 2 * Len(a.bytes)
            /\ proto = "Rtu" => n = 5 + Len(a.bytes)
            /\ proto \in {"Tcp", "Udp"} => n = 9 + Len(a.bytes)
        BY <2>1, FrameSize
      <3> HIDE DEF n
      <3> DEFINE len == Len(a.bytes)
      <3>2. len \in Nat
        BY <2>1
      <3> HIDE DEF len
      <3>3. CASE proto = "Ascii"
        <4>1. n - 3 = 2 * (4 + len)
          BY <3>1, <3>2, <3>3 DEF len
        <4>2. binary = 4 + len
          BY <3>2, <3>3, <4>1
        <4> QED BY <3>2, <3>3, <4>2 DEF len
      <3>4. CASE proto = "Rtu"
        BY <3>1, <3>2, <3>4 DEF len
      <3>5. CASE proto \in {"Tcp", "Udp"}
        BY <3>1, <3>2, <3>5 DEF len
      <3> QED BY <1>0, <3>3, <3>4, <3>5
    <2>3. slice.ok
      <3> DEFINE data == IF proto \in {"Tcp", "Udp"} THEN 9 ELSE 3
      <3> HIDE DEF binary
      <3>1. slice = IF binary < data \/ binary < data + Len(a.bytes) THEN Err("InvalidPayload") ELSE Ok(a.bytes)
        BY <2>1 DEF DataSlice
      <3>d. data \in Nat /\ binary >= data + Len(a.bytes) /\ binary \in Nat
        BY <2>2
      <3>2. ~(binary < data) /\ ~(binary < data + Len(a.bytes))
        <4> DEFINE len == Len(a.bytes)
        <4>1. len \in Nat /\ binary >= data + len
          BY <2>1, <3>d
        <4> HIDE DEF len, data
        <4>2. ~(binary < data) /\ ~(binary < data + len)
          BY <3>d, <4>1
        <4> QED BY <4>2 DEF len
      <3> HIDE DEF slice, data
      <3>3. slice = Ok(a.bytes)
        BY <3>1, <3>2
      <3> QED BY <3>3 DEF Ok
    <2>4. d = Then(slice, LAMBDA b : Ok(Text(b)))
      BY <1>0, <1>1 DEF ModbusDecode
    <2> HIDE DEF d, slice, Text
    <2>5. d.ok
      BY <2>3, <2>4 DEF Then, Ok
    <2> QED BY <2>5 DEF d
  <1>2. CASE decoder \notin RawCodecs
    <2> DEFINE whole == n = WireSize(proto, a) /\ a.mbap
    <2>1. d = IF proto = "Ascii" /\ ~whole THEN Err("InvalidFrame")
              ELSE CASE whole /\ decoder = "Ack" /\ a.kind = "ack" -> Ok([type |-> "Null", v |-> <<>>])
                     [] whole /\ decoder # "Ack" /\ a.kind = "data" -> Ok(DecodeValue(decoder, a.units))
                     [] OTHER -> Err("InvalidPayload")
      BY <1>2 DEF ModbusDecode
    <2>2. whole
      BY <1>0
    <2> HIDE DEF d, whole
    <2>3. \/ d = Ok([type |-> "Null", v |-> <<>>])
          \/ d = Ok(DecodeValue(decoder, a.units))
      BY <2>1, <2>2 DEF Unexceptional
    <2>4. d.ok
      BY <2>3 DEF Ok
    <2> QED BY <2>4 DEF d
  <1> QED BY <1>1, <1>2

\* What was asked of the device, and what it holds.
LEMMA Asked ==
    ASSUME Decoding, stage # "command", request.ok, job.driver = "Modbus"
    PROVE  LET q == request.value
               r == ModbusResource[job.command.target]
           IN  /\ AnswersModbus(job) /\ job.command.target \in DOMAIN ModbusResource
               /\ r.codec \in Codecs /\ AnswerFits(job.proto, r)
               /\ q.is_write \in BOOLEAN
               /\ q.is_write => q.decoder = "Ack"
               /\ ~q.is_write => /\ q.decoder = r.codec /\ q.decoder # "Ack"
                                 /\ ModbusRead(r).ok /\ q.quantity = ModbusRead(r).value
                                 /\ q.quantity \in Nat \ {0}
  <1> DEFINE q == request.value
             r == ModbusResource[job.command.target]
  <1>1. AnswersModbus(job)
    BY JobOfDriver, ExchangeAssumptions DEF Decoding, Planned
  <1>2. path \in {"native", "bridge"} /\ request = RequestOn(path, job)
    BY DEF Decoding
  <1>3. RequestOn(path, job) = ModbusNativeRequest(job.command)
    BY <1>2, ModbusPathsAlike DEF RequestOn
  <1>4. /\ job.command.target \in DOMAIN ModbusResource
        /\ q.is_write \in BOOLEAN /\ (q.is_write => q.decoder = "Ack")
        /\ ~q.is_write => q.decoder = r.codec /\ ModbusRead(r).ok /\ q.quantity = ModbusRead(r).value
    BY <1>2, <1>3, ModbusShape
  <1>5. r.codec \in Codecs /\ r.quantity \in Nat \cup {None} /\ AnswerFits(job.proto, r)
    BY <1>1, <1>4 DEF AnswersModbus
  <1> HIDE DEF q, r
  <1>6. ModbusRead(r).ok => ModbusRead(r).value \in Nat \ {0}
    BY <1>5, ReadQuantity
  <1>7. r.codec # "Ack"
    BY <1>5 DEF Codecs, BitCodecs, WideCodecs, RawCodecs
  <1> QED BY <1>1, <1>4, <1>5, <1>6, <1>7 DEF q, r

\* The answer of a device without a fault fits a frame, and whoever waits for it has
\* something to decode.
LEMMA AnswerComes ==
    ASSUME Decoding, stage # "command", request.ok, job.driver = "Modbus", job.fault = None
    PROVE  /\ AnswerSize \in Nat /\ AnswerSize >= 5 /\ AnswerSize <= FrameLimit[job.proto]
           /\ \A n \in Nat : n >= AnswerSize /\ (IsDatagram => n = AnswerSize) => Decoded(n).ok
           /\ \A n \in Nat : FrameComplete(job.proto, DeviceAnswer, n) => n >= AnswerSize
  <1> DEFINE a == DeviceAnswer
             q == request.value
             r == ModbusResource[job.command.target]
             bits == r.kind \in {"Coil", "DiscreteInput"}
  <1>1. /\ AnswersModbus(job) /\ AnswerFits(job.proto, r)
        /\ q.is_write \in BOOLEAN
        /\ q.is_write => q.decoder = "Ack"
        /\ ~q.is_write => /\ q.decoder # "Ack" /\ ModbusRead(r).ok /\ q.quantity = ModbusRead(r).value
                          /\ q.quantity \in Nat \ {0}
    BY Asked
  <1>2. job.proto \in {"Tcp", "Udp", "Rtu", "Ascii"}
    BY <1>1 DEF AnswersModbus
  <1>3. /\ a.kind = (IF q.is_write THEN "ack" ELSE "data") /\ a.mbap = TRUE
        /\ a.bytes = IF bits THEN a.units ELSE Unpack(a.units)
        /\ ~q.is_write => DOMAIN a.units = 1..q.quantity /\ Len(a.units) = q.quantity
    BY <1>1 DEF DeviceAnswer
  <1> HIDE DEF a, q, r, bits
  <1>4. ~q.is_write => Len(a.bytes) = IF bits THEN q.quantity ELSE 2 * q.quantity
    BY <1>1, <1>3, UnpackedLength
  <1>5. Unexceptional(a, job.proto, q.decoder)
    <2>1. ~q.is_write => Len(a.bytes) \in Nat
      BY <1>1, <1>4
    <2> QED BY <1>1, <1>2, <1>3, <2>1 DEF Unexceptional
  <1>6. AnswerSize = WireSize(job.proto, a)
    BY DEF AnswerSize, a
  <1>7. WireSize(job.proto, a) \in Nat /\ WireSize(job.proto, a) >= 5
    BY <1>5, FrameSize
  <1>8. WireSize(job.proto, a) <= FrameLimit[job.proto]
    <2>1. CASE q.is_write
      <3>1. WireSize(job.proto, a) = WireSize(job.proto, [kind |-> "ack"])
        BY <1>3, <2>1 DEF WireSize
      <3> QED BY <1>1, <3>1 DEF AnswerFits
    <2>2. CASE ~q.is_write
      <3> DEFINE m == IF bits THEN q.quantity ELSE 2 * q.quantity
                 zeros == [i \in 1..m |-> 0]
      <3>1. m \in Nat /\ Len(a.bytes) = m
        BY <1>1, <1>4, <2>2
      <3>2. WireSize(job.proto, [kind |-> "data", bytes |-> zeros]) <= FrameLimit[job.proto]
        BY <1>1, <2>2 DEF AnswerFits, bits
      <3> HIDE DEF m
      <3>3. Len(zeros) = m
        BY <3>1
      <3> HIDE DEF zeros
      <3>4. WireSize(job.proto, a) = WireSize(job.proto, [kind |-> "data", bytes |-> zeros])
        BY <1>3, <2>2, <3>1, <3>3 DEF WireSize
      <3> QED BY <3>2, <3>4
    <2> QED BY <1>1, <2>1, <2>2
  <1>9. ASSUME NEW n \in Nat, n >= AnswerSize, IsDatagram => n = AnswerSize PROVE Decoded(n).ok
    <2> DEFINE frame == TrimFrame(job.proto, a, n)
               d == ModbusDecode(job.proto, q.decoder, a, frame)
    <2>1. job.proto = "Udp" => n = WireSize(job.proto, a)
      BY <1>6, <1>9 DEF IsDatagram
    <2>2. frame = WireSize(job.proto, a)
      BY <1>5, <1>6, <1>9, <2>1, FrameThere
    <2> HIDE DEF frame
    <2>3. d.ok
      BY <1>5, <2>2, FrameDecoded
    <2>4. Decoded(n) = Then(d, LAMBDA p : Ok(ModbusResult(job.command, p)))
      BY DEF Decoded, frame, a, q
    <2> HIDE DEF d
    <2> QED BY <2>3, <2>4 DEF Then, Ok
  <1>10. \A n \in Nat : FrameComplete(job.proto, DeviceAnswer, n) => n >= AnswerSize
    BY <1>6, NotEarly DEF a
  <1> QED BY <1>6, <1>7, <1>8, <1>9, <1>10

\* How a Modbus command that was sent may end.
Arrived ==
    stage = "done" /\ job.driver = "Modbus" /\ request.ok =>
        \/ outcome \in {Err("failed to send"), Err("failed to read")}
        \/ MayFail /\ \E e : outcome = Err(e)
        \/ \E n : Came(n) /\ outcome = Decoded(n) /\ (MayFail \/ Decoded(n).ok)

LEMMA MayFailKept ==
    ASSUME job' = job, request' = request PROVE MayFail' = MayFail /\ Sent' = Sent
  <1>1. DeviceAnswer' = DeviceAnswer
    BY DEF DeviceAnswer
  <1>2. AnswerSize' = AnswerSize
    BY <1>1 DEF AnswerSize
  <1>3. Sent' = Sent
    BY <1>2 DEF Sent
  <1>4. IsDatagram' = IsDatagram
    BY DEF IsDatagram
  <1> QED BY <1>3, <1>4 DEF MayFail

LEMMA ArrivedNext == Decoding /\ Arrived /\ [Next]_vars => Arrived'
  <1> SUFFICES ASSUME Decoding, Arrived, [Next]_vars, stage' = "done", job'.driver = "Modbus", request'.ok
               PROVE  \/ outcome' \in {Err("failed to send"), Err("failed to read")}
                      \/ MayFail' /\ \E e : outcome' = Err(e)
                      \/ \E n : Came(n)' /\ outcome' = Decoded(n)' /\ (MayFail' \/ Decoded(n)'.ok)
    BY DEF Arrived
  <1>j. job' = job /\ job.driver = "Modbus"
    BY DEF Next, Plan, Send, SendFails, ReadSome, ReadEnd, ReadDatagram, ReadFails, Retry, vars
  <1>1. ASSUME NEW p, Plan(p) PROVE FALSE
    BY <1>1, <1>j DEF Plan, End
  <1>k. UNCHANGED <<job, path, request>>
    BY <1>1 DEF Next, Send, SendFails, ReadSome, ReadEnd, ReadDatagram, ReadFails, Retry, vars
  <1>m. /\ \A n : Decoded(n)' = Decoded(n) /\ Came(n)' = Came(n)
        /\ MayFail' = MayFail
    BY <1>k, AnswerKept, MayFailKept
  <1> SUFFICES \/ outcome' \in {Err("failed to send"), Err("failed to read")}
               \/ MayFail /\ \E e : outcome' = Err(e)
               \/ \E n : Came(n) /\ outcome' = Decoded(n) /\ (MayFail \/ Decoded(n).ok)
    BY <1>m
  <1>2. CASE UNCHANGED <<stage, outcome>>
    BY <1>k, <1>2 DEF Arrived
  <1>3. CASE SendFails \/ ReadFails
    BY <1>3 DEF SendFails, ReadFails, End
  <1>4. stage = "reading" => stage # "command" /\ request.ok
    BY DEF Decoding
  <1>5. AnswersModbus(job) /\ FrameLimit[job.proto] \in Nat
    <2>1. AnswersModbus(job)
      BY <1>j, JobOfDriver, ExchangeAssumptions DEF Decoding, Planned
    <2> QED BY <2>1, ModbusAssumptions DEF AnswersModbus
  <1>6. ASSUME stage = "reading", ~MayFail
        PROVE  /\ job.fault = None /\ AnswerSize \in Nat /\ AnswerSize >= 5 /\ AnswerSize <= FrameLimit[job.proto]
               /\ Sent = AnswerSize + job.extra /\ job.extra \in Nat /\ Sent \in Nat
               /\ Sent <= FrameLimit[job.proto] /\ (IsDatagram => job.extra = 0)
               /\ \A n \in Nat : n >= AnswerSize /\ (IsDatagram => n = AnswerSize) => Decoded(n).ok
               /\ \A n \in Nat : FrameComplete(job.proto, DeviceAnswer, n) => n >= AnswerSize
    <2>1. job.fault = None /\ job.lost \in Nat /\ ~(job.lost > 0) /\ job.extra \in Nat
      BY <1>5, <1>6 DEF MayFail, AnswersModbus
    <2>2. /\ AnswerSize \in Nat /\ AnswerSize >= 5 /\ AnswerSize <= FrameLimit[job.proto]
          /\ \A n \in Nat : n >= AnswerSize /\ (IsDatagram => n = AnswerSize) => Decoded(n).ok
          /\ \A n \in Nat : FrameComplete(job.proto, DeviceAnswer, n) => n >= AnswerSize
      BY <1>j, <1>4, <1>6, <2>1, AnswerComes
    <2>3. Sent = AnswerSize + job.extra
      BY <1>j, <2>1 DEF Sent
    <2>4. job.extra > 0 => Sent <= FrameLimit[job.proto] /\ ~IsDatagram
      <3>1. Sent \in Nat
        BY <2>1, <2>2, <2>3
      <3> QED BY <1>5, <1>6, <3>1 DEF MayFail
    <2> QED BY <1>5, <2>1, <2>2, <2>3, <2>4
  <1>7. ASSUME NEW k \in 1..BufferSize, ReadSome(k), ~UNCHANGED <<stage, outcome>>
        PROVE  \/ MayFail /\ \E e : outcome' = Err(e)
               \/ \E n : Came(n) /\ outcome' = Decoded(n) /\ (MayFail \/ Decoded(n).ok)
    <2> DEFINE n == received + k
    <2>1. /\ stage = "reading" /\ ~IsDatagram /\ received + k <= Sent
          /\ \/ received + k > FrameLimit[job.proto] /\ outcome' = Err("frame exceeded")
             \/ IsFramed /\ FrameComplete(job.proto, DeviceAnswer, received + k) /\ outcome' = Decoded(received + k)
      BY <1>7 DEF ReadSome, End
    <2>2. n \in Nat
      <3>1. received \in Nat
        BY <2>1 DEF Decoding
      <3> QED BY <3>1, ExchangeAssumptions
    <2> HIDE DEF n
    <2>3. CASE n > FrameLimit[job.proto] /\ outcome' = Err("frame exceeded")
      <3>1. MayFail
        <4> SUFFICES ASSUME ~MayFail PROVE FALSE
          OBVIOUS
        <4>1. Sent \in Nat /\ Sent <= FrameLimit[job.proto]
          BY <1>6, <2>1
        <4>2. n <= Sent /\ n > FrameLimit[job.proto]
          BY <2>1, <2>3 DEF n
        <4> QED BY <1>5, <2>2, <4>1, <4>2
      <3> QED BY <2>3, <3>1
    <2>4. CASE IsFramed /\ FrameComplete(job.proto, DeviceAnswer, n) /\ outcome' = Decoded(n)
      <3>1. Came(n)
        BY <1>j, <2>1, <2>2 DEF Came
      <3>2. MayFail \/ Decoded(n).ok
        BY <1>6, <2>1, <2>2, <2>4
      <3> QED BY <2>4, <3>1, <3>2
    <2> QED BY <2>1, <2>3, <2>4 DEF n
  <1>8. CASE ReadEnd
    <2>1. /\ stage = "reading" /\ ~IsDatagram /\ received = Sent /\ received \in Nat
          /\ outcome' = IF IsFramed /\ received = 0 THEN Err("failed to read: Closed") ELSE Decoded(received)
      BY <1>8 DEF ReadEnd, End, Decoding
    <2>2. Came(received)
      BY <1>j, <2>1 DEF Came
    <2>3. CASE MayFail
      BY <2>1, <2>2, <2>3
    <2>4. CASE ~MayFail
      <3>1. received >= AnswerSize /\ received # 0
        <4>1. AnswerSize \in Nat /\ AnswerSize >= 5 /\ received = AnswerSize + job.extra /\ job.extra \in Nat
          BY <1>6, <2>1, <2>4
        <4> QED BY <4>1
      <3>2. Decoded(received).ok /\ outcome' = Decoded(received)
        BY <1>6, <2>1, <2>4, <3>1
      <3> QED BY <2>2, <3>2
    <2> QED BY <2>3, <2>4
  <1>9. CASE ReadDatagram
    <2> DEFINE n == Least(Sent, FrameLimit["Udp"])
    <2>1. stage = "reading" /\ IsDatagram /\ outcome' = Decoded(n)
      BY <1>9 DEF ReadDatagram, End
    <2>2. Came(n) /\ job.proto = "Udp"
      BY <1>j, <2>1 DEF Came, IsDatagram, IsFramed
    <2>3. MayFail \/ Decoded(n).ok
      <3> SUFFICES ASSUME ~MayFail PROVE Decoded(n).ok
        OBVIOUS
      <3>1. Sent = AnswerSize /\ Sent \in Nat /\ Sent <= FrameLimit["Udp"]
        BY <1>6, <2>1, <2>2
      <3>2. n = AnswerSize
        BY <3>1 DEF Least
      <3> HIDE DEF n
      <3> QED BY <1>6, <2>1, <3>1, <3>2
    <2> HIDE DEF n
    <2> QED BY <2>1, <2>2, <2>3
  <1> QED BY <1>1, <1>2, <1>3, <1>7, <1>8, <1>9 DEF Next, Send, Retry, vars

LEMMA ArrivedAlways == Spec => [](Decoding /\ Arrived)
  <1>1. Init => Arrived
    BY DEF Init, Arrived
  <1>2. Decoding /\ Arrived /\ [Next]_vars => Arrived'
    BY ArrivedNext
  <1> QED BY <1>1, <1>2, DecodingAlways, PTL DEF Spec

\* However its bytes are split and whatever follows them, an answer that arrives is
\* decoded, and what was written to coils or registers is read back, a float as the
\* nearest f32.
THEOREM RegistersReadBack == Spec => []ReadsBackWrites
  <1>1. Decoding /\ Arrived => ReadsBackWrites
    <2> SUFFICES ASSUME Decoding, Arrived, stage = "done", job.driver = "Modbus", Accepted
                 PROVE  \/ ~outcome.ok /\ (MayFail \/ outcome.error \in {"failed to send", "failed to read"})
                        \/ outcome.ok /\ (job.stored = None \/ request.value.is_write \/ job.fault # None)
                        \/ outcome.ok /\ \A i \in DOMAIN outcome.value.payload.v :
                             outcome.value.payload.v[i] =
                               Kept(request.value.decoder, IF i <= Len(job.stored.v) THEN job.stored.v[i] ELSE 0)
      BY DEF ReadsBackWrites
    <2>0. stage # "command" /\ request.ok
      BY DEF Accepted
    <2>1. \A e : ~Err(e).ok /\ Err(e).error = e
      BY DEF Err
    <2>2. CASE outcome \in {Err("failed to send"), Err("failed to read")}
      BY <2>1, <2>2
    <2>3. CASE MayFail /\ \E e : outcome = Err(e)
      BY <2>1, <2>3
    <2>4. ASSUME NEW n, Came(n), outcome = Decoded(n), MayFail \/ Decoded(n).ok, outcome.ok,
                 job.stored # None, ~request.value.is_write, job.fault = None
          PROVE  Back(request.value.decoder, outcome.value.payload.v, job.stored.v)
      <3> DEFINE q == request.value
                 r == ModbusResource[job.command.target]
                 w == ModbusWrite(r, job.stored)
      <3>1. /\ r.codec \in Codecs /\ AnswersModbus(job) /\ job.command.target \in DOMAIN ModbusResource
            /\ q.decoder = r.codec /\ q.quantity \in Nat \ {0}
        BY <2>0, <2>4, Asked
      <3>2. w.ok /\ Storable(r.codec, job.stored.v)
        BY <2>4, <3>1 DEF AnswersModbus, Storable
      <3>3. outcome.value.payload = DecodeValue(q.decoder, DeviceAnswer.units)
        BY <2>0, <2>4, WholeFrame DEF UncheckedException
      <3>4. DeviceAnswer.units = Held(w.value, q.quantity)
        <4> DEFINE held == IF w.ok THEN w.value ELSE <<>>
        <4>1. DeviceAnswer.units = [i \in 1..q.quantity |-> IF i <= Len(held) THEN held[i] ELSE 0]
          BY <2>4 DEF DeviceAnswer
        <4>2. held = w.value
          BY <3>2
        <4> HIDE DEF held, q, w
        <4> QED BY <4>1, <4>2 DEF Held
      <3>5. Back(r.codec, DecodeValue(r.codec, Held(w.value, q.quantity)).v, job.stored.v)
        <4> HIDE DEF q, r, w
        <4> USE DEF w
        <4> QED BY <3>1, <3>2, RegistersRoundTrip
      <3> HIDE DEF q, r, w
      <3> QED BY <3>1, <3>3, <3>4, <3>5 DEF q
    <2>5. ASSUME NEW n, Came(n), outcome = Decoded(n), MayFail \/ Decoded(n).ok
          PROVE  \/ ~outcome.ok /\ MayFail
                 \/ outcome.ok /\ (job.stored = None \/ request.value.is_write \/ job.fault # None)
                 \/ outcome.ok /\ Back(request.value.decoder, outcome.value.payload.v, job.stored.v)
      BY <2>4, <2>5
    <2> QED BY <2>0, <2>2, <2>3, <2>5 DEF Arrived, Back
  <1> QED BY <1>1, ArrivedAlways, PTL
=============================================================================
