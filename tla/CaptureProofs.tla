---------------------------- MODULE CaptureProofs ----------------------------
(***************************************************************************)
(* Proofs about what Exchange folds over: the entries of a capture, the    *)
(* headers of a request and the fields of a result, for lists of any       *)
(* length.                                                                 *)
(***************************************************************************)
EXTENDS ExchangeProofs, FiniteSetTheorems

-----------------------------------------------------------------------------
(* Folds.                                                                  *)

\* The largest of the first numbers, and what is left without it.
LEMMA MaxOfPrefix ==
    ASSUME NEW n \in Nat, NEW s \in SUBSET (1..(n + 1)), n + 1 \in s
    PROVE  Max(s) = n + 1 /\ s \ {Max(s)} \in SUBSET (1..n)
  <1>1. \A y \in s : n + 1 >= y
    OBVIOUS
  <1>2. \A x \in s : (\A y \in s : x >= y) => x = n + 1
    OBVIOUS
  <1>3. Max(s) = n + 1
    BY <1>1, <1>2 DEF Max
  <1> QED BY <1>3

\* Places are bounded, so a set of them has a largest one.
LEMMA MaxInside ==
    ASSUME NEW n \in Nat, NEW s \in SUBSET (1..n), s # {}
    PROVE  Max(s) \in s /\ \A y \in s : Max(s) >= y
  <1> DEFINE D == {n - y : y \in s}
  <1>1. D \in SUBSET Nat /\ D # {}
    <2>1. \A y \in s : n - y \in Nat OBVIOUS
    <2> QED BY <2>1
  <1>2. PICK d \in D : \A k \in Nat : k < d => k \notin D
    BY <1>1, LeastOf
  <1>3. PICK x \in s : d = n - x
    BY <1>2
  <1>4. ASSUME NEW y \in s PROVE x >= y
    <2>1. n - y \in D /\ n - y \in Nat
      OBVIOUS
    <2> HIDE DEF D
    <2>2. ~(n - y < n - x)
      BY <1>2, <1>3, <2>1
    <2> QED BY <2>2
  <1> QED BY <1>4 DEF Max

\* The first of a set of numbers.
LEMMA MinInside ==
    ASSUME NEW s \in SUBSET Nat, s # {}
    PROVE  Min(s) \in s /\ \A y \in s : Min(s) <= y
  <1>1. PICK x \in s : \A k \in Nat : k < x => k \notin s
    BY LeastOf
  <1>2. \A y \in s : x <= y
    BY <1>1
  <1> QED BY <1>2 DEF Min

\* it folds the step function F over the sets of places of a list.
PlaceFold(it, S, F, base, n, seq) ==
    /\ it \in [SUBSET (1..n) -> S]
    /\ \A s \in SUBSET (1..n) :
         it[s] = IF s = {} THEN base ELSE F[<<it[s \ {Max(s)}], seq[Max(s)]>>]

\* A step function that stays in S can be folded over the sets of places of a list.
LEMMA FoldExists ==
    ASSUME NEW S, NEW E, NEW F \in [S \X E -> S], NEW base \in S, NEW n \in Nat, NEW seq \in [1..n -> E]
    PROVE  \E it : PlaceFold(it, S, F, base, n, seq)
  <1> DEFINE Folds(it, k) == /\ it \in [SUBSET (1..k) -> S]
                             /\ \A s \in SUBSET (1..k) :
                                  it[s] = IF s = {} THEN base ELSE F[<<it[s \ {Max(s)}], seq[Max(s)]>>]
             Not == {k \in 0..n : ~\E it : Folds(it, k)}
  <1> SUFFICES ASSUME Not # {} PROVE FALSE
    <2>1. n \in 0..n OBVIOUS
    <2>2. PICK it : Folds(it, n)
      BY <2>1
    <2> QED BY <2>2 DEF PlaceFold
  <1>0. Not \in SUBSET Nat
    OBVIOUS
  <1>1. PICK k \in Not : \A j \in Nat : j < k => j \notin Not
    BY <1>0, LeastOf
  <1>2. CASE k = 0
    <2> DEFINE e == [s \in SUBSET (1..0) |-> base]
    <2>1. SUBSET (1..0) = {{}}
      OBVIOUS
    <2>2. e \in [SUBSET (1..0) -> S] /\ \A s \in SUBSET (1..0) : s = {} /\ e[s] = base
      BY <2>1
    <2>3. Folds(e, 0)
      <3> HIDE DEF e
      <3> QED BY <2>2
    <2> HIDE DEF e
    <2> QED BY <1>1, <1>2, <2>3
  <1>3. CASE k # 0
    <2> DEFINE m == k - 1
    <2>1. m \in Nat /\ m < k /\ m \in 0..n /\ k = m + 1 /\ k \in 1..n
      BY <1>1, <1>3
    <2>2. PICK h : Folds(h, m)
      BY <1>1, <2>1
    <2> DEFINE g == [s \in SUBSET (1..k) |-> IF k \in s THEN F[<<h[s \ {k}], seq[k]>>] ELSE h[s]]
    <2>3. ASSUME NEW s \in SUBSET (1..k)
          PROVE  /\ k \notin s => s \in SUBSET (1..m)
                 /\ k \in s => s \ {k} \in SUBSET (1..m) /\ Max(s) = k
      <3>1. k \notin s => s \in SUBSET (1..m)
        BY <2>1
      <3>2. k \in s => s \ {k} \in SUBSET (1..m)
        BY <2>1
      <3> QED BY <2>1, <3>1, <3>2, MaxOfPrefix
    <2>4. \A s \in SUBSET (1..k) : g[s] \in S
      <3> TAKE s \in SUBSET (1..k)
      <3>1. CASE k \in s
        <4>1. h[s \ {k}] \in S /\ seq[k] \in E
          BY <2>1, <2>2, <2>3, <3>1
        <4> QED BY <3>1, <4>1
      <3>2. CASE k \notin s
        BY <2>2, <2>3, <3>2
      <3> QED BY <3>1, <3>2
    <2>5. \A s \in SUBSET (1..k) :
             g[s] = IF s = {} THEN base ELSE F[<<g[s \ {Max(s)}], seq[Max(s)]>>]
      <3> TAKE s \in SUBSET (1..k)
      <3>1. CASE k \in s
        <4>1. Max(s) = k /\ s \ {k} \in SUBSET (1..k) /\ k \notin s \ {k} /\ s # {}
          BY <2>3, <3>1
        <4>2. g[s \ {k}] = h[s \ {k}]
          BY <4>1
        <4> QED BY <3>1, <4>1, <4>2
      <3>2. CASE k \notin s
        <4>1. s \in SUBSET (1..m) /\ g[s] = h[s]
          BY <2>3, <3>2
        <4>2. g[s \ {Max(s)}] = h[s \ {Max(s)}]
          BY <3>2
        <4> QED BY <2>2, <4>1, <4>2
      <3> QED BY <3>1, <3>2
    <2>6. g \in [SUBSET (1..k) -> S]
      BY <2>4
    <2> HIDE DEF g
    <2>7. Folds(g, k)
      BY <2>5, <2>6
    <2> QED BY <1>1, <2>7
  <1> QED BY <1>2, <1>3

\* Read off a fold over sets of places: one element more, one step more.
LEMMA PrefixOfPlaces ==
    ASSUME NEW j \in Nat \ {0} PROVE 1..j # {} /\ Max(1..j) = j /\ (1..j) \ {j} = 1..(j - 1)
  <1>1. j - 1 \in Nat /\ j = (j - 1) + 1 /\ j \in 1..j
    OBVIOUS
  <1>2. 1..j \in SUBSET (1..((j - 1) + 1)) /\ (j - 1) + 1 \in 1..j
    OBVIOUS
  <1>3. Max(1..j) = j
    BY <1>1, <1>2, MaxOfPrefix
  <1> QED BY <1>1, <1>3

-----------------------------------------------------------------------------
(* Captures: the first entry under a key.                                  *)

\* The step of FirstOnly.
FirstStep(es, e) == IF \E i \in DOMAIN es : es[i].key = e.key THEN es ELSE Append(es, e)

\* FirstOnly folds it over the places of the capture.
FirstFold(it, entries) ==
    it = [s \in SUBSET DOMAIN entries |->
            IF s = {} THEN <<>> ELSE FirstStep(it[s \ {Max(s)}], entries[Max(s)])]

LEMMA FirstOnlyByPlaces ==
    ASSUME NEW entries
    PROVE  FirstOnly(entries) = (CHOOSE it : FirstFold(it, entries))[DOMAIN entries]
  BY DEF FirstOnly, FoldLeft, MapThenFoldSet, FirstFold, FirstStep

\* FirstOnly takes the entries one by one.
LEMMA FirstOnlySteps ==
    ASSUME NEW E, NEW n \in Nat, NEW entries \in [1..n -> E]
    PROVE  \E a : /\ a[0] = <<>> /\ FirstOnly(entries) = a[n]
                  /\ \A j \in 1..n : a[j] = FirstStep(a[j - 1], entries[j])
  <1> DEFINE S == Seq(E)
             F == [x \in S \X E |-> FirstStep(x[1], x[2])]
  <1>1. DOMAIN entries = 1..n /\ <<>> \in S
    OBVIOUS
  <1>2. \A es \in S, e \in E : FirstStep(es, e) \in S /\ F[<<es, e>>] = FirstStep(es, e)
    BY DEF FirstStep
  <1>3. F \in [S \X E -> S]
    BY <1>2
  <1> HIDE DEF F, S
  <1>4. PICK it : PlaceFold(it, S, F, <<>>, n, entries)
    BY <1>1, <1>3, FoldExists, Zenon
  <1>5. \A s \in SUBSET (1..n) :
          it[s] = IF s = {} THEN <<>> ELSE FirstStep(it[s \ {Max(s)}], entries[Max(s)])
    <2> TAKE s \in SUBSET (1..n)
    <2>1. ASSUME s # {} PROVE Max(s) \in 1..n
      BY <2>1, MaxInside
    <2>2. ASSUME s # {} PROVE it[s \ {Max(s)}] \in S /\ entries[Max(s)] \in E
      BY <1>4, <2>1, <2>2 DEF PlaceFold
    <2> QED BY <1>2, <1>4, <2>2 DEF PlaceFold
  <1>6. FirstFold(it, entries)
    BY <1>1, <1>4, <1>5 DEF FirstFold, PlaceFold
  <1> DEFINE c == CHOOSE x : FirstFold(x, entries)
             a == [j \in 0..n |-> c[1..j]]
  <1>7. FirstFold(c, entries)
    BY <1>6
  <1>8. FirstOnly(entries) = c[1..n]
    BY <1>1, FirstOnlyByPlaces
  <1> HIDE DEF c
  <1>9. \A s \in SUBSET (1..n) :
          c[s] = IF s = {} THEN <<>> ELSE FirstStep(c[s \ {Max(s)}], entries[Max(s)])
    BY <1>1, <1>7 DEF FirstFold
  <1>10. a[0] = <<>>
    <2>1. 1..0 = {} /\ 0 \in 0..n OBVIOUS
    <2> QED BY <1>9, <2>1
  <1>11. \A j \in 1..n : a[j] = FirstStep(a[j - 1], entries[j])
    <2> TAKE j \in 1..n
    <2>0. j \in Nat \ {0} OBVIOUS
    <2>1. 1..j # {} /\ Max(1..j) = j /\ (1..j) \ {j} = 1..(j - 1)
      BY <2>0, PrefixOfPlaces
    <2>2. 1..j \in SUBSET (1..n) /\ j \in 0..n /\ j - 1 \in 0..n
      OBVIOUS
    <2> QED BY <1>9, <2>1, <2>2
  <1>12. a[n] = c[1..n]
    OBVIOUS
  <1> QED BY <1>8, <1>10, <1>11, <1>12

\* The first places under a key among the first j.
FirstsTo(entries, j) == {i \in 1..j : \A l \in 1..(i - 1) : entries[l].key # entries[i].key}

\* out lists the entries at the places P in order; place[k] is the place of the k-th.
Lists(out, place, entries, P) ==
    /\ Len(out) \in Nat /\ DOMAIN out = 1..Len(out) /\ place \in [1..Len(out) -> P]
    /\ \A k \in 1..Len(out) : out[k] = entries[place[k]]
    /\ \A k, l \in 1..Len(out) : k < l => place[k] < place[l]
    /\ \A i \in P : \E k \in 1..Len(out) : place[k] = i

\* One entry more: listed if it is the first under its key.
LEMMA ListsOneMore ==
    ASSUME NEW E, NEW n \in Nat, NEW entries \in [1..n -> E], NEW j \in 1..n,
           NEW es \in Seq(E), NEW place, Lists(es, place, entries, FirstsTo(entries, j - 1))
    PROVE  \E p : Lists(FirstStep(es, entries[j]), p, entries, FirstsTo(entries, j))
  <1> DEFINE e == entries[j]
             P == FirstsTo(entries, j - 1)
             Q == FirstsTo(entries, j)
             m == Len(es)
  <1>0. m \in Nat /\ DOMAIN es = 1..m /\ place \in [1..m -> P] /\ P \subseteq 1..(j - 1) /\ e \in E
    BY DEF Lists, FirstsTo
  <1>1. CASE \E i \in DOMAIN es : es[i].key = e.key
    <2>1. PICK i \in 1..m : es[i].key = e.key
      BY <1>0, <1>1
    <2>2. place[i] \in 1..(j - 1) /\ entries[place[i]].key = e.key
      BY <1>0, <2>1 DEF Lists
    <2>3. j \notin Q
      BY <2>2 DEF FirstsTo
    <2>4. P = Q
      BY <2>3 DEF FirstsTo
    <2>5. FirstStep(es, e) = es
      BY <1>1 DEF FirstStep
    <2> QED BY <2>4, <2>5
  <1>2. CASE ~\E i \in DOMAIN es : es[i].key = e.key
    <2>1. \A l \in 1..(j - 1) : entries[l].key # e.key
      <3> DEFINE T == {l \in 1..(j - 1) : entries[l].key = e.key}
      <3> SUFFICES ASSUME T # {} PROVE FALSE
        OBVIOUS
      <3>1. T \in SUBSET Nat OBVIOUS
      <3>2. PICK l \in T : \A k \in Nat : k < l => k \notin T
        BY <3>1, LeastOf
      <3>3. l \in P
        BY <3>2 DEF FirstsTo
      <3>4. PICK k \in 1..m : place[k] = l
        BY <3>3 DEF Lists
      <3>5. es[k].key = e.key
        BY <3>2, <3>4 DEF Lists
      <3> QED BY <1>0, <1>2, <3>4, <3>5
    <2>2. Q = P \cup {j}
      BY <2>1 DEF FirstsTo
    <2> DEFINE out == Append(es, e)
               p == [k \in 1..(m + 1) |-> IF k <= m THEN place[k] ELSE j]
    <2>3. FirstStep(es, e) = out
      BY <1>2 DEF FirstStep
    <2>4. Len(out) = m + 1 /\ DOMAIN out = 1..(m + 1) /\ out[m + 1] = e /\ \A k \in 1..m : out[k] = es[k]
      BY <1>0
    <2>5. p \in [1..(m + 1) -> Q]
      <3> SUFFICES ASSUME NEW k \in 1..(m + 1) PROVE p[k] \in Q
        OBVIOUS
      <3> QED BY <1>0, <2>2
    <2>6. \A k \in 1..(m + 1) : out[k] = entries[p[k]]
      <3> TAKE k \in 1..(m + 1)
      <3>1. CASE k = m + 1
        BY <1>0, <2>4, <3>1
      <3>2. CASE k # m + 1
        <4>1. k \in 1..m /\ p[k] = place[k]
          BY <1>0, <3>2
        <4> QED BY <2>4, <4>1 DEF Lists
      <3> QED BY <3>1, <3>2
    <2>7. \A k, l \in 1..(m + 1) : k < l => p[k] < p[l]
      <3> TAKE k, l \in 1..(m + 1)
      <3> HAVE k < l
      <3>1. k \in 1..m /\ p[k] = place[k] /\ place[k] \in 1..(j - 1)
        BY <1>0
      <3>2. CASE l = m + 1
        BY <1>0, <3>1, <3>2
      <3>3. CASE l # m + 1
        <4>1. l \in 1..m /\ p[l] = place[l]
          BY <1>0, <3>3
        <4> QED BY <3>1, <4>1 DEF Lists
      <3> QED BY <3>2, <3>3
    <2>8. \A i \in Q : \E k \in 1..(m + 1) : p[k] = i
      <3> TAKE i \in Q
      <3>1. CASE i = j
        <4>1. m + 1 \in 1..(m + 1) /\ p[m + 1] = j
          BY <1>0
        <4> QED BY <3>1, <4>1
      <3>2. CASE i # j
        <4>1. PICK k \in 1..m : place[k] = i
          BY <2>2, <3>2 DEF Lists
        <4>2. k \in 1..(m + 1) /\ p[k] = place[k]
          BY <1>0
        <4> QED BY <4>1, <4>2
      <3> QED BY <3>1, <3>2
    <2> HIDE DEF out, p
    <2>9. Lists(out, p, entries, Q)
      BY <1>0, <2>4, <2>5, <2>6, <2>7, <2>8 DEF Lists
    <2> QED BY <2>3, <2>9
  <1> QED BY <1>1, <1>2

\* FirstOnly lists the first entry under each key, in their order.
LEMMA FirstOnlyLists ==
    ASSUME NEW E, NEW entries \in Seq(E)
    PROVE  FirstOnly(entries) \in Seq(E) /\ \E place : Lists(FirstOnly(entries), place, entries, FirstEntries(entries))
  <1> DEFINE n == Len(entries)
  <1>1. n \in Nat /\ entries \in [1..n -> E]
    OBVIOUS
  <1>2. PICK a : /\ a[0] = <<>> /\ FirstOnly(entries) = a[n]
                 /\ \A j \in 1..n : a[j] = FirstStep(a[j - 1], entries[j])
    BY <1>1, FirstOnlySteps
  <1> DEFINE Good(j) == a[j] \in Seq(E) /\ \E p : Lists(a[j], p, entries, FirstsTo(entries, j))
             Not == {j \in 0..n : ~Good(j)}
  <1>3. Not = {}
    <2> SUFFICES ASSUME Not # {} PROVE FALSE
      OBVIOUS
    <2>0. Not \in SUBSET Nat OBVIOUS
    <2>1. PICK j \in Not : \A k \in Nat : k < j => k \notin Not
      BY <2>0, LeastOf
    <2>2. CASE j = 0
      <3> DEFINE p == [k \in 1..0 |-> 0]
      <3>1. FirstsTo(entries, 0) = {} /\ 1..0 = {}
        BY DEF FirstsTo
      <3>2. Lists(<<>>, p, entries, {})
        BY <3>1 DEF Lists
      <3> HIDE DEF p
      <3>3. <<>> \in Seq(E)
        OBVIOUS
      <3>4. \E q : Lists(<<>>, q, entries, FirstsTo(entries, 0))
        BY <3>1, <3>2, Zenon
      <3>5. Good(0)
        BY <1>2, <3>3, <3>4
      <3> HIDE DEF Good
      <3> QED BY <2>1, <2>2, <3>5
    <2>3. CASE j # 0
      <3>1. j \in 1..n /\ j - 1 \in 0..n /\ j - 1 < j /\ j - 1 \in Nat
        BY <1>1, <2>1, <2>3
      <3>2. Good(j - 1)
        BY <2>1, <3>1
      <3>3. PICK p : Lists(a[j - 1], p, entries, FirstsTo(entries, j - 1))
        BY <3>2
      <3>4. a[j] = FirstStep(a[j - 1], entries[j]) /\ entries[j] \in E
        BY <1>1, <1>2, <3>1
      <3>5. \E q : Lists(a[j], q, entries, FirstsTo(entries, j))
        BY <1>1, <3>1, <3>2, <3>3, <3>4, ListsOneMore
      <3>6. a[j] \in Seq(E)
        BY <3>2, <3>4 DEF FirstStep
      <3> QED BY <2>1, <3>5, <3>6
    <2> QED BY <2>2, <2>3
  <1>4. n \in 0..n
    BY <1>1
  <1>5. Good(n)
    BY <1>3, <1>4
  <1>6. FirstsTo(entries, n) = FirstEntries(entries)
    BY <1>1 DEF FirstsTo, FirstEntries
  <1> QED BY <1>2, <1>5, <1>6

\* A list of the first entries is decoded like the whole capture.
LEMMA FirstsDecodeAlike ==
    ASSUME NEW E, NEW entries \in Seq(E), NEW out, NEW place,
           Lists(out, place, entries, FirstEntries(entries)),
           NEW protocol, NEW schema, NEW from, NEW headers
    PROVE  DecodeParts(protocol, schema, from, headers, out)
             = DecodeParts(protocol, schema, from, headers, entries)
  <1> DEFINE m == Len(out)
             P == FirstEntries(entries)
             Bad(es, i) == LET e == es[i] IN
                           ~WellTyped(schema[e.key], e.value) \/ ~Fits(schema[e.key], e.value)
             known(es)  == {i \in FirstEntries(es) : es[i].key \in DOMAIN schema}
             bad(es)    == {i \in known(es) : Bad(es, i)}
             Found(es, k) == {i \in known(es) : es[i].key = k}
             fields(es) == [k \in DOMAIN schema |->
                              IF Found(es, k) = {} THEN schema[k].default
                              ELSE es[CHOOSE i \in Found(es, k) : TRUE].value.v]
  <1>1. /\ m \in Nat /\ DOMAIN out = 1..m /\ place \in [1..m -> P]
        /\ \A k \in 1..m : out[k] = entries[place[k]]
        /\ \A k, l \in 1..m : k < l => place[k] < place[l]
        /\ \A i \in P : \E k \in 1..m : place[k] = i
    BY DEF Lists
  <1>2. P \subseteq Nat /\ \A i, l \in P : entries[i].key = entries[l].key => i = l
    <2>1. DOMAIN entries = 1..Len(entries) /\ Len(entries) \in Nat
      OBVIOUS
    <2>2. ASSUME NEW i \in P, NEW l \in P, entries[i].key = entries[l].key, i < l PROVE FALSE
      BY <2>1, <2>2 DEF FirstEntries
    <2>3. P \subseteq Nat
      BY <2>1 DEF FirstEntries
    <2> QED BY <2>2, <2>3
  <1>3. FirstEntries(out) = 1..m
    <2>1. ASSUME NEW k \in 1..m, NEW l \in 1..(k - 1) PROVE out[l].key # out[k].key
      <3>1. l \in 1..m /\ l < k
        BY <1>1
      <3>2. place[l] < place[k] /\ place[l] \in P /\ place[k] \in P
        BY <1>1, <3>1
      <3> QED BY <1>1, <1>2, <3>1, <3>2
    <2> QED BY <1>1, <2>1 DEF FirstEntries
  <1>4. known(out) = {k \in 1..m : place[k] \in known(entries)}
    <2> SUFFICES ASSUME NEW k \in 1..m
                 PROVE  (out[k].key \in DOMAIN schema) <=> (place[k] \in known(entries))
      BY <1>3
    <2> QED BY <1>1
  <1> HIDE DEF P
  <1>5. \A k \in 1..m : Bad(out, k) <=> Bad(entries, place[k])
    BY <1>1
  <1>6. bad(out) = {k \in 1..m : place[k] \in bad(entries)}
    <2> HIDE DEF Bad, known
    <2> QED BY <1>4, <1>5
  <1>7. \A k : Found(out, k) = {l \in 1..m : place[l] \in Found(entries, k)}
    <2> HIDE DEF known
    <2> QED BY <1>1, <1>4
  <1>8. bad(entries) \subseteq P /\ \A k : Found(entries, k) \subseteq P
    BY DEF P
  <1>9. \A k : \A i, l \in Found(entries, k) : i = l
    <2> HIDE DEF known
    <2> QED BY <1>2, <1>8
  <1> DEFINE D(es) == IF from # protocol THEN Err("ForeignExtensions")
                      ELSE IF bad(es) # {}
                           THEN Err(IF WellTyped(schema[es[Min(bad(es))].key], es[Min(bad(es))].value)
                                    THEN "InvalidExtensionValue" ELSE "InvalidExtensionType")
                           ELSE Ok([headers |-> headers, fields |-> fields(es)])
  <1>10. DecodeParts(protocol, schema, from, headers, out) = D(out)
    BY DEF DecodeParts
  <1>11. DecodeParts(protocol, schema, from, headers, entries) = D(entries)
    BY DEF DecodeParts
  <1> HIDE DEF bad
  <1>12. bad(out) = {} <=> bad(entries) = {}
    BY <1>1, <1>6, <1>8
  <1>13. bad(out) # {} => out[Min(bad(out))] = entries[Min(bad(entries))]
    <2> SUFFICES ASSUME bad(out) # {} PROVE out[Min(bad(out))] = entries[Min(bad(entries))]
      OBVIOUS
    <2>1. bad(out) \in SUBSET Nat /\ bad(entries) \in SUBSET Nat /\ bad(entries) # {}
      <3>1. bad(out) \subseteq 1..m
        BY <1>6
      <3>2. bad(entries) \subseteq Nat
        BY <1>2, <1>8
      <3> QED BY <1>1, <1>12, <3>1, <3>2
    <2> DEFINE x == Min(bad(out))
               y == Min(bad(entries))
    <2>2. x \in bad(out) /\ (\A k \in bad(out) : x <= k) /\ y \in bad(entries) /\ (\A i \in bad(entries) : y <= i)
      BY <2>1, MinInside
    <2> HIDE DEF x, y
    <2>3. x \in 1..m /\ place[x] \in bad(entries)
      BY <1>6, <2>2
    <2>4. PICK k \in 1..m : place[k] = y
      BY <1>1, <1>8, <2>2
    <2>5. k \in bad(out) /\ x <= k /\ y <= place[x]
      BY <1>6, <2>2, <2>3, <2>4
    <2>6. ~(x < k)
      <3> SUFFICES ASSUME x < k PROVE FALSE
        OBVIOUS
      <3>1. place[x] < y /\ y \in Nat /\ place[x] \in Nat
        BY <1>1, <2>1, <2>2, <2>3, <2>4
      <3> QED BY <2>5, <3>1
    <2>7. x = k
      BY <1>1, <2>3, <2>4, <2>5, <2>6
    <2> QED BY <1>1, <2>3, <2>4, <2>7 DEF x, y
  <1> HIDE DEF Found
  <1>14. \A k \in DOMAIN schema : fields(out)[k] = fields(entries)[k]
    <2> TAKE k \in DOMAIN schema
    <2>1. Found(out, k) = {} <=> Found(entries, k) = {}
      BY <1>1, <1>7, <1>8
    <2>2. CASE Found(out, k) = {}
      BY <2>1, <2>2
    <2>3. CASE Found(out, k) # {}
      <3> DEFINE x == CHOOSE i \in Found(out, k) : TRUE
                 y == CHOOSE i \in Found(entries, k) : TRUE
      <3>1. x \in Found(out, k) /\ y \in Found(entries, k)
        BY <2>1, <2>3
      <3>2. fields(out)[k] = out[x].value.v /\ fields(entries)[k] = entries[y].value.v
        BY <2>1, <2>3
      <3> HIDE DEF x, y
      <3>3. x \in 1..m /\ place[x] \in Found(entries, k)
        BY <1>7, <3>1
      <3>4. place[x] = y
        BY <1>9, <3>1, <3>3
      <3>5. out[x] = entries[y]
        BY <1>1, <3>3, <3>4
      <3> QED BY <3>2, <3>5
    <2> QED BY <2>2, <2>3
  <1>15. fields(out) = fields(entries)
    BY <1>14
  <1> HIDE DEF fields
  <1>16. D(out) = D(entries)
    BY <1>12, <1>13, <1>15
  <1> QED BY <1>10, <1>11, <1>16

\* A capture without its later entries.
FirstsOf(e) == [e EXCEPT !.entries = FirstOnly(e.entries)]

\* Two captures that no view tells apart.
SameViews(a, b) == \A protocol, schema : ViewOf(protocol, schema, a) = ViewOf(protocol, schema, b)

\* ... and of which the bridge carries the same.
SameCarried(a, b) ==
    \A headers : /\ CaptureWithHeaders(a, headers).headers = CaptureWithHeaders(b, headers).headers
                 /\ SameViews(CaptureWithHeaders(a, headers).transport, CaptureWithHeaders(b, headers).transport)

\* A command and the same command without the later entries of its capture.
LEMMA SameWithFirsts ==
    ASSUME NEW c, WellFormed(c), c.extensions # None, NEW d,
           d = [c EXCEPT !.extensions = FirstsOf(c.extensions)]
    PROVE  /\ \A f \in CommandFields \ {"extensions"} : d[f] = c[f]
           /\ SameViews(d.extensions, c.extensions)
           /\ SameCarried(d.extensions, c.extensions)
  <1> DEFINE t == c.extensions
             out == FirstOnly(t.entries)
             Variant(h, es) == [protocol |-> t.protocol, headers |-> h, entries |-> es]
  <1>1. DOMAIN c = CommandFields /\ DOMAIN t = {"protocol", "headers", "entries"} /\ IsList(t.entries)
    BY DEF WellFormed
  <1>2. t.entries \in Seq(ToSet(t.entries))
    BY <1>1 DEF IsList
  <1>3. PICK place : Lists(out, place, t.entries, FirstEntries(t.entries))
    BY <1>2, FirstOnlyLists
  <1> HIDE DEF out
  <1>4. d.extensions = [t EXCEPT !.entries = out] /\ \A f \in CommandFields \ {"extensions"} : d[f] = c[f]
    BY <1>1 DEF CommandFields, FirstsOf, out
  <1>5. d.extensions = Variant(t.headers, out)
    BY <1>1, <1>4
  <1>6. ASSUME NEW h \in {None, t.headers}
        PROVE  Variant(h, t.entries) # None /\ Variant(h, out) # None
    BY DEF WellFormed, CaptureVariants, out
  <1>7. ASSUME NEW protocol, NEW schema, NEW h \in {None, t.headers}
        PROVE  ViewOf(protocol, schema, Variant(h, out)) = ViewOf(protocol, schema, Variant(h, t.entries))
    <2>1. DecodeParts(protocol, schema, t.protocol, h, out) = DecodeParts(protocol, schema, t.protocol, h, t.entries)
      BY <1>2, <1>3, FirstsDecodeAlike
    <2>2. DecodeView(protocol, schema, Variant(h, out)) = DecodeParts(protocol, schema, t.protocol, h, out)
      BY ViewByParts
    <2>3. DecodeView(protocol, schema, Variant(h, t.entries)) = DecodeParts(protocol, schema, t.protocol, h, t.entries)
      BY ViewByParts
    <2> QED BY <1>6, <2>1, <2>2, <2>3 DEF ViewOf
  <1>8. SplitCaptureHeaders(t) = [transport |-> Variant(None, t.entries),
                                  headers |-> IF t.headers = <<>> THEN None ELSE t.headers]
    <2>1. [t EXCEPT !.headers = None] = Variant(None, t.entries)
      BY <1>1
    <2> QED BY <2>1 DEF SplitCaptureHeaders
  <1>9. SplitCaptureHeaders(d.extensions) = [transport |-> Variant(None, out),
                                             headers |-> IF t.headers = <<>> THEN None ELSE t.headers]
    <2>1. d.extensions # None /\ d.extensions.headers = t.headers
      BY <1>5, <1>6
    <2>2. [d.extensions EXCEPT !.headers = None] = Variant(None, out)
      BY <1>5
    <2> QED BY <2>1, <2>2 DEF SplitCaptureHeaders
  <1>10. SameViews(d.extensions, t)
    <2> SUFFICES ASSUME NEW protocol, NEW schema
                 PROVE  ViewOf(protocol, schema, d.extensions) = ViewOf(protocol, schema, t)
      BY DEF SameViews
    <2>1. DecodeView(protocol, schema, Variant(t.headers, t.entries)) = DecodeView(protocol, schema, t)
      BY ViewByParts
    <2>2. ViewOf(protocol, schema, Variant(t.headers, t.entries)) = ViewOf(protocol, schema, t)
      BY <1>6, <2>1 DEF ViewOf
    <2> QED BY <1>5, <1>7, <2>2
  <1>11. ASSUME NEW headers
         PROVE  LET with == CaptureWithHeaders(c.extensions, headers)
                    less == CaptureWithHeaders(d.extensions, headers)
                IN  less.headers = with.headers /\ SameViews(less.transport, with.transport)
    <2> HIDE DEF Variant
    <2>1. /\ CaptureWithHeaders(c.extensions, headers).transport = Variant(None, t.entries)
          /\ CaptureWithHeaders(d.extensions, headers).transport = Variant(None, out)
          /\ CaptureWithHeaders(d.extensions, headers).headers = CaptureWithHeaders(c.extensions, headers).headers
      BY <1>8, <1>9 DEF CaptureWithHeaders
    <2>2. SameViews(Variant(None, out), Variant(None, t.entries))
      BY <1>7 DEF SameViews
    <2> QED BY <2>1, <2>2
  <1>12. SameCarried(d.extensions, t)
    BY <1>11 DEF SameCarried
  <1> QED BY <1>4, <1>10, <1>12

\* HTTP reads no more of a capture.
LEMMA HttpSameWithFirsts ==
    ASSUME NEW c, WellFormed(c), c.extensions # None, NEW d,
           d = [c EXCEPT !.extensions = FirstsOf(c.extensions)]
    PROVE  HttpNativeRequest(d) = HttpNativeRequest(c) /\ HttpBridgeRequest(d) = HttpBridgeRequest(c)
  <1>1. \A f \in CommandFields \ {"extensions"} : d[f] = c[f]
    BY SameWithFirsts
  <1>2. /\ d.intent = c.intent /\ d.target = c.target /\ d.payload = c.payload /\ d.method = c.method
        /\ d.path = c.path /\ d.content_type = c.content_type /\ d.headers = c.headers /\ d.id = c.id
        /\ d.correlation = c.correlation
    BY <1>1 DEF CommandFields
  <1>3. HttpView(d.extensions) = HttpView(c.extensions)
    <2>1. SameViews(d.extensions, c.extensions)
      BY SameWithFirsts
    <2>2. ViewOf("HTTP", HttpSchema, d.extensions) = ViewOf("HTTP", HttpSchema, c.extensions)
      BY <2>1, Zenon DEF SameViews
    <2> QED BY <2>2 DEF HttpView
  <1>4. HttpNativePlan(d) = HttpNativePlan(c)
    BY <1>2, <1>3 DEF HttpNativePlan
  <1> DEFINE with == CaptureWithHeaders(c.extensions, c.headers)
             less == CaptureWithHeaders(d.extensions, c.headers)
             Plain(carried) == BridgeCommand(c, "RequestResponse", c.intent,
                                             IF c.intent = "Read" THEN None ELSE c.payload, carried)
             Message(carried) == [Plain(carried) EXCEPT !.method = c.method, !.content_type = c.content_type,
                                                        !.path = c.path]
  <1>5. less.headers = with.headers /\ HttpView(less.transport) = HttpView(with.transport)
    <2>0. SameCarried(d.extensions, c.extensions)
      BY SameWithFirsts
    <2>1. less.headers = with.headers /\ SameViews(less.transport, with.transport)
      BY <2>0, Zenon DEF SameCarried
    <2>2. ViewOf("HTTP", HttpSchema, less.transport) = ViewOf("HTTP", HttpSchema, with.transport)
      BY <2>1, Zenon DEF SameViews
    <2> QED BY <2>1, <2>2 DEF HttpView
  <1>6. CASE c.intent \notin RequestIntents
    BY <1>2, <1>4, <1>6 DEF HttpNativeRequest, HttpBridgeRequest, CommandToRequestResponse, Then, Err
  <1>7. CASE c.intent \in RequestIntents
    <2> HIDE DEF with, less
    <2>1. CommandToRequestResponse(c) = Ok(Message(with)) /\ CommandToRequestResponse(d) = Ok(Message(less))
      BY <1>2, <1>7 DEF CommandToRequestResponse, BridgeCommand, with, less
    <2>2. ASSUME NEW carried
          PROVE  /\ Message(carried).op = "RequestResponse" /\ Message(carried).target = c.target
                 /\ Message(carried).payload = (IF c.intent = "Read" THEN None ELSE c.payload)
                 /\ Message(carried).method = c.method /\ Message(carried).content_type = c.content_type
                 /\ Message(carried).path = c.path
                 /\ Message(carried).transport = carried.transport /\ Message(carried).headers = carried.headers
      BY DEF BridgeCommand
    <2> HIDE DEF Message
    <2>3. HttpPlanFromBridge(Message(less)) = HttpPlanFromBridge(Message(with))
      <3>1. /\ Message(less).op = Message(with).op /\ Message(less).target = Message(with).target
            /\ Message(less).payload = Message(with).payload /\ Message(less).method = Message(with).method
            /\ Message(less).content_type = Message(with).content_type
            /\ Message(less).path = Message(with).path /\ Message(less).headers = Message(with).headers
            /\ HttpView(Message(less).transport) = HttpView(Message(with).transport)
        BY <1>5, <2>2
      <3> QED BY <3>1 DEF HttpPlanFromBridge
    <2>4. Then(CommandToRequestResponse(c), HttpPlanFromBridge) = HttpPlanFromBridge(Message(with))
      BY <2>1 DEF Then, Ok
    <2>5. Then(CommandToRequestResponse(d), HttpPlanFromBridge) = HttpPlanFromBridge(Message(less))
      BY <2>1 DEF Then, Ok
    <2> QED BY <1>4, <2>3, <2>4, <2>5 DEF HttpNativeRequest, HttpBridgeRequest
  <1> QED BY <1>6, <1>7

\* MQTT reads no more of a capture, on either path.
LEMMA MqttSameWithFirsts ==
    ASSUME NEW c, WellFormed(c), c.extensions # None, NEW d,
           d = [c EXCEPT !.extensions = FirstsOf(c.extensions)]
    PROVE  MqttNativeView(d) = MqttNativeView(c) /\ MqttBridgeView(d) = MqttBridgeView(c)
  <1>1. \A f \in CommandFields \ {"extensions"} : d[f] = c[f]
    BY SameWithFirsts
  <1>2. /\ d.intent = c.intent /\ d.target = c.target /\ d.kind = c.kind /\ d.payload = c.payload
        /\ d.delivery = c.delivery /\ d.durable_name = c.durable_name /\ d.shared_group = c.shared_group
        /\ d.headers = c.headers /\ d.id = c.id /\ d.correlation = c.correlation
    BY <1>1 DEF CommandFields
  <1>3. MqttView(d.extensions) = MqttView(c.extensions)
    <2>1. SameViews(d.extensions, c.extensions)
      BY SameWithFirsts
    <2>2. ViewOf("MQTT", MqttSchema, d.extensions) = ViewOf("MQTT", MqttSchema, c.extensions)
      BY <2>1, Zenon DEF SameViews
    <2> QED BY <2>2 DEF MqttView
  <1>4. SupportedKind(d) <=> SupportedKind(c)
    BY <1>2 DEF SupportedKind
  <1>5. MqttNativeView(d) = MqttNativeView(c)
    BY <1>2, <1>3, <1>4 DEF MqttNativeView, Then
  <1>6. ASSUME NEW headers
        PROVE  LET with == CaptureWithHeaders(c.extensions, headers)
                   less == CaptureWithHeaders(d.extensions, headers)
               IN  less.headers = with.headers /\ MqttView(less.transport) = MqttView(with.transport)
    <2> DEFINE with == CaptureWithHeaders(c.extensions, headers)
               less == CaptureWithHeaders(d.extensions, headers)
    <2>1. SameCarried(d.extensions, c.extensions)
      BY SameWithFirsts
    <2>2. less.headers = with.headers /\ SameViews(less.transport, with.transport)
      BY <2>1, Zenon DEF SameCarried
    <2> HIDE DEF with, less
    <2>3. ViewOf("MQTT", MqttSchema, less.transport) = ViewOf("MQTT", MqttSchema, with.transport)
      BY <2>2, Zenon DEF SameViews
    <2>4. less.headers = with.headers /\ MqttView(less.transport) = MqttView(with.transport)
      BY <2>2, <2>3 DEF MqttView
    <2> QED BY <2>4 DEF with, less
  <1>7. CASE c.intent = "Send"
    <2> DEFINE M(carried) == [BridgeCommand(c, "Messaging", "Publish", c.payload, carried)
                                EXCEPT !.delivery = c.delivery]
               with == CaptureWithHeaders(c.extensions, c.headers)
               less == CaptureWithHeaders(d.extensions, c.headers)
    <2>1. CommandToMessaging(c) = Ok(M(with))
      BY <1>7 DEF CommandToMessaging
    <2>2. CommandToMessaging(d) = Ok(M(less))
      BY <1>2, <1>7 DEF CommandToMessaging, BridgeCommand
    <2>3. ASSUME NEW carried
          PROVE  LET b == M(carried) IN
                 /\ b.action = "Publish" /\ b.id = c.id /\ b.target = c.target /\ b.payload = c.payload
                 /\ b.delivery = c.delivery /\ b.correlation = c.correlation
                 /\ b.transport = carried.transport /\ b.headers = carried.headers
      BY DEF BridgeCommand
    <2>4. less.headers = with.headers /\ MqttView(less.transport) = MqttView(with.transport)
      BY <1>6
    <2> HIDE DEF M, with, less
    <2>5. ReadBridge(M(less)) = ReadBridge(M(with))
      <3>1. /\ M(less).action = M(with).action /\ M(less).id = M(with).id /\ M(less).target = M(with).target
            /\ M(less).payload = M(with).payload /\ M(less).delivery = M(with).delivery
            /\ M(less).correlation = M(with).correlation /\ M(less).headers = M(with).headers
            /\ MqttView(M(less).transport) = MqttView(M(with).transport) /\ M(with).action = "Publish"
        BY <2>3, <2>4
      <3> QED BY <3>1 DEF ReadBridge, Then
    <2>6. c.intent \in MessagingIntents /\ d.intent \in MessagingIntents
      BY <1>2, <1>7 DEF MessagingIntents
    <2>7. MqttBridgeView(c) = IF ~SupportedKind(c) THEN Err("UnsupportedChannelKind") ELSE ReadBridge(M(with))
      BY <2>1, <2>6, ReadThroughBridge
    <2>8. MqttBridgeView(d) = IF ~SupportedKind(d) THEN Err("UnsupportedChannelKind") ELSE ReadBridge(M(less))
      BY <2>2, <2>6, ReadThroughBridge
    <2> QED BY <1>4, <1>5, <2>5, <2>7, <2>8
  <1>8. CASE c.intent = "Subscribe"
    <2> DEFINE M(carried) == [BridgeCommand(c, "Messaging", "Subscribe", None, carried)
                                EXCEPT !.delivery = c.delivery, !.durable_name = c.durable_name,
                                       !.shared_group = c.shared_group]
               with == CaptureWithHeaders(c.extensions, <<>>)
               less == CaptureWithHeaders(d.extensions, <<>>)
    <2>1. CommandToMessaging(c) = Ok(M(with))
      BY <1>8 DEF CommandToMessaging
    <2>2. CommandToMessaging(d) = Ok(M(less))
      BY <1>2, <1>8 DEF CommandToMessaging, BridgeCommand
    <2>3. ASSUME NEW carried
          PROVE  LET b == M(carried) IN
                 /\ b.action = "Subscribe" /\ b.id = c.id /\ b.target = c.target
                 /\ b.delivery = c.delivery /\ b.durable_name = c.durable_name /\ b.shared_group = c.shared_group
                 /\ b.transport = carried.transport /\ b.headers = carried.headers
      BY DEF BridgeCommand
    <2>4. less.headers = with.headers /\ MqttView(less.transport) = MqttView(with.transport)
      BY <1>6
    <2> HIDE DEF M, with, less
    <2>5. ReadBridge(M(less)) = ReadBridge(M(with))
      <3>1. /\ M(less).action = M(with).action /\ M(less).id = M(with).id /\ M(less).target = M(with).target
            /\ M(less).delivery = M(with).delivery /\ M(less).durable_name = M(with).durable_name
            /\ M(less).shared_group = M(with).shared_group /\ M(less).headers = M(with).headers
            /\ MqttView(M(less).transport) = MqttView(M(with).transport) /\ M(with).action = "Subscribe"
        BY <2>3, <2>4
      <3> QED BY <3>1 DEF ReadBridge, Then
    <2>6. c.intent \in MessagingIntents /\ d.intent \in MessagingIntents
      BY <1>2, <1>8 DEF MessagingIntents
    <2>7. MqttBridgeView(c) = IF ~SupportedKind(c) THEN Err("UnsupportedChannelKind") ELSE ReadBridge(M(with))
      BY <2>1, <2>6, ReadThroughBridge
    <2>8. MqttBridgeView(d) = IF ~SupportedKind(d) THEN Err("UnsupportedChannelKind") ELSE ReadBridge(M(less))
      BY <2>2, <2>6, ReadThroughBridge
    <2> QED BY <1>4, <1>5, <2>5, <2>7, <2>8
  <1>9. CASE c.intent \notin {"Send", "Subscribe"}
    BY <1>2, <1>4, <1>5, <1>9 DEF MqttBridgeView, CommandToMessaging, BridgeCommand
  <1> QED BY <1>7, <1>8, <1>9

\* Zenoh and Modbus read nothing of a capture.
LEMMA OthersSameWithFirsts ==
    ASSUME NEW c, WellFormed(c), c.extensions # None, NEW d,
           d = [c EXCEPT !.extensions = FirstsOf(c.extensions)]
    PROVE  /\ ZenohNativeRequest(d) = ZenohNativeRequest(c) /\ ZenohBridgeRequest(d) = ZenohBridgeRequest(c)
           /\ ModbusNativeRequest(d) = ModbusNativeRequest(c) /\ ModbusBridgeRequest(d) = ModbusBridgeRequest(c)
  <1>1. \A f \in CommandFields \ {"extensions"} : d[f] = c[f]
    BY SameWithFirsts
  <1>2. /\ d.intent = c.intent /\ d.target = c.target /\ d.kind = c.kind /\ d.payload = c.payload
        /\ d.delivery = c.delivery /\ d.durable_name = c.durable_name /\ d.shared_group = c.shared_group
        /\ d.headers = c.headers /\ d.id = c.id /\ d.correlation = c.correlation
    BY <1>1 DEF CommandFields
  <1>3. ModbusNativeRequest(d) = ModbusNativeRequest(c)
    BY <1>2 DEF ModbusNativeRequest, ModbusNativePlan
  <1>4. ModbusBridgeRequest(d) = ModbusBridgeRequest(c)
    BY <1>3, ModbusPathsAlike
  <1>5. ZenohNativeRequest(d) = ZenohNativeRequest(c)
    BY <1>2 DEF ZenohNativeRequest, ZenohPlan
  <1>6. ZenohBridgeRequest(d) = ZenohBridgeRequest(c)
    <2>1. CASE c.intent \in MessagingIntents
      <3>1. CASE c.intent = "Send"
        <4> DEFINE M(x) == [BridgeCommand(c, "Messaging", "Publish", c.payload,
                                          CaptureWithHeaders(x.extensions, c.headers))
                              EXCEPT !.delivery = c.delivery]
        <4>1. CommandToMessaging(c) = Ok(M(c))
          BY <3>1 DEF CommandToMessaging
        <4>2. CommandToMessaging(d) = Ok(M(d))
          BY <1>2, <3>1 DEF CommandToMessaging, BridgeCommand
        <4>3. ASSUME NEW x
              PROVE  /\ M(x).op = "Messaging" /\ M(x).action = "Publish" /\ M(x).id = c.id
                     /\ M(x).target = c.target /\ M(x).payload = c.payload
          BY DEF BridgeCommand
        <4> HIDE DEF M
        <4>4. ZenohEncodeBridge(M(d)) = ZenohEncodeBridge(M(c))
          BY <4>3 DEF ZenohEncodeBridge
        <4>5. ZenohBridgeRequest(c) = ZenohEncodeBridge(M(c)) /\ ZenohBridgeRequest(d) = ZenohEncodeBridge(M(d))
          BY <1>2, <2>1, <4>1, <4>2 DEF ZenohBridgeRequest, Then, Ok
        <4> QED BY <4>4, <4>5
      <3>2. CASE c.intent = "Subscribe"
        BY <1>2, <3>2 DEF ZenohBridgeRequest, ZenohEncodeBridge, CommandToMessaging, BridgeCommand,
           MessagingIntents, Then, Ok
      <3>3. CASE c.intent = "Unsubscribe"
        BY <1>2, <3>3 DEF ZenohBridgeRequest, ZenohEncodeBridge, CommandToMessaging, BridgeCommand,
           MessagingIntents, Then, Ok
      <3> QED BY <2>1, <3>1, <3>2, <3>3 DEF MessagingIntents
    <2>2. CASE c.intent \notin MessagingIntents
      BY <1>2, <2>2 DEF ZenohBridgeRequest, ZenohEncodeBridge, CommandToRequestResponse, BridgeCommand, Then, Ok
    <2> QED BY <2>1, <2>2
  <1> QED BY <1>3, <1>4, <1>5, <1>6

\* "First occurrence wins on every path": whatever a capture holds, the entries after
\* the first under a key change nothing of any driver's request, on either path.
THEOREM FirstOccurrenceWinsAlways == Spec => []FirstOccurrenceWins
  <1>1. Planned => FirstOccurrenceWins
    <2> DEFINE c == job.command
               k == [job EXCEPT !.command.extensions.entries = FirstOnly(@)]
               d == k.command
    <2> SUFFICES ASSUME Planned, request # None, c.extensions # None
                 PROVE  RequestOn(path, job) = RequestOn(path, k)
      BY DEF FirstOccurrenceWins, Planned
    <2>1. /\ WellFormed(c) /\ "command" \in DOMAIN job /\ "driver" \in DOMAIN job
          /\ job.driver = "MQTT" => "version" \in DOMAIN job
          /\ path \in {"native", "bridge"} /\ job.driver \in {"HTTP", "MQTT", "Zenoh", "Modbus"}
      BY JobOfDriver, ExchangeAssumptions DEF Planned
    <2>2. k.driver = job.driver /\ (job.driver = "MQTT" => k.version = job.version)
      BY <2>1
    <2>3. d = [c EXCEPT !.extensions = FirstsOf(c.extensions)]
      BY <2>1 DEF FirstsOf
    <2> HIDE DEF c, d, k
    <2>4. CASE job.driver = "HTTP"
      BY <2>1, <2>2, <2>3, <2>4, HttpSameWithFirsts DEF RequestOn, c, d
    <2>5. CASE job.driver = "MQTT"
      <3>1. MqttNativeView(d) = MqttNativeView(c) /\ MqttBridgeView(d) = MqttBridgeView(c)
        BY <2>1, <2>3, MqttSameWithFirsts
      <3>2. ASSUME NEW v
            PROVE  MqttNativeRequest(d, v) = MqttNativeRequest(c, v) /\ MqttBridgeRequest(d, v) = MqttBridgeRequest(c, v)
        BY <3>1 DEF MqttNativeRequest, MqttBridgeRequest
      <3> QED BY <2>2, <2>5, <3>2 DEF RequestOn, c, d
    <2>6. CASE job.driver \in {"Zenoh", "Modbus"}
      BY <2>1, <2>2, <2>3, <2>6, OthersSameWithFirsts DEF RequestOn, c, d
    <2> QED BY <2>1, <2>4, <2>5, <2>6
  <1> QED BY <1>1, PlannedAlways, PTL

-----------------------------------------------------------------------------
(* Headers of an HTTP request.                                             *)

\* HttpRequestEncoder::encode merges the planned headers into the resource's.
MergeAll(own, list) == FoldLeft(MergeHeader, own, list)

MergeFold(it, own, list) ==
    it = [s \in SUBSET DOMAIN list |->
            IF s = {} THEN own ELSE MergeHeader(it[s \ {Max(s)}], list[Max(s)])]

LEMMA MergeByPlaces ==
    ASSUME NEW own, NEW list
    PROVE  MergeAll(own, list) = (CHOOSE it : MergeFold(it, own, list))[DOMAIN list]
  BY DEF MergeAll, FoldLeft, MapThenFoldSet, MergeFold

\* A merged header is of the list, or replaces one of it.
LEMMA MergeStays ==
    ASSUME NEW E, NEW hs \in Seq(E), NEW h \in E
    PROVE  MergeHeader(hs, h) \in Seq(E)
  <1> DEFINE at == {i \in DOMAIN hs : hs[i].key.name = h.key.name}
  <1>1. CASE at = {}
    BY <1>1 DEF MergeHeader
  <1>2. CASE at # {}
    <2>1. MergeHeader(hs, h) = [hs EXCEPT ![Min(at)] = h]
      BY <1>2 DEF MergeHeader
    <2>2. Len(hs) \in Nat /\ hs \in [1..Len(hs) -> E]
      OBVIOUS
    <2>3. [hs EXCEPT ![Min(at)] = h] \in [1..Len(hs) -> E]
      BY <2>2
    <2>4. [1..Len(hs) -> E] \subseteq Seq(E)
      BY <2>2
    <2> QED BY <2>1, <2>3, <2>4
  <1> QED BY <1>1, <1>2

\* The headers are merged one by one.
LEMMA MergeSteps ==
    ASSUME NEW E, NEW own \in Seq(E), NEW n \in Nat, NEW list \in [1..n -> E]
    PROVE  \E a : /\ a[0] = own /\ MergeAll(own, list) = a[n]
                  /\ \A j \in 1..n : a[j] = MergeHeader(a[j - 1], list[j])
  <1> DEFINE S == Seq(E)
             F == [x \in S \X E |-> MergeHeader(x[1], x[2])]
  <1>1. DOMAIN list = 1..n /\ own \in S
    OBVIOUS
  <1>2. \A hs \in S, h \in E : MergeHeader(hs, h) \in S /\ F[<<hs, h>>] = MergeHeader(hs, h)
    BY MergeStays
  <1>3. F \in [S \X E -> S]
    BY <1>2
  <1> HIDE DEF F, S
  <1>4. PICK it : PlaceFold(it, S, F, own, n, list)
    BY <1>1, <1>3, FoldExists, Zenon
  <1>5. \A s \in SUBSET (1..n) :
          it[s] = IF s = {} THEN own ELSE MergeHeader(it[s \ {Max(s)}], list[Max(s)])
    <2> TAKE s \in SUBSET (1..n)
    <2>1. ASSUME s # {} PROVE Max(s) \in 1..n
      BY <2>1, MaxInside
    <2>2. ASSUME s # {} PROVE it[s \ {Max(s)}] \in S /\ list[Max(s)] \in E
      BY <1>4, <2>1, <2>2 DEF PlaceFold
    <2> QED BY <1>2, <1>4, <2>2 DEF PlaceFold
  <1>6. MergeFold(it, own, list)
    BY <1>1, <1>4, <1>5 DEF MergeFold, PlaceFold
  <1> DEFINE c == CHOOSE x : MergeFold(x, own, list)
             a == [j \in 0..n |-> c[1..j]]
  <1>7. MergeFold(c, own, list)
    BY <1>6
  <1>8. MergeAll(own, list) = c[1..n]
    BY <1>1, MergeByPlaces
  <1> HIDE DEF c
  <1>9. \A s \in SUBSET (1..n) :
          c[s] = IF s = {} THEN own ELSE MergeHeader(c[s \ {Max(s)}], list[Max(s)])
    BY <1>1, <1>7 DEF MergeFold
  <1>10. a[0] = own
    <2>1. 1..0 = {} /\ 0 \in 0..n OBVIOUS
    <2> QED BY <1>9, <2>1
  <1>11. \A j \in 1..n : a[j] = MergeHeader(a[j - 1], list[j])
    <2> TAKE j \in 1..n
    <2>0. j \in Nat \ {0} OBVIOUS
    <2>1. 1..j # {} /\ Max(1..j) = j /\ (1..j) \ {j} = 1..(j - 1)
      BY <2>0, PrefixOfPlaces
    <2>2. 1..j \in SUBSET (1..n) /\ j \in 0..n /\ j - 1 \in 0..n
      OBVIOUS
    <2> QED BY <1>9, <2>1, <2>2
  <1>12. a[n] = c[1..n]
    OBVIOUS
  <1> QED BY <1>8, <1>10, <1>11, <1>12

\* The first j planned headers of a name.
NamedTo(list, j, n) == {i \in 1..j : list[i].key.name = n}

\* After j headers of the list are merged: a name stands where the resource has it, or
\* once if it was merged, and its first value is the last one merged.
Merged(hs, own, list, j) ==
    \A n : /\ Named(own, n) # {} => Named(hs, n) = Named(own, n)
           /\ Named(own, n) = {} /\ NamedTo(list, j, n) = {} => Named(hs, n) = {}
           /\ Named(own, n) = {} /\ NamedTo(list, j, n) # {} => \E x : Named(hs, n) = {x}
           /\ NamedTo(list, j, n) # {} =>
                HeaderValue(hs, n) = list[Max(NamedTo(list, j, n))].value

\* One merge leaves other names as they are and puts the header under its own.
LEMMA MergeOne ==
    ASSUME NEW E, NEW hs \in Seq(E), NEW h \in E, NEW n
    PROVE  LET new == MergeHeader(hs, h) IN
           /\ n # h.key.name => Named(new, n) = Named(hs, n) /\ HeaderValue(new, n) = HeaderValue(hs, n)
           /\ n = h.key.name => /\ HeaderValue(new, n) = h.value
                                /\ IF Named(hs, n) = {} THEN \E x : Named(new, n) = {x}
                                   ELSE Named(new, n) = Named(hs, n)
  <1> DEFINE m == h.key.name
             at == Named(hs, m)
             new == MergeHeader(hs, h)
             l == Len(hs)
  <1>0. l \in Nat /\ DOMAIN hs = 1..l /\ \A k : Named(hs, k) \in SUBSET Nat /\ Named(hs, k) \subseteq 1..l
    BY DEF Named
  <1>1. ASSUME NEW k, NEW s PROVE HeaderValue(s, k) = IF Named(s, k) = {} THEN None ELSE s[Min(Named(s, k))].value
    BY DEF HeaderValue, Named
  <1>2. CASE at = {}
    <2>1. new = Append(hs, h)
      BY <1>2 DEF MergeHeader, Named
    <2>2. DOMAIN new = 1..(l + 1) /\ new[l + 1] = h /\ \A i \in 1..l : new[i] = hs[i]
      BY <1>0, <2>1
    <2> HIDE DEF new
    <2>3. ASSUME n # m PROVE Named(new, n) = Named(hs, n)
      BY <1>0, <2>2, <2>3 DEF Named
    <2>4. ASSUME n # m PROVE HeaderValue(new, n) = HeaderValue(hs, n)
      <3>1. Named(hs, n) # {} => Min(Named(hs, n)) \in 1..l
        BY <1>0, MinInside
      <3> QED BY <1>1, <2>2, <2>3, <2>4, <3>1
    <2>5. Named(new, m) = {l + 1}
      BY <1>0, <1>2, <2>2 DEF Named
    <2>6. HeaderValue(new, m) = h.value
      <3>1. Min({l + 1}) = l + 1
        BY <1>0 DEF Min
      <3> QED BY <1>1, <2>2, <2>5, <3>1
    <2> QED BY <1>2, <2>3, <2>4, <2>5, <2>6 DEF new
  <1>3. CASE at # {}
    <2> DEFINE p == Min(at)
    <2>1. p \in at /\ \A y \in at : p <= y
      BY <1>0, <1>3, MinInside
    <2>2. new = [hs EXCEPT ![p] = h]
      BY <1>3 DEF MergeHeader, Named
    <2> HIDE DEF p
    <2>3. p \in 1..l /\ hs[p].key.name = m
      BY <1>0, <2>1 DEF Named
    <2>4. DOMAIN new = 1..l /\ new[p] = h /\ \A i \in 1..l : i # p => new[i] = hs[i]
      BY <1>0, <2>2, <2>3
    <2> HIDE DEF new
    <2>5. Named(new, n) = Named(hs, n) /\ Named(new, m) = at
      <3>1. \A i \in 1..l : new[i].key.name = hs[i].key.name
        BY <2>3, <2>4
      <3> QED BY <1>0, <2>4, <3>1 DEF Named
    <2>6. ASSUME n # m PROVE HeaderValue(new, n) = HeaderValue(hs, n)
      <3>1. ASSUME Named(hs, n) # {} PROVE Min(Named(hs, n)) \in Named(hs, n)
        BY <1>0, <3>1, MinInside
      <3>2. \A i \in Named(hs, n) : i \in 1..l /\ i # p
        BY <1>0, <2>3, <2>6 DEF Named
      <3> QED BY <1>1, <2>4, <2>5, <3>1, <3>2
    <2>7. HeaderValue(new, m) = h.value
      BY <1>1, <1>3, <2>4, <2>5 DEF p
    <2> QED BY <1>3, <2>5, <2>6, <2>7 DEF new
  <1> QED BY <1>2, <1>3

\* One header more.
LEMMA MergedOneMore ==
    ASSUME NEW E, NEW own \in Seq(E), NEW l \in Nat, NEW list \in [1..l -> E], NEW j \in 1..l,
           NEW hs \in Seq(E), Merged(hs, own, list, j - 1)
    PROVE  Merged(MergeHeader(hs, list[j]), own, list, j)
  <1> DEFINE h == list[j]
             m == h.key.name
             new == MergeHeader(hs, h)
  <1>0. h \in E
    OBVIOUS
  <1> SUFFICES ASSUME NEW n
               PROVE  /\ Named(own, n) # {} => Named(new, n) = Named(own, n)
                      /\ Named(own, n) = {} /\ NamedTo(list, j, n) = {} => Named(new, n) = {}
                      /\ Named(own, n) = {} /\ NamedTo(list, j, n) # {} => \E x : Named(new, n) = {x}
                      /\ NamedTo(list, j, n) # {} =>
                           HeaderValue(new, n) = list[Max(NamedTo(list, j, n))].value
    BY DEF Merged
  <1>1. /\ Named(own, n) # {} => Named(hs, n) = Named(own, n)
        /\ Named(own, n) = {} /\ NamedTo(list, j - 1, n) = {} => Named(hs, n) = {}
        /\ Named(own, n) = {} /\ NamedTo(list, j - 1, n) # {} => \E x : Named(hs, n) = {x}
        /\ NamedTo(list, j - 1, n) # {} =>
             HeaderValue(hs, n) = list[Max(NamedTo(list, j - 1, n))].value
    BY DEF Merged
  <1>2. /\ n # m => Named(new, n) = Named(hs, n) /\ HeaderValue(new, n) = HeaderValue(hs, n)
        /\ n = m => /\ HeaderValue(new, n) = h.value
                    /\ IF Named(hs, n) = {} THEN \E x : Named(new, n) = {x}
                       ELSE Named(new, n) = Named(hs, n)
    BY <1>0, MergeOne
  <1> HIDE DEF new
  <1>3. CASE n # m
    <2>1. NamedTo(list, j, n) = NamedTo(list, j - 1, n)
      BY <1>3 DEF NamedTo
    <2> QED BY <1>1, <1>2, <1>3, <2>1
  <1>4. CASE n = m
    <2>1. j \in NamedTo(list, j, n) /\ NamedTo(list, j, n) \in SUBSET (1..((j - 1) + 1)) /\ j - 1 \in Nat
      BY <1>4 DEF NamedTo
    <2>2. (j - 1) + 1 = j
      OBVIOUS
    <2>3. Max(NamedTo(list, j, n)) = j
      BY <2>1, <2>2, MaxOfPrefix
    <2>4. HeaderValue(new, n) = list[Max(NamedTo(list, j, n))].value
      BY <1>2, <1>4, <2>3
    <2>5. Named(own, n) # {} => Named(new, n) = Named(own, n)
      BY <1>1, <1>2, <1>4
    <2>6. Named(own, n) = {} => \E x : Named(new, n) = {x}
      BY <1>1, <1>2, <1>4
    <2> QED BY <2>1, <2>4, <2>5, <2>6
  <1> QED BY <1>3, <1>4

\* The request's headers, all of them merged.
LEMMA MergedAll ==
    ASSUME NEW E, NEW own \in Seq(E), NEW list \in Seq(E)
    PROVE  Merged(MergeAll(own, list), own, list, Len(list))
  <1> DEFINE l == Len(list)
  <1>1. l \in Nat /\ list \in [1..l -> E]
    OBVIOUS
  <1> HIDE DEF l
  <1>2. PICK a : /\ a[0] = own /\ MergeAll(own, list) = a[l]
                 /\ \A j \in 1..l : a[j] = MergeHeader(a[j - 1], list[j])
    <2>1. \E a : /\ a[0] = own /\ MergeAll(own, list) = a[l]
                 /\ \A j \in 1..l : a[j] = MergeHeader(a[j - 1], list[j])
      BY <1>1, MergeSteps, SMTT(60)
    <2> QED BY <2>1, Zenon
  <1> USE DEF l
  <1> DEFINE Good(j) == a[j] \in Seq(E) /\ Merged(a[j], own, list, j)
             Not == {j \in 0..l : ~Good(j)}
  <1>3. Not = {}
    <2> SUFFICES ASSUME Not # {} PROVE FALSE
      OBVIOUS
    <2>0. Not \in SUBSET Nat OBVIOUS
    <2>1. PICK j \in Not : \A k \in Nat : k < j => k \notin Not
      BY <2>0, LeastOf
    <2>2. CASE j = 0
      <3>1. \A n : NamedTo(list, 0, n) = {}
        BY DEF NamedTo
      <3>2. Merged(own, own, list, 0)
        BY <3>1 DEF Merged
      <3> QED BY <1>2, <2>1, <2>2, <3>2
    <2>3. CASE j # 0
      <3>1. j \in 1..l /\ j - 1 \in 0..l /\ j - 1 < j /\ j - 1 \in Nat
        BY <1>1, <2>1, <2>3
      <3>2. Good(j - 1)
        BY <2>1, <3>1
      <3>3. a[j] = MergeHeader(a[j - 1], list[j]) /\ list[j] \in E
        BY <1>1, <1>2, <3>1
      <3>4. Merged(a[j], own, list, j)
        BY <1>1, <3>1, <3>2, <3>3, MergedOneMore
      <3>5. a[j] \in Seq(E)
        BY <3>2, <3>3, MergeStays
      <3> QED BY <2>1, <3>4, <3>5
    <2> QED BY <2>2, <2>3
  <1>4. l \in 0..l
    BY <1>1
  <1>5. Good(l)
    BY <1>3, <1>4
  <1> QED BY <1>2, <1>5

\* What an accepted HTTP request carries: the planned headers, then the content type,
\* merged into the headers of the resource.
LEMMA HttpRequestHeaders ==
    ASSUME NEW c, WellFormed(c), HttpNativeRequest(c).ok
    PROVE  LET ct    == Or(c.content_type, HttpView(c.extensions).value.fields.content_type)
               typed == IF ct = None THEN <<>> ELSE <<[key |-> ContentType, value |-> ct]>>
               own   == Or(HttpResource[c.target].headers, <<>>)
           IN  /\ c.intent \in RequestIntents /\ c.target \in DOMAIN HttpResource
               /\ HttpNativeRequest(c).value.headers =
                    MergeAll(own, (c.headers \o CapturedHeaders(c)) \o typed)
  <1> DEFINE view == HttpView(c.extensions)
             ct == Or(c.content_type, view.value.fields.content_type)
             typed == IF ct = None THEN <<>> ELSE <<[key |-> ContentType, value |-> ct]>>
             own == Or(HttpResource[c.target].headers, <<>>)
             plan == HttpPlan(c.target, IF c.intent = "Read" THEN None ELSE c.payload,
                              Or(c.method, view.value.fields.method), Or(c.path, view.value.fields.path),
                              ct, Merge(c.headers, view.value.headers))
  <1>1. c.intent \in RequestIntents
    BY DEF HttpNativeRequest, HttpNativePlan, Then, Err
  <1>2. HttpNativePlan(c) = Then(view, LAMBDA v :
           Ok(HttpPlan(c.target, IF c.intent = "Read" THEN None ELSE c.payload,
                       Or(c.method, v.fields.method), Or(c.path, v.fields.path),
                       Or(c.content_type, v.fields.content_type), Merge(c.headers, v.headers))))
    BY <1>1 DEF HttpNativePlan
  <1>3. view.ok
    BY <1>2 DEF HttpNativeRequest, Then
  <1>4. HttpNativePlan(c) = Ok(plan)
    BY <1>2, <1>3 DEF Then
  <1>5. HttpNativeRequest(c) = HttpEncode(plan)
    BY <1>4 DEF HttpNativeRequest, Then, Ok
  <1>6. plan.target = c.target /\ plan.content_type = ct /\ plan.headers = Merge(c.headers, view.value.headers)
    BY DEF HttpPlan
  <1>7. Merge(c.headers, view.value.headers) = c.headers \o CapturedHeaders(c)
    <2> DEFINE t == c.extensions
    <2>1. CASE t = None
      <3>1. view = Ok(DefaultView(HttpSchema))
        BY <2>1 DEF HttpView, ViewOf
      <3>2. view.value.headers = None
        BY <3>1 DEF Ok, DefaultView
      <3> QED BY <2>1, <3>2 DEF Merge, Or, CapturedHeaders
    <2>2. CASE t # None
      <3>1. view = DecodeParts("HTTP", HttpSchema, t.protocol, t.headers, t.entries)
        BY <2>2, ViewByParts DEF HttpView, ViewOf
      <3>2. view.value.headers = t.headers
        BY <1>3, <3>1, HeadersApart
      <3> QED BY <2>2, <3>2 DEF Merge, CapturedHeaders
    <2> QED BY <2>1, <2>2
  <1> HIDE DEF plan, ct, view
  <1>8. c.target \in DOMAIN HttpResource
    BY <1>5, <1>6 DEF HttpEncode, Err
  <1>9. HttpNativeRequest(c).value.headers = MergeAll(own, plan.headers \o typed)
    BY <1>5, <1>6, <1>8 DEF HttpEncode, Then, Ok, MergeAll
  <1> QED BY <1>1, <1>6, <1>7, <1>8, <1>9 DEF ct, view

LEMMA ListOfMore ==
    ASSUME NEW E, NEW s, IsList(s), ToSet(s) \subseteq E PROVE s \in Seq(E)
  <1>1. s \in Seq(ToSet(s))
    BY DEF IsList
  <1> HIDE DEF ToSet
  <1> QED BY <1>1

\* typed is the header of the content type, if there is one.
TypedBy(typed, ct) ==
    /\ ct = None => Len(typed) = 0
    /\ ct # None => Len(typed) = 1 /\ typed[1].key.name = "content-type" /\ typed[1].value = ct

\* What HeadersSurvive asks of a request and the i-th planned header.
Survives(sent, own, planned, ct, i) ==
    LET n == planned[i].key.name IN
    /\ Cardinality(Named(sent, n)) = Greatest(1, Cardinality(Named(own, n)))
    /\ HeaderValue(sent, n) = IF n = "content-type" /\ ct # None THEN ct
                              ELSE planned[Max(Named(planned, n))].value

\* Merged into the headers of the resource, every planned header survives.
LEMMA PlannedSurvive ==
    ASSUME NEW E, NEW own \in Seq(E), NEW planned \in Seq(E), NEW ct,
           NEW typed \in Seq(E), TypedBy(typed, ct), NEW i \in DOMAIN planned
    PROVE  Survives(MergeAll(own, planned \o typed), own, planned, ct, i)
  <1> DEFINE n == planned[i].key.name
             list == planned \o typed
             sent == MergeAll(own, list)
             k == Len(planned)
             l == Len(list)
             seen == NamedTo(list, l, n)
  <1>1. /\ k \in Nat /\ l \in Nat /\ list \in Seq(E) /\ DOMAIN planned = 1..k /\ i \in 1..l
        /\ \A x \in 1..k : list[x] = planned[x]
        /\ ct = None => l = k
        /\ ct # None => l = k + 1 /\ list[l].key.name = "content-type" /\ list[l].value = ct
    <2>1. /\ k \in Nat /\ l \in Nat /\ list \in Seq(E) /\ DOMAIN planned = 1..k /\ l = k + Len(typed)
          /\ \A x \in 1..k : list[x] = planned[x]
      OBVIOUS
    <2>2. \A x \in 1..Len(typed) : list[k + x] = typed[x]
      BY <2>1
    <2>3. i \in 1..l
      BY <2>1
    <2> HIDE DEF list, k, l
    <2>4. ASSUME ct # None PROVE l = k + 1 /\ list[l] = typed[1]
      <3>1. Len(typed) = 1
        BY <2>4, Zenon DEF TypedBy
      <3>2. 1 \in 1..1
        OBVIOUS
      <3> QED BY <2>1, <2>2, <3>1, <3>2
    <2>5. ct = None => l = k
      BY <2>1 DEF TypedBy
    <2>6. ct # None => typed[1].key.name = "content-type" /\ typed[1].value = ct
      BY Zenon DEF TypedBy
    <2> QED BY <2>1, <2>3, <2>4, <2>5, <2>6
  <1>2. Merged(sent, own, list, l)
    BY <1>1, MergedAll
  <1> HIDE DEF list, sent, k, l
  <1>3. i \in seen
    BY <1>1 DEF NamedTo
  <1>4. /\ Named(own, n) # {} => Named(sent, n) = Named(own, n)
        /\ Named(own, n) = {} => \E x : Named(sent, n) = {x}
        /\ HeaderValue(sent, n) = list[Max(seen)].value
    BY <1>2, <1>3 DEF Merged
  <1>5. Cardinality(Named(sent, n)) = Greatest(1, Cardinality(Named(own, n)))
    <2>1. CASE Named(own, n) = {}
      <3>1. PICK x : Named(sent, n) = {x}
        BY <1>4, <2>1
      <3>2. Cardinality({x}) = 1 /\ Cardinality({}) = 0
        BY FS_Singleton, FS_EmptySet
      <3> QED BY <2>1, <3>1, <3>2 DEF Greatest
    <2>2. CASE Named(own, n) # {}
      <3>0. Len(own) \in Nat /\ DOMAIN own = 1..Len(own)
        OBVIOUS
      <3>1. IsFiniteSet(1..Len(own))
        BY <3>0, FS_Interval
      <3>2. IsFiniteSet(Named(own, n))
        BY <3>0, <3>1, FS_Subset DEF Named
      <3>3. Cardinality(Named(own, n)) \in Nat /\ Cardinality(Named(own, n)) # 0
        BY <2>2, <3>2, FS_CardinalityType, FS_EmptySet
      <3> QED BY <1>4, <2>2, <3>3 DEF Greatest
    <2> QED BY <2>1, <2>2
  <1>6. HeaderValue(sent, n) = IF n = "content-type" /\ ct # None THEN ct
                               ELSE planned[Max(Named(planned, n))].value
    <2>1. CASE n = "content-type" /\ ct # None
      <3>1. l \in seen /\ seen \in SUBSET (1..((l - 1) + 1)) /\ l - 1 \in Nat /\ (l - 1) + 1 = l
        BY <1>1, <2>1 DEF NamedTo
      <3>2. Max(seen) = l
        BY <3>1, MaxOfPrefix
      <3> QED BY <1>1, <1>4, <2>1, <3>2
    <2>2. CASE ~(n = "content-type" /\ ct # None)
      <3>1. seen = Named(planned, n)
        <4>1. ASSUME NEW x \in seen PROVE x \in 1..k
          <5>1. CASE ct = None
            BY <1>1, <4>1, <5>1 DEF NamedTo
          <5>2. CASE ct # None
            BY <1>1, <2>2, <4>1, <5>2 DEF NamedTo
          <5> QED BY <5>1, <5>2
        <4>2. 1..k \subseteq 1..l
          BY <1>1
        <4> QED BY <1>1, <4>1, <4>2 DEF NamedTo, Named
      <3>2. Max(seen) \in 1..k
        <4>1. seen \in SUBSET (1..k) /\ seen # {}
          BY <1>1, <1>3, <3>1 DEF Named
        <4> QED BY <1>1, <4>1, MaxInside
      <3> QED BY <1>1, <1>4, <2>2, <3>1, <3>2
    <2> QED BY <2>1, <2>2
  <1> QED BY <1>5, <1>6 DEF Survives, sent, list, k, l

\* No header is lost, reordered or sent twice: for lists of any length, in options,
\* captures and resources, whatever the case of the names.
THEOREM HeadersAlwaysSurvive == Spec => []HeadersSurvive
  <1>1. Planned /\ ~(job.driver = "MQTT") => HeadersSurvive
    <2> DEFINE c == job.command
               own == Or(HttpResource[c.target].headers, <<>>)
               typed == IF HttpContentType = None THEN <<>>
                        ELSE <<[key |-> ContentType, value |-> HttpContentType]>>
               E == ToSet(own) \cup ToSet(c.headers) \cup ToSet(CapturedHeaders(c)) \cup ToSet(typed)
    <2> SUFFICES ASSUME Planned, Accepted, job.driver = "HTTP", NEW i \in DOMAIN PlannedHeaders
                 PROVE  LET n == PlannedHeaders[i].key.name IN
                        /\ Cardinality(Named(request.value.headers, n)) =
                               Greatest(1, Cardinality(Named(own, n)))
                        /\ HeaderValue(request.value.headers, n) =
                               IF n = "content-type" /\ HttpContentType # None THEN HttpContentType
                               ELSE PlannedHeaders[Max(Named(PlannedHeaders, n))].value
      BY DEF HeadersSurvive
    <2>1. WellFormed(c)
      BY JobOfDriver, ExchangeAssumptions DEF Planned
    <2>2. request = HttpNativeRequest(c) /\ request.ok
      BY <2>1, HttpPathsAlike DEF Planned, Accepted, RequestOn
    <2>3. /\ c.intent \in RequestIntents /\ c.target \in DOMAIN HttpResource
          /\ request.value.headers = MergeAll(own, (c.headers \o CapturedHeaders(c)) \o typed)
      BY <2>1, <2>2, HttpRequestHeaders DEF HttpContentType
    <2>4. PlannedHeaders = c.headers \o CapturedHeaders(c)
      BY <2>3 DEF PlannedHeaders, RequestIntents
    <2>5. IsList(own) /\ IsList(c.headers) /\ IsList(CapturedHeaders(c))
      BY <2>1, <2>3, ExchangeAssumptions DEF WellFormed
    <2>6. own \in Seq(E) /\ c.headers \in Seq(E) /\ CapturedHeaders(c) \in Seq(E)
      <3> HIDE DEF own, typed
      <3> QED BY <2>5, ListOfMore
    <2>7. typed \in Seq(E)
      <3>1. IsList(typed)
        <4> DEFINE h == [key |-> ContentType, value |-> HttpContentType]
        <4>1. ToSet(<<>>) = {} /\ ToSet(<<h>>) = {h}
          <5> HIDE DEF h
          <5> QED BY DEF ToSet
        <4>2. <<>> \in Seq({}) /\ <<h>> \in Seq({h})
          <5> HIDE DEF h
          <5> QED OBVIOUS
        <4> QED BY <4>1, <4>2 DEF IsList
      <3> HIDE DEF own, typed
      <3> QED BY <3>1, ListOfMore
    <2>8. TypedBy(typed, HttpContentType)
      <3> DEFINE h == [key |-> ContentType, value |-> HttpContentType]
      <3>1. h.key.name = "content-type" /\ h.value = HttpContentType
        BY DEF ContentType
      <3> HIDE DEF h
      <3>2. typed = IF HttpContentType = None THEN <<>> ELSE <<h>>
        BY DEF h
      <3> HIDE DEF typed
      <3>3. HttpContentType # None => Len(typed) = 1 /\ typed[1] = h
        BY <3>2
      <3> QED BY <3>1, <3>2, <3>3 DEF TypedBy
    <2> HIDE DEF c, own, typed, E
    <2>9. PlannedHeaders \in Seq(E)
      BY <2>4, <2>6
    <2>10. Survives(MergeAll(own, PlannedHeaders \o typed), own, PlannedHeaders, HttpContentType, i)
      BY <2>6, <2>7, <2>8, <2>9, PlannedSurvive
    <2>11. request.value.headers = MergeAll(own, PlannedHeaders \o typed)
      BY <2>3, <2>4
    <2> QED BY <2>10, <2>11 DEF Survives
  <1> QED BY <1>1, PlannedAlways, MqttHeadersSurvive, PTL

-----------------------------------------------------------------------------
(* Results.                                                                *)

\* A finite set as a list: each of its elements, once.
LEMMA SetListed ==
    ASSUME NEW S, IsFiniteSet(S)
    PROVE  LET q == SetToSeq(S)
               n == Cardinality(S)
           IN  /\ n \in Nat /\ q \in [1..n -> S]
               /\ \A i, j \in 1..n : q[i] = q[j] => i = j
               /\ \A k \in S : \E i \in 1..n : q[i] = k
  <1> DEFINE n == Cardinality(S)
             q == SetToSeq(S)
  <1>1. n \in Nat /\ ExistsBijection(1..n, S)
    BY FS_CardinalityType
  <1>2. \E f \in [1..n -> S] : IsInjective(f)
    BY <1>1 DEF ExistsBijection, Bijection, Injection
  <1>3. q \in [1..n -> S] /\ IsInjective(q)
    BY <1>2 DEF SetToSeq
  <1> HIDE DEF q
  <1>4. q \in Injection(1..n, S)
    BY <1>3 DEF Injection
  <1>5. Cardinality(1..n) = n
    BY <1>1, FS_Interval
  <1>6. q \in Surjection(1..n, S)
    BY <1>4, <1>5, FS_Injection
  <1>7. \A k \in S : \E i \in 1..n : q[i] = k
    BY <1>6 DEF Surjection
  <1>8. \A i, j \in 1..n : q[i] = q[j] => i = j
    BY <1>3 DEF IsInjective
  <1> QED BY <1>1, <1>3, <1>7, <1>8 DEF q

\* The entry of a field.
EntryOf(schema, fields, k) == [key |-> k, value |-> [type |-> schema[k].type, v |-> fields[k]]]

\* into_transport_meta sets the fields of q one by one.
SetField(es, schema, fields, k) == SetEntry(es, k, [type |-> schema[k].type, v |-> fields[k]])

SetFold(it, schema, fields, q) ==
    it = [s \in SUBSET DOMAIN q |->
            IF s = {} THEN <<>> ELSE SetField(it[s \ {Max(s)}], schema, fields, q[Max(s)])]

UsedFields(schema, fields) == {k \in DOMAIN schema : fields[k] # schema[k].default}

SetAll(schema, fields, q) == (CHOOSE it : SetFold(it, schema, fields, q))[DOMAIN q]

LEMMA SetByPlaces ==
    ASSUME NEW protocol, NEW schema, NEW view
    PROVE  LET q == SetToSeq(UsedFields(schema, view.fields)) IN
           IntoTransportMeta(protocol, schema, view) =
             [protocol |-> protocol, headers |-> view.headers,
              entries  |-> SetAll(schema, view.fields, q)]
  BY DEF IntoTransportMeta, SetAll, FoldLeft, MapThenFoldSet, SetFold, SetField, UsedFields

\* Setting a field keeps the capture a list of entries.
LEMMA SetFieldStays ==
    ASSUME NEW K, NEW V, NEW es \in Seq([key : K, value : V]), NEW k \in K, NEW v \in V
    PROVE  SetEntry(es, k, v) \in Seq([key : K, value : V])
  <1> DEFINE R == [key : K, value : V]
             at == {i \in DOMAIN es : es[i].key = k}
             e == [key |-> k, value |-> v]
  <1>1. CASE at = {}
    <2>1. SetEntry(es, k, v) = Append(es, e) /\ e \in R
      BY <1>1 DEF SetEntry
    <2> HIDE DEF R, e
    <2> QED BY <2>1 DEF R
  <1>2. CASE at # {}
    <2> DEFINE p == Min(at)
    <2>0. Len(es) \in Nat /\ DOMAIN es = 1..Len(es) /\ at \in SUBSET Nat
      OBVIOUS
    <2>1. p \in 1..Len(es)
      BY <1>2, <2>0, MinInside
    <2>2. SetEntry(es, k, v) = [es EXCEPT ![p] = [es[p] EXCEPT !.value = v]]
      BY <1>2 DEF SetEntry
    <2> HIDE DEF p
    <2>3. \A r \in R : [r EXCEPT !.value = v] \in R
      OBVIOUS
    <2>7. es \in Seq(R)
      OBVIOUS
    <2> HIDE DEF R
    <2>4. es \in [1..Len(es) -> R]
      BY <2>7
    <2>5. [es EXCEPT ![p] = [es[p] EXCEPT !.value = v]] \in [1..Len(es) -> R]
      BY <2>1, <2>3, <2>4
    <2>6. [1..Len(es) -> R] \subseteq Seq(R)
      BY <2>0
    <2> QED BY <2>2, <2>5, <2>6 DEF R
  <1> QED BY <1>1, <1>2

\* a are the captures with more and more of the fields of q.
SetsOneByOne(a, schema, fields, n, q) ==
    /\ a[0] = <<>> /\ SetAll(schema, fields, q) = a[n]
    /\ \A j \in 1..n : a[j] = SetField(a[j - 1], schema, fields, q[j])

\* The entries are set one by one.
LEMMA SetSteps ==
    ASSUME NEW schema, NEW fields, NEW K, NEW n \in Nat, NEW q \in [1..n -> K]
    PROVE  \E a : SetsOneByOne(a, schema, fields, n, q)
  <1> DEFINE V == {[type |-> schema[k].type, v |-> fields[k]] : k \in K}
             S == Seq([key : K, value : V])
             F == [x \in S \X K |-> SetField(x[1], schema, fields, x[2])]
  <1>1. DOMAIN q = 1..n /\ <<>> \in S
    OBVIOUS
  <1>2. \A es \in S, k \in K : SetField(es, schema, fields, k) \in S
                               /\ F[<<es, k>>] = SetField(es, schema, fields, k)
    <2> TAKE es \in S, k \in K
    <2> DEFINE v == [type |-> schema[k].type, v |-> fields[k]]
    <2>1. v \in V OBVIOUS
    <2> HIDE DEF V, v
    <2>2. SetEntry(es, k, v) \in S
      BY <2>1, SetFieldStays
    <2>3. SetField(es, schema, fields, k) \in S
      BY <2>2 DEF SetField, v
    <2> HIDE DEF S
    <2> QED BY <2>3
  <1> HIDE DEF S
  <1>3. F \in [S \X K -> S]
    BY <1>2
  <1> HIDE DEF F
  <1>4. PICK it : PlaceFold(it, S, F, <<>>, n, q)
    BY <1>1, <1>3, FoldExists, Zenon
  <1>5. \A s \in SUBSET (1..n) :
          it[s] = IF s = {} THEN <<>> ELSE SetField(it[s \ {Max(s)}], schema, fields, q[Max(s)])
    <2> TAKE s \in SUBSET (1..n)
    <2>1. ASSUME s # {} PROVE Max(s) \in 1..n
      BY <2>1, MaxInside
    <2>2. ASSUME s # {} PROVE it[s \ {Max(s)}] \in S /\ q[Max(s)] \in K
      BY <1>4, <2>1, <2>2 DEF PlaceFold
    <2> QED BY <1>2, <1>4, <2>2 DEF PlaceFold
  <1>6. SetFold(it, schema, fields, q)
    BY <1>1, <1>4, <1>5 DEF SetFold, PlaceFold
  <1> DEFINE c == CHOOSE x : SetFold(x, schema, fields, q)
             a == [j \in 0..n |-> c[1..j]]
  <1>7. SetFold(c, schema, fields, q)
    BY <1>6
  <1>8. SetAll(schema, fields, q) = c[1..n]
    BY <1>1 DEF SetAll
  <1> HIDE DEF c
  <1>9. \A s \in SUBSET (1..n) :
          c[s] = IF s = {} THEN <<>> ELSE SetField(c[s \ {Max(s)}], schema, fields, q[Max(s)])
    BY <1>1, <1>7 DEF SetFold
  <1>10. a[0] = <<>>
    <2>1. 1..0 = {} /\ 0 \in 0..n OBVIOUS
    <2> QED BY <1>9, <2>1
  <1>11. \A j \in 1..n : a[j] = SetField(a[j - 1], schema, fields, q[j])
    <2> TAKE j \in 1..n
    <2>0. j \in Nat \ {0} OBVIOUS
    <2>1. 1..j # {} /\ Max(1..j) = j /\ (1..j) \ {j} = 1..(j - 1)
      BY <2>0, PrefixOfPlaces
    <2>2. 1..j \in SUBSET (1..n) /\ j \in 0..n /\ j - 1 \in 0..n
      OBVIOUS
    <2> QED BY <1>9, <2>1, <2>2
  <1>12. a[n] = c[1..n]
    OBVIOUS
  <1> QED BY <1>8, <1>10, <1>11, <1>12 DEF SetsOneByOne

\* es has the entry of each field of q.
HasEntries(es, schema, fields, n, q) ==
    DOMAIN es = 1..n /\ \A i \in 1..n : es[i] = EntryOf(schema, fields, q[i])

\* A capture has one entry for each of the fields set, in their order.
LEMMA SetEntries ==
    ASSUME NEW schema, NEW fields, NEW K, NEW n \in Nat, NEW q \in [1..n -> K],
           \A i, j \in 1..n : q[i] = q[j] => i = j
    PROVE  HasEntries(SetAll(schema, fields, q), schema, fields, n, q)
  <1> DEFINE es == SetAll(schema, fields, q)
             D == {EntryOf(schema, fields, k) : k \in K}
  <1>0. PICK a : SetsOneByOne(a, schema, fields, n, q)
    BY SetSteps, Zenon
  <1>1. /\ a[0] = <<>> /\ es = a[n]
        /\ \A j \in 1..n : a[j] = SetField(a[j - 1], schema, fields, q[j])
    BY <1>0 DEF SetsOneByOne
  <1> HIDE DEF es
  <1> DEFINE Good(j) == /\ a[j] \in Seq(D) /\ Len(a[j]) = j
                        /\ \A i \in 1..j : a[j][i] = EntryOf(schema, fields, q[i])
             Not == {j \in 0..n : ~Good(j)}
  <1>2. Not = {}
    <2> SUFFICES ASSUME Not # {} PROVE FALSE
      OBVIOUS
    <2>0. Not \in SUBSET Nat OBVIOUS
    <2>1. PICK j \in Not : \A k \in Nat : k < j => k \notin Not
      BY <2>0, LeastOf
    <2>2. CASE j = 0
      <3>1. Good(0)
        <4> HIDE DEF D
        <4> QED BY <1>1
      <3> QED BY <2>1, <2>2, <3>1
    <2>3. CASE j # 0
      <3> DEFINE es0 == a[j - 1]
                 k == q[j]
                 e == EntryOf(schema, fields, k)
      <3>1. j \in 1..n /\ j - 1 \in 0..n /\ j - 1 < j /\ j - 1 \in Nat /\ k \in K
        BY <2>1, <2>3
      <3>2. Good(j - 1)
        BY <2>1, <3>1
      <3>3. DOMAIN es0 = 1..(j - 1)
        BY <3>1, <3>2
      <3>4. {i \in DOMAIN es0 : es0[i].key = k} = {}
        <4> SUFFICES ASSUME NEW i \in 1..(j - 1) PROVE es0[i].key # k
          BY <3>3
        <4>0. es0[i] = EntryOf(schema, fields, q[i])
          BY <3>2
        <4>1. es0[i].key = q[i]
          BY <4>0 DEF EntryOf
        <4>2. i \in 1..n /\ i # j
          BY <3>1
        <4> QED BY <3>1, <4>1, <4>2
      <3>5. a[j] = Append(es0, e)
        <4>1. a[j] = SetField(es0, schema, fields, k)
          BY <1>1, <3>1
        <4> QED BY <3>4, <4>1 DEF SetField, SetEntry, EntryOf
      <3>6. e \in D
        BY <3>1
      <3> HIDE DEF D, e
      <3>7. a[j] \in Seq(D) /\ Len(a[j]) = j /\ a[j][j] = e /\ \A i \in 1..(j - 1) : a[j][i] = es0[i]
        BY <3>1, <3>2, <3>5, <3>6
      <3>8. Good(j)
        <4> SUFFICES ASSUME NEW i \in 1..j PROVE a[j][i] = EntryOf(schema, fields, q[i])
          BY <3>7
        <4>1. CASE i = j
          BY <3>7, <4>1 DEF e
        <4>2. CASE i # j
          <5>1. i \in 1..(j - 1)
            BY <3>1, <4>2
          <5> QED BY <3>2, <3>7, <5>1
        <4> QED BY <4>1, <4>2
      <3> QED BY <2>1, <3>8
    <2> QED BY <2>2, <2>3
  <1>3. n \in 0..n OBVIOUS
  <1>4. Good(n)
    BY <1>2, <1>3
  <1> HIDE DEF D
  <1>5. DOMAIN a[n] = 1..n
    BY <1>4
  <1> QED BY <1>1, <1>4, <1>5 DEF es, HasEntries

\* What into_transport_meta captures, try_from_transport_meta reads back: every field,
\* and the headers.
LEMMA CaptureReadBack ==
    ASSUME NEW protocol, NEW schema, NEW view, IsFiniteSet(DOMAIN schema),
           \A k \in UsedFields(schema, view.fields) : Fits(schema[k], EntryOf(schema, view.fields, k).value)
    PROVE  DecodeView(protocol, schema, IntoTransportMeta(protocol, schema, view))
             = Ok([headers |-> view.headers, fields |-> [k \in DOMAIN schema |-> view.fields[k]]])
  <1> DEFINE fields == view.fields
             used == UsedFields(schema, fields)
             q == SetToSeq(used)
             n == Cardinality(used)
             es == SetAll(schema, fields, q)
             E(k) == EntryOf(schema, fields, k)
  <1>1. used \subseteq DOMAIN schema
    BY DEF UsedFields
  <1>2. IsFiniteSet(used)
    BY <1>1, FS_Subset
  <1> HIDE DEF used
  <1>3. /\ n \in Nat /\ q \in [1..n -> used]
        /\ \A i, j \in 1..n : q[i] = q[j] => i = j
        /\ \A k \in used : \E i \in 1..n : q[i] = k
    BY <1>2, SetListed
  <1> HIDE DEF n, q
  <1>5. DOMAIN es = 1..n /\ \A i \in 1..n : es[i] = E(q[i])
    <2>1. HasEntries(es, schema, fields, n, q)
      BY <1>3, SetEntries
    <2> HIDE DEF es
    <2> QED BY <2>1 DEF HasEntries
  <1>6. IntoTransportMeta(protocol, schema, view) = [protocol |-> protocol, headers |-> view.headers, entries |-> es]
    BY SetByPlaces DEF q, used
  <1> HIDE DEF es
  <1>7. DecodeView(protocol, schema, IntoTransportMeta(protocol, schema, view))
          = DecodeParts(protocol, schema, protocol, view.headers, es)
    BY <1>6, ViewByParts
  <1>8. ASSUME NEW k PROVE E(k).key = k /\ E(k).value.type = schema[k].type /\ E(k).value.v = fields[k]
    BY DEF EntryOf
  <1>9. ASSUME NEW k \in used PROVE WellTyped(schema[k], E(k).value) /\ Fits(schema[k], E(k).value)
    <2>1. Fits(schema[k], E(k).value)
      BY DEF used
    <2> QED BY <1>8, <2>1 DEF WellTyped
  <1> HIDE DEF E
  <1>10. FirstEntries(es) = 1..n
    <2> SUFFICES ASSUME NEW i \in 1..n, NEW j \in 1..(i - 1) PROVE es[j].key # es[i].key
      BY <1>5 DEF FirstEntries
    <2>1. j \in 1..n /\ j # i
      BY <1>3
    <2> QED BY <1>3, <1>5, <1>8, <2>1
  <1> DEFINE known == {i \in FirstEntries(es) : es[i].key \in DOMAIN schema}
             Bad(i) == LET e == es[i] IN
                       ~WellTyped(schema[e.key], e.value) \/ ~Fits(schema[e.key], e.value)
             bad == {i \in known : Bad(i)}
             Found(k) == {i \in known : es[i].key = k}
             read == [k \in DOMAIN schema |-> IF Found(k) = {} THEN schema[k].default
                                              ELSE es[CHOOSE i \in Found(k) : TRUE].value.v]
  <1>11. known = 1..n /\ \A i \in 1..n : es[i] = E(q[i]) /\ es[i].key = q[i] /\ q[i] \in used
    BY <1>1, <1>3, <1>5, <1>8, <1>10
  <1> HIDE DEF known
  <1>12. bad = {}
    <2> SUFFICES ASSUME NEW i \in 1..n PROVE ~Bad(i)
      BY <1>11
    <2> QED BY <1>9, <1>11
  <1>13. DecodeParts(protocol, schema, protocol, view.headers, es)
           = IF bad # {} THEN Err(IF WellTyped(schema[es[Min(bad)].key], es[Min(bad)].value)
                                  THEN "InvalidExtensionValue" ELSE "InvalidExtensionType")
             ELSE Ok([headers |-> view.headers, fields |-> read])
    BY DEF DecodeParts, known
  <1>14. \A k \in DOMAIN schema : read[k] = fields[k]
    <2> TAKE k \in DOMAIN schema
    <2>1. CASE k \in used
      <3> DEFINE x == CHOOSE i \in Found(k) : TRUE
      <3>1. Found(k) # {}
        BY <1>3, <1>11, <2>1
      <3>2. x \in Found(k) /\ read[k] = es[x].value.v
        BY <3>1
      <3> HIDE DEF x
      <3>3. x \in 1..n /\ es[x] = E(k)
        BY <1>11, <3>2
      <3> QED BY <1>8, <3>2, <3>3
    <2>2. CASE k \notin used
      <3>1. Found(k) = {}
        BY <1>11, <2>2
      <3>2. fields[k] = schema[k].default
        BY <2>2 DEF used, UsedFields
      <3> QED BY <3>1, <3>2
    <2> QED BY <2>1, <2>2
  <1>15. read = [k \in DOMAIN schema |-> fields[k]]
    BY <1>14
  <1> HIDE DEF read, bad
  <1> QED BY <1>7, <1>12, <1>13, <1>15

\* The fields a result sets fit their keys.
LEMMA HttpFieldsFit ==
    ASSUME NEW fields, fields.status_code \in 0..U16Max
    PROVE  /\ IsFiniteSet(DOMAIN HttpSchema) /\ "status_code" \in DOMAIN HttpSchema
           /\ \A k \in UsedFields(HttpSchema, fields) : Fits(HttpSchema[k], EntryOf(HttpSchema, fields, k).value)
  <1>1. DOMAIN HttpSchema = {"method", "path", "status_code", "content_type"}
    BY DEF HttpSchema
  <1>2. IsFiniteSet({"method", "path", "status_code", "content_type"})
    <2>1. IsFiniteSet({"method"})
      BY FS_Singleton
    <2>2. IsFiniteSet({"method"} \cup {"path"})
      BY <2>1, FS_AddElement
    <2>3. IsFiniteSet(({"method"} \cup {"path"}) \cup {"status_code"})
      BY <2>2, FS_AddElement
    <2>4. IsFiniteSet((({"method"} \cup {"path"}) \cup {"status_code"}) \cup {"content_type"})
      BY <2>3, FS_AddElement
    <2>5. (({"method"} \cup {"path"}) \cup {"status_code"}) \cup {"content_type"}
            = {"method", "path", "status_code", "content_type"}
      OBVIOUS
    <2> QED BY <2>4, <2>5
  <1>3. /\ HttpSchema.method.fits = None /\ HttpSchema.path.fits = None /\ HttpSchema.content_type.fits = None
        /\ HttpSchema.status_code.fits = 0..U16Max /\ HttpSchema.status_code.type = "U64"
    BY DEF HttpSchema, Field
  <1>4. ASSUME NEW k \in DOMAIN HttpSchema PROVE Fits(HttpSchema[k], EntryOf(HttpSchema, fields, k).value)
    <2>1. CASE k = "status_code"
      <3> DEFINE e == EntryOf(HttpSchema, fields, "status_code").value
      <3>1. e.type = "U64" /\ e.v = fields.status_code
        BY <1>3 DEF EntryOf
      <3> HIDE DEF e
      <3>2. Fits(HttpSchema["status_code"], e)
        BY <1>3, <3>1 DEF Fits
      <3> QED BY <2>1, <3>2 DEF e
    <2>2. CASE k # "status_code"
      <3>1. HttpSchema[k].fits = None
        BY <1>1, <1>3, <2>2
      <3> QED BY <3>1 DEF Fits
    <2> QED BY <2>1, <2>2
  <1> QED BY <1>1, <1>2, <1>4 DEF UsedFields

\* The bridge envelope of the result of a command.
LEMMA ResultThroughBridge ==
    ASSUME NEW c, CorrelationFor(c) # None, NEW r, r.status \in 0..U16Max, r.status # None,
           HttpResult(c, r).transport # None
    PROVE  LET result == HttpResult(c, r)
               b == RoutedResultToBridge(result)
           IN  /\ b.outcome = IF r.status < 400 THEN "Success" ELSE "Failure"
               /\ b.payload = result.payload /\ b.error = result.error /\ ~b.retryable
               /\ b.correlation # None /\ b.command_id = c.id
               /\ [b.transport EXCEPT !.headers = b.headers] = result.transport
               /\ HttpView(result.transport).value.fields.status_code = r.status
  <1> DEFINE fields == [method |-> c.method, path |-> c.path, status_code |-> r.status,
                        content_type |-> HeaderValue(r.headers, "content-type")]
             view == [headers |-> IF r.headers = <<>> THEN None ELSE r.headers, fields |-> fields]
             t == IntoTransportMeta("HTTP", HttpSchema, view)
             result == HttpResult(c, r)
             state == IF r.status < 400 THEN "Completed" ELSE "Rejected"
             b == RoutedResultToBridge(result)
             split == SplitCaptureHeaders(t)
  <1>1. /\ result.command_id = c.id /\ result.correlation = CorrelationFor(c) /\ result.state = state
        /\ result.error = (IF r.status < 400 THEN None ELSE r.status) /\ result.transport = t
    BY DEF HttpResult
  <1>2. view.fields = fields /\ fields.status_code = r.status
        /\ view.headers = IF r.headers = <<>> THEN None ELSE r.headers
    OBVIOUS
  <1>3. DecodeView("HTTP", HttpSchema, t) = Ok([headers |-> view.headers,
                                               fields |-> [k \in DOMAIN HttpSchema |-> fields[k]]])
    <2>1. /\ IsFiniteSet(DOMAIN HttpSchema)
          /\ \A k \in UsedFields(HttpSchema, fields) : Fits(HttpSchema[k], EntryOf(HttpSchema, fields, k).value)
      BY <1>2, HttpFieldsFit
    <2> HIDE DEF fields
    <2> QED BY <2>1, CaptureReadBack
  <1>4. t = [protocol |-> "HTTP", headers |-> view.headers, entries |-> t.entries]
    BY DEF IntoTransportMeta
  <1>5. t # None
    BY <1>1
  <1>6. /\ b.command_id = result.command_id /\ b.transport = split.transport /\ b.headers = split.headers
        /\ b.correlation = result.correlation /\ b.outcome = OutcomeOf(result.state)
        /\ b.payload = (IF OutcomeOf(result.state) = "Progress" THEN None ELSE result.payload)
        /\ b.error = (IF OutcomeOf(result.state) = "Failure" THEN result.error ELSE None)
    <2> HIDE DEF result, t
    <2> QED BY <1>1 DEF RoutedResultToBridge
  <1>7. b.retryable = (OutcomeOf(result.state) = "Failure" /\ result.state = "TimedOut")
    BY Zenon DEF RoutedResultToBridge
  <1>8. OutcomeOf(state) = (IF r.status < 400 THEN "Success" ELSE "Failure") /\ state # "TimedOut"
    BY DEF OutcomeOf
  <1>9. split.transport = [t EXCEPT !.headers = None]
        /\ split.headers = (IF t.headers = <<>> THEN None ELSE t.headers)
    <2> HIDE DEF t
    <2> QED BY <1>5 DEF SplitCaptureHeaders
  <1>10. split.headers = view.headers
    <2>1. t.headers = view.headers
      BY <1>4
    <2> HIDE DEF t
    <2> QED BY <1>2, <1>9, <2>1
  <1>11. [b.transport EXCEPT !.headers = b.headers] = t
    <2> DEFINE e == t.entries
               h == view.headers
               x == [protocol |-> "HTTP", headers |-> h, entries |-> e]
    <2>1. [[t EXCEPT !.headers = None] EXCEPT !.headers = view.headers] = t
      <3>1. t = x
        BY <1>4
      <3> HIDE DEF e, h, t, view
      <3>2. [x EXCEPT !.headers = None] = [protocol |-> "HTTP", headers |-> None, entries |-> e]
        OBVIOUS
      <3>3. [[protocol |-> "HTTP", headers |-> None, entries |-> e] EXCEPT !.headers = h] = x
        OBVIOUS
      <3> HIDE DEF x
      <3> QED BY <3>1, <3>2, <3>3, Zenon DEF h
    <2> HIDE DEF b, split, t, view, e, h, x
    <2> QED BY <1>6, <1>9, <1>10, <2>1
  <1>12. HttpView(t).value.fields.status_code = r.status
    <2>1. HttpView(t) = DecodeView("HTTP", HttpSchema, t)
      BY <1>5 DEF HttpView, ViewOf
    <2>2. "status_code" \in DOMAIN HttpSchema
      BY DEF HttpSchema
    <2> HIDE DEF t, view, fields
    <2> QED BY <1>2, <1>3, <2>1, <2>2 DEF Ok
  <1>13. ~b.retryable
    BY <1>1, <1>7, <1>8
  <1> HIDE DEF result, t, b, split, view, fields
  <1> QED BY <1>1, <1>6, <1>8, <1>11, <1>12, <1>13 DEF result, b

\* An HTTP result loses nothing in the bridge envelope: every status, body, header list
\* and correlation.
THEOREM ResultsAlwaysSurviveBridge == Spec => []ResultsSurviveBridge
  <1>1. Decoding => ResultsSurviveBridge
    <2> DEFINE c == job.command
               parsed == ParseResponse(job.response, job.sent)
               r == parsed.value
               result == HttpResult(c, r)
    <2> SUFFICES ASSUME Decoding, Answered, job.driver = "HTTP"
                 PROVE  LET o == outcome.value
                            b == RoutedResultToBridge(o)
                        IN  /\ b.outcome = IF job.response.status < 400 THEN "Success" ELSE "Failure"
                            /\ b.payload = o.payload /\ b.error = o.error /\ ~b.retryable
                            /\ b.correlation # None /\ b.command_id = job.command.id
                            /\ [b.transport EXCEPT !.headers = b.headers] = o.transport
                            /\ HttpView(o.transport).value.fields.status_code = job.response.status
      BY DEF ResultsSurviveBridge
    <2>1. outcome.ok /\ outcome = Decoded(job.sent)
      BY DEF Decoding, Answered, Came
    <2>2. outcome = Then(parsed, LAMBDA x : Ok(HttpResult(c, x)))
      BY <2>1 DEF Decoded
    <2>3. parsed.ok /\ outcome.value = result
      BY <2>1, <2>2 DEF Then, Ok
    <2>4. AnswersHttp(job) /\ WellFormed(c)
      BY JobOfDriver, ExchangeAssumptions DEF Decoding, Planned
    <2>5. job.response.status # None /\ r.status = job.response.status /\ r.headers = job.response.headers
      BY <2>3 DEF ParseResponse, Ok, Err
    <2>6. r.status \in 0..U16Max /\ HttpResult(c, job.response).transport # None
      BY <2>4, <2>5 DEF AnswersHttp
    <2>7. HttpResult(c, job.response).transport = result.transport
      BY <2>5 DEF HttpResult
    <2>8. CorrelationFor(c) # None
      BY <2>4 DEF WellFormed
    <2> HIDE DEF c, r, parsed
    <2> QED BY <2>3, <2>5, <2>6, <2>7, <2>8, ResultThroughBridge DEF c
  <1> QED BY <1>1, DecodingAlways, PTL
==============================================================================
