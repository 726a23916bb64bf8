---------------------------- MODULE DataInduction ----------------------------
(***************************************************************************)
(* Induction over data, for the proofs about what a function that is       *)
(* defined by recursion computes.  The induction theorems of the library   *)
(* take a predicate as a parameter; these take the set of the numbers that *)
(* satisfy one, and a recursive function its step as a function, which     *)
(* first-order provers can instantiate.                                    *)
(***************************************************************************)
EXTENDS Integers, SequencesExt, WellFoundedInduction, SequenceTheorems, FiniteSetTheorems, TLAPS

Below == {pair \in Nat \X Nat : pair[1] < pair[2]}

LEMMA BelowIsWellFounded == IsWellFoundedOn(Below, Nat)
BY NatLessThanWellFounded DEF OpToRel, Below

(* A set of numbers that is not empty has a least element.                 *)
LEMMA LeastNumber ==
  ASSUME NEW S, S \subseteq Nat, S # {}
  PROVE  \E n \in S : \A m \in S : n <= m
<1>1. PICK n \in S : \A m \in S : <<m, n>> \notin Below
  BY BelowIsWellFounded, WFMin
<1>2. \A m \in S : m \in Nat /\ n \in Nat /\ <<m, n>> \in Nat \X Nat
  OBVIOUS
<1>3. \A m \in S : ~(m < n)
  BY <1>1, <1>2 DEF Below
<1>4. QED
  BY <1>2, <1>3

(* Induction from a to b: a set that has a, and with each number before b  *)
(* the next, has them all.                                                 *)
LEMMA Induction ==
  ASSUME NEW a \in Int, NEW b \in Int, NEW S, a \in S,
         \A n \in a..(b - 1) : n \in S => n + 1 \in S
  PROVE  a..b \subseteq S
<1> DEFINE missed == {k \in Nat : a + k <= b /\ a + k \notin S}
<1>1. SUFFICES ASSUME NEW n \in a..b, n \notin S PROVE FALSE
  OBVIOUS
<1>2. n - a \in missed /\ missed \subseteq Nat
  BY <1>1
<1>3. PICK k \in missed : \A m \in missed : k <= m
  BY <1>2, LeastNumber, Zenon
<1>4. k \in Nat /\ a + k <= b /\ a + k \notin S /\ k # 0
  BY <1>3
<1>5. k - 1 \in Nat /\ ~(k <= k - 1) /\ a + (k - 1) <= b
  BY <1>4
<1>6. a + (k - 1) \in S
  BY <1>3, <1>5
<1>7. a + (k - 1) \in a..(b - 1) /\ (a + (k - 1)) + 1 = a + k
  BY <1>4, <1>5
<1>8. QED
  BY <1>4, <1>6, <1>7

(* f is the function that starts with v and goes on by step.               *)
Recursion(f, N, v, step) == f[0] = v /\ \A i \in 1..N : f[i] = step[<<i, f[i - 1]>>]

(* A function can be defined by recursion, and in one way only.            *)
LEMMA RecursionExists ==
  ASSUME NEW N \in Nat, NEW V, NEW v \in V, NEW step \in [(1..N) \X V -> V]
  PROVE  \E f \in [0..N -> V] : Recursion(f, N, v, step)
<1> DEFINE S == {n \in 0..N : \E f \in [0..n -> V] :
                   f[0] = v /\ \A i \in 1..n : f[i] = step[<<i, f[i - 1]>>]}
<1>1. 0 \in S
  <2> DEFINE z == [i \in 0..0 |-> v]
  <2>1. z \in [0..0 -> V] /\ z[0] = v /\ 1..0 = {} /\ 0 \in 0..N
    OBVIOUS
  <2> HIDE DEF z
  <2>2. \E f \in [0..0 -> V] : f[0] = v /\ \A i \in 1..0 : f[i] = step[<<i, f[i - 1]>>]
    BY <2>1
  <2>3. QED
    BY <2>1, <2>2
<1>2. ASSUME NEW n \in 0..(N - 1), n \in S PROVE n + 1 \in S
  <2>1. PICK f \in [0..n -> V] : f[0] = v /\ \A i \in 1..n : f[i] = step[<<i, f[i - 1]>>]
    BY <1>2
  <2> DEFINE g == [i \in 0..(n + 1) |-> IF i = n + 1 THEN step[<<n + 1, f[n]>>] ELSE f[i]]
  <2>2. f[n] \in V /\ n + 1 \in 1..N /\ n \in Nat
    BY <2>1
  <2>3. step[<<n + 1, f[n]>>] \in V
    <3>1. <<n + 1, f[n]>> \in (1..N) \X V
      BY <2>2
    <3>2. QED
      BY <3>1, Zenon
  <2>4. g \in [0..(n + 1) -> V]
    BY <2>1, <2>2, <2>3
  <2>5. g[0] = v
    BY <2>1, <2>2
  <2>6. ASSUME NEW i \in 1..(n + 1) PROVE g[i] = step[<<i, g[i - 1]>>]
    <3>1. CASE i = n + 1
      <4>1. g[i] = step[<<n + 1, f[n]>>] /\ i - 1 = n /\ g[i - 1] = f[n]
        BY <2>2, <3>1
      <4>2. QED
        BY <3>1, <4>1
    <3>2. CASE i \in 1..n
      <4>1. g[i] = f[i] /\ g[i - 1] = f[i - 1]
        BY <2>2, <3>2
      <4>2. QED
        BY <2>1, <3>2, <4>1
    <3>3. QED
      BY <2>2, <3>1, <3>2
  <2>7. n + 1 \in 0..N
    BY <2>2
  <2> HIDE DEF g
  <2>8. QED
    BY <2>4, <2>5, <2>6, <2>7
<1> HIDE DEF S
<1>3. 0..N \subseteq S
  BY <1>1, <1>2, Induction
<1>4. N \in S
  BY <1>3
<1>5. QED
  BY <1>4 DEF S, Recursion

LEMMA RecursionUnique ==
  ASSUME NEW N \in Nat, NEW f, NEW g, NEW step, f[0] = g[0],
         \A i \in 1..N : f[i] = step[<<i, f[i - 1]>>],
         \A i \in 1..N : g[i] = step[<<i, g[i - 1]>>]
  PROVE  \A i \in 0..N : f[i] = g[i]
<1> DEFINE S == {n \in 0..N : f[n] = g[n]}
<1>1. 0 \in S
  OBVIOUS
<1>2. ASSUME NEW n \in 0..(N - 1), n \in S PROVE n + 1 \in S
  <2>1. n + 1 \in 1..N /\ (n + 1) - 1 = n /\ n + 1 \in 0..N
    OBVIOUS
  <2>2. f[n + 1] = step[<<n + 1, f[n]>>] /\ g[n + 1] = step[<<n + 1, g[n]>>] /\ f[n] = g[n]
    BY <1>2, <2>1
  <2>3. QED
    BY <2>1, <2>2
<1> HIDE DEF S
<1>3. 0..N \subseteq S
  BY <1>1, <1>2, Induction
<1>4. QED
  BY <1>3 DEF S

-----------------------------------------------------------------------------
(* FlattenSeq, which is recursive: a sequence more is appended.            *)

LEMMA ConcatTyped ==
  ASSUME NEW T, NEW r \in Seq(T), NEW s \in Seq(T)
  PROVE  /\ r \o s \in Seq(T)
         /\ Len(r \o s) = Len(r) + Len(s)
         /\ \A i \in 1..Len(r) : (r \o s)[i] = r[i]
         /\ \A i \in 1..Len(s) : (r \o s)[Len(r) + i] = s[i]
<1>1. Len(r) \in Nat /\ Len(s) \in Nat
  BY LenProperties
<1>2. r \o s \in Seq(T) /\ Len(r \o s) = Len(r) + Len(s)
  BY ConcatProperties
<1>3. \A i \in 1..(Len(r) + Len(s)) :
        (r \o s)[i] = IF i <= Len(r) THEN r[i] ELSE s[i - Len(r)]
  BY ConcatProperties
<1>4. ASSUME NEW i \in 1..Len(s) PROVE (r \o s)[Len(r) + i] = s[i]
  <2>1. Len(r) + i \in 1..(Len(r) + Len(s)) /\ ~(Len(r) + i <= Len(r)) /\ (Len(r) + i) - Len(r) = i
    BY <1>1
  <2>2. QED
    BY <1>3, <2>1
<1>5. ASSUME NEW i \in 1..Len(r) PROVE (r \o s)[i] = r[i]
  <2>1. i \in 1..(Len(r) + Len(s)) /\ i <= Len(r)
    BY <1>1
  <2>2. QED
    BY <1>3, <2>1
<1>6. QED
  BY <1>2, <1>4, <1>5

(* What FlattenSeq unfolds to.                                             *)
Flattening(f, s) == f = [i \in 1..Len(s) |-> IF i = 1 THEN s[i] ELSE f[i - 1] \o s[i]]

LEMMA FlatteningExists ==
  ASSUME NEW T, NEW s \in Seq(Seq(T))
  PROVE  \E f \in [1..Len(s) -> Seq(T)] : Flattening(f, s)
<1> DEFINE V == Seq(T)
           N == Len(s)
           step == [p \in (1..N) \X V |-> IF p[1] = 1 THEN s[1] ELSE p[2] \o s[p[1]]]
<1>1. N \in Nat /\ << >> \in V /\ \A i \in 1..N : s[i] \in V
  BY LenProperties, EmptySeq, ElementOfSeq
<1>2. step \in [(1..N) \X V -> V]
  <2>1. ASSUME NEW p \in (1..N) \X V
        PROVE  (IF p[1] = 1 THEN s[1] ELSE p[2] \o s[p[1]]) \in V
    <3>1. p[1] \in 1..N /\ p[2] \in V
      OBVIOUS
    <3>2. s[p[1]] \in V
      BY <1>1, <3>1
    <3>3. p[2] \o s[p[1]] \in V
      BY <3>1, <3>2, ConcatTyped
    <3>4. QED
      BY <3>2, <3>3
  <2>2. QED
    BY <2>1
<1> HIDE DEF N, step, V
<1>3. PICK g \in [0..N -> V] : g[0] = << >> /\ \A i \in 1..N : g[i] = step[<<i, g[i - 1]>>]
  <2> DEFINE v == << >>
  <2>1. N \in Nat
    BY <1>1
  <2>2. v \in V
    BY <1>1
  <2> HIDE DEF v
  <2>3. \E g \in [0..N -> V] : Recursion(g, N, v, step)
    BY <2>1, <2>2, <1>2, RecursionExists, Zenon
  <2>4. QED
    BY <2>3 DEF v, Recursion
<1> DEFINE f == [i \in 1..N |-> g[i]]
<1>4. f \in [1..N -> V]
  BY <1>1, <1>3
<1>5. ASSUME NEW i \in 1..N
      PROVE  f[i] = IF i = 1 THEN s[i] ELSE f[i - 1] \o s[i]
  <2>1. i \in Nat /\ i - 1 \in 0..N /\ <<i, g[i - 1]>> \in (1..N) \X V
    BY <1>1, <1>3
  <2>2. g[i] = IF i = 1 THEN s[1] ELSE g[i - 1] \o s[i]
    <3>1. step[<<i, g[i - 1]>>] = IF i = 1 THEN s[1] ELSE g[i - 1] \o s[i]
      BY <2>1 DEF step
    <3>2. QED
      BY <1>3, <3>1
  <2>3. i # 1 => i - 1 \in 1..N
    BY <2>1
  <2>4. QED
    BY <2>2, <2>3
<1>6. f = [i \in 1..N |-> IF i = 1 THEN s[i] ELSE f[i - 1] \o s[i]]
  BY <1>5
<1> HIDE DEF f
<1>7. QED
  BY <1>4, <1>6 DEF Flattening, N, V

AgreeTo(n, f, g) == \A i \in 1..n : f[i] = g[i]

LEMMA FlatteningUnique ==
  ASSUME NEW s, NEW t, NEW n \in Nat, n <= Len(s), n <= Len(t), Len(s) \in Nat, Len(t) \in Nat,
         AgreeTo(n, s, t), NEW f, Flattening(f, s), NEW g, Flattening(g, t)
  PROVE  AgreeTo(n, f, g)
<1> DEFINE S == {k \in 1..n : f[k] = g[k]}
<1>1. \A i \in 1..n : /\ f[i] = IF i = 1 THEN s[i] ELSE f[i - 1] \o s[i]
                      /\ g[i] = IF i = 1 THEN t[i] ELSE g[i - 1] \o t[i]
                      /\ s[i] = t[i]
  <2> TAKE i \in 1..n
  <2>1. i \in 1..Len(s) /\ i \in 1..Len(t)
    OBVIOUS
  <2>2. f[i] = IF i = 1 THEN s[i] ELSE f[i - 1] \o s[i]
    BY <2>1 DEF Flattening
  <2>3. g[i] = IF i = 1 THEN t[i] ELSE g[i - 1] \o t[i]
    BY <2>1 DEF Flattening
  <2>4. s[i] = t[i]
    BY DEF AgreeTo
  <2>5. QED
    BY <2>2, <2>3, <2>4
<1>2. CASE n = 0
  BY <1>2 DEF AgreeTo
<1>3. CASE n # 0
  <2>1. 1 \in S
    BY <1>1, <1>3
  <2>2. ASSUME NEW k \in 1..(n - 1), k \in S PROVE k + 1 \in S
    <3>1. k + 1 \in 1..n /\ k + 1 # 1 /\ (k + 1) - 1 = k /\ f[k] = g[k]
      BY <2>2
    <3>2. QED
      BY ONLY <1>1, <3>1 DEF S
  <2> HIDE DEF S
  <2>3. 1..n \subseteq S
    BY <2>1, <2>2, Induction
  <2>4. QED
    BY <2>3 DEF S, AgreeTo
<1>4. QED
  BY <1>2, <1>3

LEMMA FlattenIs ==
  ASSUME NEW T, NEW s \in Seq(Seq(T)), s # << >>
  PROVE  \E f \in [1..Len(s) -> Seq(T)] : Flattening(f, s) /\ FlattenSeq(s) = f[Len(s)]
<1> DEFINE c == CHOOSE f : Flattening(f, s)
<1>1. PICK g \in [1..Len(s) -> Seq(T)] : Flattening(g, s)
  BY FlatteningExists
<1>2. Flattening(c, s)
  BY <1>1
<1>3. Len(s) \in Nat \ {0}
  BY LenProperties, EmptySeq
<1>4. FlattenSeq(s) = c[Len(s)]
  BY <1>3 DEF FlattenSeq, Flattening
<1>5. AgreeTo(Len(s), g, c)
  <2>1. AgreeTo(Len(s), s, s)
    BY DEF AgreeTo
  <2> HIDE DEF c
  <2>2. QED
    BY <1>1, <1>2, <1>3, <2>1, FlatteningUnique
<1>6. Len(s) \in 1..Len(s)
  BY <1>3
<1>7. QED
  BY <1>1, <1>4, <1>5, <1>6 DEF AgreeTo

LEMMA FlattenEmpty == FlattenSeq(<< >>) = << >>
BY EmptySeq DEF FlattenSeq

LEMMA FlattenTyped ==
  ASSUME NEW T, NEW s \in Seq(Seq(T))
  PROVE  FlattenSeq(s) \in Seq(T)
<1>1. CASE s = << >>
  BY <1>1, FlattenEmpty, EmptySeq
<1>2. CASE s # << >>
  <2>1. Len(s) \in 1..Len(s)
    BY <1>2, LenProperties, EmptySeq
  <2>2. PICK f \in [1..Len(s) -> Seq(T)] : FlattenSeq(s) = f[Len(s)]
    BY <1>2, FlattenIs
  <2>3. f[Len(s)] \in Seq(T)
    BY <2>1
  <2>4. QED
    BY <2>2, <2>3, Zenon
<1>3. QED
  BY <1>1, <1>2

LEMMA FlattenAppend ==
  ASSUME NEW T, NEW s \in Seq(Seq(T)), NEW x \in Seq(T)
  PROVE  FlattenSeq(Append(s, x)) = FlattenSeq(s) \o x
<1> DEFINE t == Append(s, x)
           n == Len(s)
<1>1. n \in Nat
  BY LenProperties
<1>2. /\ t \in Seq(Seq(T)) /\ Len(t) = n + 1 /\ t[n + 1] = x
      /\ \A i \in 1..n : t[i] = s[i]
  BY AppendProperties
<1>3. t # << >>
  BY <1>1, <1>2, EmptySeq
<1> HIDE DEF t
<1>4. PICK g \in [1..Len(t) -> Seq(T)] : Flattening(g, t) /\ FlattenSeq(t) = g[Len(t)]
  BY <1>2, <1>3, FlattenIs
<1>5. g[n + 1] = IF n + 1 = 1 THEN t[n + 1] ELSE g[(n + 1) - 1] \o t[n + 1]
  <2>1. n + 1 \in 1..Len(t)
    BY <1>1, <1>2
  <2>2. QED
    BY <1>4, <2>1 DEF Flattening
<1>6. CASE s = << >>
  <2>1. n = 0
    BY <1>6, EmptySeq
  <2>2. FlattenSeq(t) = x
    BY <1>2, <1>4, <1>5, <2>1
  <2>3. << >> \o x = x
    BY ConcatEmptySeq
  <2>4. QED
    BY <1>6, <2>2, <2>3, FlattenEmpty DEF t
<1>7. CASE s # << >>
  <2>1. PICK f \in [1..n -> Seq(T)] : Flattening(f, s) /\ FlattenSeq(s) = f[n]
    BY <1>7, FlattenIs
  <2>2. n # 0 /\ n \in 1..n
    BY <1>1, <1>7, EmptySeq
  <2>3. f[n] = g[n]
    <3>1. n <= Len(s) /\ n <= Len(t) /\ Len(s) \in Nat /\ Len(t) \in Nat /\ AgreeTo(n, s, t)
      BY <1>1, <1>2 DEF AgreeTo
    <3>a. Flattening(f, s)
      BY <2>1
    <3>b. Flattening(g, t)
      BY <1>4
    <3> HIDE DEF n
    <3>2. AgreeTo(n, f, g)
      BY <1>1, <3>1, <3>a, <3>b, FlatteningUnique
    <3>3. QED
      BY <2>2, <3>2 DEF AgreeTo
  <2>4. g[n + 1] = g[n] \o x
    BY <1>1, <1>2, <1>5, <2>2
  <2>5. QED
    BY <1>2, <1>4, <2>1, <2>3, <2>4 DEF t
<1>8. QED
  BY <1>6, <1>7

-----------------------------------------------------------------------------
(* Counting.                                                               *)

Count(S, n) == Cardinality(S \cap 1..n)

LEMMA Counting ==
  ASSUME NEW S, NEW n \in Nat
  PROVE  /\ Count(S, 0) = 0
         /\ Count(S, n) \in Nat
         /\ Count(S, n) = 0 <=> S \cap 1..n = {}
         /\ n + 1 \in S => Count(S, n + 1) = Count(S, n) + 1
         /\ n + 1 \notin S => Count(S, n + 1) = Count(S, n)
<1>1. S \cap 1..0 = {} /\ Count(S, 0) = 0
  BY FS_EmptySet DEF Count
<1>2. IsFiniteSet(S \cap 1..n)
  <2>1. IsFiniteSet(1..n)
    BY FS_Interval
  <2>2. QED
    BY <2>1, FS_Subset
<1>3. Count(S, n) \in Nat
  BY <1>2, FS_CardinalityType DEF Count
<1>4. Count(S, n) = 0 <=> S \cap 1..n = {}
  BY <1>2, FS_EmptySet DEF Count
<1>5. ASSUME n + 1 \in S PROVE Count(S, n + 1) = Count(S, n) + 1
  <2>1. S \cap 1..(n + 1) = (S \cap 1..n) \cup {n + 1} /\ n + 1 \notin S \cap 1..n
    BY <1>5
  <2>2. Cardinality((S \cap 1..n) \cup {n + 1}) = Cardinality(S \cap 1..n) + 1
    BY <1>2, <2>1, FS_AddElement
  <2>3. QED
    BY <2>1, <2>2 DEF Count
<1>6. ASSUME n + 1 \notin S PROVE Count(S, n + 1) = Count(S, n)
  <2>1. S \cap 1..(n + 1) = S \cap 1..n
    BY <1>6
  <2>2. QED
    BY <2>1 DEF Count
<1>7. QED
  BY <1>1, <1>3, <1>4, <1>5, <1>6
=============================================================================
