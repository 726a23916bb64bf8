-------------------------- MODULE SpanSectionsProofs --------------------------
(***************************************************************************)
(* What a scan has to keep to find the sections of SpanSections, for every *)
(* request and for sources of any length.  A scan looks at the cells in    *)
(* order and plans a span now and then.  Follow says of the spans so far   *)
(* that they are the parts of what lies before a cell, and the lemmas that *)
(* a scan of each kind keeps it: cells that no output has are passed, and  *)
(* a span is added that is the next part.  SpanOutputsProofs and           *)
(* LineScanProofs use them, for two scans of the same sections.            *)
(***************************************************************************)
EXTENDS SpanSections, DataInduction

-----------------------------------------------------------------------------
(* Sets of numbers in order.                                               *)

Increasing(f, n) == \A j, k \in 1..n : j < k => f[j] < f[k]

LEMMA ImageSize ==
  ASSUME NEW n \in Nat, NEW f \in [1..n -> Int], Increasing(f, n)
  PROVE  IsFiniteSet({f[k] : k \in 1..n}) /\ Cardinality({f[k] : k \in 1..n}) = n
<1> DEFINE S == {f[k] : k \in 1..n}
<1>1. f \in [1..n -> S]
  OBVIOUS
<1>2. \A j, k \in 1..n : f[j] = f[k] => j = k
  <2> SUFFICES ASSUME NEW j \in 1..n, NEW k \in 1..n, f[j] = f[k] PROVE j = k
    OBVIOUS
  <2>1. f[j] \in Int /\ f[k] \in Int /\ j \in Int /\ k \in Int
    OBVIOUS
  <2>2. ~(j < k) /\ ~(k < j)
    BY <2>1 DEF Increasing
  <2>3. QED
    BY <2>1, <2>2
<1>3. \A t \in S : \E k \in 1..n : f[k] = t
  OBVIOUS
<1>4. f \in Bijection(1..n, S)
  <2> HIDE DEF S
  <2>1. QED
    BY <1>1, <1>2, <1>3 DEF Bijection, Injection, Surjection, IsInjective
<1>5. ExistsBijection(1..n, S)
  <2> HIDE DEF S
  <2>1. QED
    BY <1>4 DEF ExistsBijection
<1>6. IsFiniteSet(1..n) /\ Cardinality(1..n) = n
  BY FS_Interval
<1>7. QED
  <2> HIDE DEF S
  <2>1. IsFiniteSet(S) /\ Cardinality(S) = n
    BY <1>5, <1>6, FS_Bijection
  <2>2. QED
    BY <2>1 DEF S

(* An enumeration that grows is the order of what it enumerates.           *)
LEMMA InOrderIs ==
  ASSUME NEW n \in Nat, NEW f \in [1..n -> Int], Increasing(f, n),
         NEW S, S = {f[k] : k \in 1..n}
  PROVE  Cardinality(S) = n /\ IsFiniteSet(S) /\ InOrder(S) = f
<1>1. Cardinality(S) = n /\ IsFiniteSet(S)
  BY ImageSize
<1> DEFINE Less(x) == {m \in S : m < x}
<1>2. ASSUME NEW k \in 1..n PROVE Cardinality(Less(f[k])) = k - 1
  <2> DEFINE g == [j \in 1..(k - 1) |-> f[j]]
  <2>1. k - 1 \in Nat /\ \A j \in 1..(k - 1) : j \in 1..n /\ j < k /\ g[j] = f[j]
    OBVIOUS
  <2>2. g \in [1..(k - 1) -> Int] /\ Increasing(g, k - 1)
    BY <2>1 DEF Increasing
  <2>3. Less(f[k]) = {g[j] : j \in 1..(k - 1)}
    <3>1. ASSUME NEW x \in Less(f[k]) PROVE \E j \in 1..(k - 1) : g[j] = x
      <4>1. x \in S /\ x < f[k]
        OBVIOUS
      <4>2. PICK j \in 1..n : x = f[j]
        BY <4>1
      <4>3. j < k
        <5>1. ~(k < j) /\ j # k
          <6>1. f[j] < f[k] /\ f[j] \in Int /\ f[k] \in Int
            BY <4>1, <4>2
          <6>2. ~(f[k] < f[j]) /\ f[k] # f[j]
            BY <6>1
          <6>3. QED
            BY <6>2 DEF Increasing
        <5>2. QED
          BY <5>1
      <4>4. j \in 1..(k - 1)
        BY <4>3
      <4>5. QED
        BY <2>1, <4>2, <4>4
    <3>2. ASSUME NEW j \in 1..(k - 1) PROVE g[j] \in Less(f[k])
      <4>1. j \in 1..n /\ j < k /\ g[j] = f[j]
        BY <2>1
      <4>2. f[j] < f[k] /\ f[j] \in S
        BY <4>1 DEF Increasing
      <4>3. QED
        BY <4>1, <4>2
    <3> HIDE DEF g, Less
    <3>3. QED
      BY <3>1, <3>2
  <2> HIDE DEF g, Less
  <2>4. QED
    BY <2>1, <2>2, <2>3, ImageSize
<1>3. ASSUME NEW k \in 1..n
      PROVE  (CHOOSE x \in S : Cardinality(Less(x)) = k - 1) = f[k]
  <2>1. f[k] \in S
    OBVIOUS
  <2>2. ASSUME NEW x \in S, Cardinality(Less(x)) = k - 1 PROVE x = f[k]
    <3>1. PICK j \in 1..n : x = f[j]
      OBVIOUS
    <3>2. Cardinality(Less(f[j])) = j - 1
      BY <1>2
    <3>3. j - 1 = k - 1
      BY <2>2, <3>1, <3>2
    <3>4. j = k
      BY <3>3
    <3>5. QED
      BY <3>1, <3>4
  <2>3. Cardinality(Less(f[k])) = k - 1
    BY <1>2
  <2> HIDE DEF Less
  <2>4. QED
    BY <2>1, <2>2, <2>3
<1>4. InOrder(S) = [k \in 1..n |-> CHOOSE x \in S : Cardinality(Less(x)) = k - 1]
  BY <1>1 DEF InOrder
<1>5. [k \in 1..n |-> CHOOSE x \in S : Cardinality(Less(x)) = k - 1] = [k \in 1..n |-> f[k]]
  <2> HIDE DEF Less
  <2>1. QED
    BY <1>3
<1>6. QED
  BY <1>1, <1>4, <1>5

-----------------------------------------------------------------------------
(* Spans that follow the parts of a source.                                *)

(* A span that is an output: it has cells, all of one part.                *)
IsPart(r, s, q) ==
  /\ q.from \in Nat \ {0} /\ q.to \in Nat
  /\ q.from <= q.to /\ q.to <= Len(s)
  /\ \A i \in q.from..q.to : InOutput(r, s, i) /\ PartOf(r, s, i) = PartOf(r, s, q.from)

(* P has the parts of what lies before cell n, in order.                   *)
Follow(r, s, P, n) ==
  /\ \A k \in 1..Len(P) : IsPart(r, s, P[k]) /\ P[k].to < n
  /\ \A j, k \in 1..Len(P) : j < k =>
       P[j].to < P[k].from /\ PartOf(r, s, P[j].from) < PartOf(r, s, P[k].from)
  /\ \A i \in 1..(n - 1) : InOutput(r, s, i) => \E k \in 1..Len(P) : i \in P[k].from..P[k].to

SectionsOf(s, P) == [k \in 1..Len(P) |-> SubSeq(s, P[k].from, P[k].to)]

LEMMA SubsetSize ==
  ASSUME NEW n \in Nat, NEW S \in SUBSET (1..n)
  PROVE  Cardinality(S) \in 0..n
<1>1. IsFiniteSet(1..n) /\ Cardinality(1..n) = n
  BY FS_Interval
<1>2. IsFiniteSet(S) /\ Cardinality(S) <= n
  BY <1>1, FS_Subset
<1>3. Cardinality(S) \in Nat
  BY <1>2, FS_CardinalityType
<1>4. QED
  BY <1>2, <1>3

LEMMA PartType ==
  ASSUME NEW r, r.op \in Command, NEW s, Len(s) \in Nat, NEW i \in 1..Len(s)
  PROVE  PartOf(r, s, i) \in 0..Len(s)
<1>1. \A S \in SUBSET (1..Len(s)) : Cardinality(S) \in 0..Len(s)
  BY SubsetSize
<1>2. SplitPart(r, s, i) \in 0..Len(s)
  <2>1. {j \in 1..i : s[j] \in r.opens} \in SUBSET (1..Len(s))
    OBVIOUS
  <2>2. QED
    BY <1>1, <2>1 DEF SplitPart
<1>3. BlockPart(r, s, i) \in 0..Len(s)
  <2>1. {j \in BlockStarts(r, s) : IF r.bare THEN j < i ELSE j <= i} \in SUBSET (1..Len(s))
    BY DEF BlockStarts
  <2>2. QED
    BY <1>1, <2>1 DEF BlockPart
<1>4. 1 \in 0..Len(s)
  OBVIOUS
<1>5. QED
  BY <1>2, <1>3, <1>4 DEF PartOf, Command

(* Two spans of a plan that have cells of one part are one.                *)
LEMMA FollowCells ==
  ASSUME NEW r, r.op \in Command, NEW s, Len(s) \in Nat, NEW P, Len(P) \in Nat,
         Follow(r, s, P, Len(s) + 1), NEW k \in 1..Len(P)
  PROVE  CellsOf(r, s, PartOf(r, s, P[k].from)) = P[k].from..P[k].to
<1>1. \A j \in 1..Len(P) : /\ IsPart(r, s, P[j])
                           /\ P[j].from \in 1..Len(s) /\ P[j].to \in 1..Len(s)
                           /\ PartOf(r, s, P[j].from) \in Int
  <2> TAKE j \in 1..Len(P)
  <2>1. IsPart(r, s, P[j])
    BY DEF Follow
  <2>2. P[j].from \in 1..Len(s) /\ P[j].to \in 1..Len(s)
    BY <2>1 DEF IsPart
  <2>3. PartOf(r, s, P[j].from) \in 0..Len(s)
    BY <2>2, PartType
  <2>4. QED
    BY <2>1, <2>2, <2>3
<1>2. ASSUME NEW i \in P[k].from..P[k].to
      PROVE  i \in CellsOf(r, s, PartOf(r, s, P[k].from))
  <2>1. InOutput(r, s, i) /\ PartOf(r, s, i) = PartOf(r, s, P[k].from) /\ i \in 1..Len(s)
    BY <1>1 DEF IsPart
  <2>2. QED
    BY <2>1 DEF CellsOf
<1>3. ASSUME NEW i \in CellsOf(r, s, PartOf(r, s, P[k].from))
      PROVE  i \in P[k].from..P[k].to
  <2>1. i \in 1..Len(s) /\ InOutput(r, s, i) /\ PartOf(r, s, i) = PartOf(r, s, P[k].from)
    BY DEF CellsOf
  <2>2. i \in 1..((Len(s) + 1) - 1)
    BY <2>1
  <2>3. PICK j \in 1..Len(P) : i \in P[j].from..P[j].to
    BY <2>1, <2>2 DEF Follow
  <2>4. PartOf(r, s, i) = PartOf(r, s, P[j].from)
    BY <1>1, <2>3 DEF IsPart
  <2>5. j = k
    <3> DEFINE a == PartOf(r, s, P[j].from)
               b == PartOf(r, s, P[k].from)
    <3>1. a = b /\ a \in Int /\ b \in Int
      BY <1>1, <2>1, <2>4
    <3>2. (j < k => a < b) /\ (k < j => b < a)
      BY DEF Follow
    <3> HIDE DEF a, b
    <3>3. QED
      BY <3>1, <3>2
  <2>6. QED
    BY <2>3, <2>5
<1>4. QED
  BY <1>2, <1>3

(* The parts of what lies before n.                                        *)
PartsBefore(r, s, n) ==
  {PartOf(r, s, i) : i \in {j \in 1..(n - 1) : InOutput(r, s, j)}}

LEMMA FollowParts ==
  ASSUME NEW r, r.op \in Command, NEW s, Len(s) \in Nat, NEW P, Len(P) \in Nat,
         NEW n \in 1..(Len(s) + 1), Follow(r, s, P, n)
  PROVE  /\ Cardinality(PartsBefore(r, s, n)) = Len(P)
         /\ IsFiniteSet(PartsBefore(r, s, n))
         /\ InOrder(PartsBefore(r, s, n)) = [k \in 1..Len(P) |-> PartOf(r, s, P[k].from)]
<1> DEFINE f == [k \in 1..Len(P) |-> PartOf(r, s, P[k].from)]
           B == PartsBefore(r, s, n)
<1>1. \A j \in 1..Len(P) : /\ IsPart(r, s, P[j]) /\ P[j].to < n
                           /\ P[j].from \in 1..Len(s) /\ P[j].to \in 1..Len(s)
                           /\ PartOf(r, s, P[j].from) \in Int
  <2> TAKE j \in 1..Len(P)
  <2>1. IsPart(r, s, P[j]) /\ P[j].to < n
    BY DEF Follow
  <2>2. P[j].from \in 1..Len(s) /\ P[j].to \in 1..Len(s)
    BY <2>1 DEF IsPart
  <2>3. PartOf(r, s, P[j].from) \in 0..Len(s)
    BY <2>2, PartType
  <2>4. QED
    BY <2>1, <2>2, <2>3
<1>2. f \in [1..Len(P) -> Int] /\ Increasing(f, Len(P))
  BY <1>1 DEF Increasing, Follow
<1>3. ASSUME NEW x \in B PROVE \E k \in 1..Len(P) : x = f[k]
  <2>1. PICK i \in 1..(n - 1) : InOutput(r, s, i) /\ x = PartOf(r, s, i)
    BY DEF PartsBefore
  <2>2. PICK k \in 1..Len(P) : i \in P[k].from..P[k].to
    BY <2>1 DEF Follow
  <2>3. PartOf(r, s, i) = PartOf(r, s, P[k].from)
    BY <1>1, <2>2 DEF IsPart
  <2>4. QED
    BY <2>1, <2>3
<1>4. ASSUME NEW k \in 1..Len(P) PROVE f[k] \in B
  <2>1. P[k].from \in 1..(n - 1)
    BY <1>1 DEF IsPart
  <2>2. InOutput(r, s, P[k].from)
    BY <1>1 DEF IsPart
  <2>3. QED
    BY <2>1, <2>2 DEF PartsBefore
<1>5. B = {f[k] : k \in 1..Len(P)}
  <2> HIDE DEF f, B
  <2>1. QED
    BY <1>3, <1>4
<1> HIDE DEF f, B
<1>6. Cardinality(B) = Len(P) /\ IsFiniteSet(B) /\ InOrder(B) = f
  BY <1>2, <1>5, InOrderIs
<1>7. QED
  BY <1>6 DEF f, B

LEMMA PartsAre ==
  ASSUME NEW r, r.op \in Command, NEW s, Len(s) \in Nat
  PROVE  PartsBefore(r, s, Len(s) + 1) = Parts(r, s)
<1>0. (Len(s) + 1) - 1 = Len(s)
  OBVIOUS
<1>1. ASSUME NEW x \in PartsBefore(r, s, Len(s) + 1) PROVE x \in Parts(r, s)
  <2>1. PICK i \in 1..Len(s) : InOutput(r, s, i) /\ x = PartOf(r, s, i)
    BY <1>0 DEF PartsBefore
  <2>2. i \in CellsOf(r, s, x) /\ x \in 0..Len(s)
    BY <2>1, PartType DEF CellsOf
  <2>3. QED
    BY <2>2 DEF Parts
<1>2. ASSUME NEW x \in Parts(r, s) PROVE x \in PartsBefore(r, s, Len(s) + 1)
  <2>1. PICK i \in 1..Len(s) : InOutput(r, s, i) /\ PartOf(r, s, i) = x
    BY DEF Parts, CellsOf
  <2>2. QED
    BY <1>0, <2>1 DEF PartsBefore
<1>3. QED
  BY <1>1, <1>2

(* Spans that follow the whole source are its sections.                    *)
LEMMA FollowSections ==
  ASSUME NEW r, r.op \in Command, NEW T, NEW s \in Seq(T), NEW P, Len(P) \in Nat,
         Follow(r, s, P, Len(s) + 1)
  PROVE  /\ Sections(r, s) = SectionsOf(s, P)
         /\ Cardinality(Parts(r, s)) = Len(P)
<1> DEFINE parts == InOrder(Parts(r, s))
           cells(part) == InOrder(CellsOf(r, s, part))
           content(part) == [k \in DOMAIN cells(part) |-> s[cells(part)[k]]]
<1>1. Len(s) \in Nat /\ Len(s) + 1 \in 1..(Len(s) + 1)
  BY LenProperties
<1>2. /\ Cardinality(Parts(r, s)) = Len(P)
      /\ parts = [k \in 1..Len(P) |-> PartOf(r, s, P[k].from)]
  BY <1>1, FollowParts, PartsAre
<1>3. ASSUME NEW k \in 1..Len(P)
      PROVE  content(PartOf(r, s, P[k].from)) = SubSeq(s, P[k].from, P[k].to)
  <2> DEFINE a == P[k].from
             b == P[k].to
             g == [j \in 1..(b - a + 1) |-> a + j - 1]
             S == CellsOf(r, s, PartOf(r, s, P[k].from))
  <2>1. a \in Nat \ {0} /\ b \in Nat /\ a <= b /\ b <= Len(s)
    BY DEF Follow, IsPart
  <2>2. S = a..b
    BY <1>1, FollowCells
  <2>3. b - a + 1 \in Nat /\ g \in [1..(b - a + 1) -> Int] /\ Increasing(g, b - a + 1)
    BY <2>1 DEF Increasing
  <2>4. a..b = {g[j] : j \in 1..(b - a + 1)}
    <3> HIDE DEF a, b
    <3>1. ASSUME NEW i \in a..b PROVE \E j \in 1..(b - a + 1) : i = g[j]
      <4>1. i - a + 1 \in 1..(b - a + 1) /\ a + (i - a + 1) - 1 = i
        BY <2>1
      <4>2. QED
        BY <4>1
    <3>2. ASSUME NEW j \in 1..(b - a + 1) PROVE g[j] \in a..b
      BY <2>1
    <3> HIDE DEF g
    <3>3. QED
      BY <3>1, <3>2
  <2>5. InOrder(S) = g
    <3> HIDE DEF a, b, g, S
    <3>1. QED
      BY <2>2, <2>3, <2>4, InOrderIs
  <2>6. content(PartOf(r, s, P[k].from)) = [j \in 1..(b - a + 1) |-> s[a + j - 1]]
    <3>1. content(PartOf(r, s, P[k].from)) = [j \in DOMAIN g |-> s[g[j]]]
      <4> HIDE DEF g
      <4>1. QED
        BY <2>5
    <3>2. DOMAIN g = 1..(b - a + 1) /\ \A j \in 1..(b - a + 1) : g[j] = a + j - 1
      OBVIOUS
    <3> HIDE DEF g, a, b, content
    <3>3. QED
      BY <3>1, <3>2
  <2>7. [j \in 1..(b - a + 1) |-> s[a + j - 1]] = SubSeq(s, a, b)
    <3> HIDE DEF a, b
    <3>1. QED
      BY <2>1, <1>1
  <2>8. QED
    BY <2>6, <2>7
<1>4. Sections(r, s) = [k \in DOMAIN parts |-> content(parts[k])]
  BY DEF Sections
<1>5. Sections(r, s) = [k \in 1..Len(P) |-> content(PartOf(r, s, P[k].from))]
  <2> HIDE DEF parts, content
  <2>1. DOMAIN parts = 1..Len(P) /\ \A k \in 1..Len(P) : parts[k] = PartOf(r, s, P[k].from)
    BY <1>2
  <2>2. QED
    BY <1>4, <2>1
<1>6. QED
  <2> HIDE DEF content
  <2>1. QED
    BY <1>2, <1>3, <1>5 DEF SectionsOf

-----------------------------------------------------------------------------
(* A plan grows.                                                           *)

(* q is the part that comes after those of P, and there is no other before *)
(* cell n.                                                                 *)
NextPart(r, s, P, q, n) ==
  /\ IsPart(r, s, q)
  /\ q.to < n
  /\ \A k \in 1..Len(P) :
       P[k].to < q.from /\ PartOf(r, s, P[k].from) < PartOf(r, s, q.from)
  /\ \A i \in 1..(n - 1) : InOutput(r, s, i) =>
       i \in q.from..q.to \/ \E k \in 1..Len(P) : i \in P[k].from..P[k].to

Extends(P, q, Q) ==
  /\ Len(Q) = Len(P) + 1
  /\ \A k \in 1..Len(P) : Q[k] = P[k]
  /\ Q[Len(P) + 1].from = q.from /\ Q[Len(P) + 1].to = q.to

LEMMA FollowSkip ==
  ASSUME NEW r, NEW s, NEW P, NEW n \in Nat, NEW m \in Nat, n <= m,
         Follow(r, s, P, n), \A i \in n..(m - 1) : ~InOutput(r, s, i)
  PROVE  Follow(r, s, P, m)
<1>1. \A k \in 1..Len(P) : IsPart(r, s, P[k]) /\ P[k].to < m
  <2> TAKE k \in 1..Len(P)
  <2>1. IsPart(r, s, P[k]) /\ P[k].to < n
    BY DEF Follow
  <2>2. P[k].to \in Nat
    BY <2>1 DEF IsPart
  <2>3. QED
    BY <2>1, <2>2
<1>2. ASSUME NEW i \in 1..(m - 1), InOutput(r, s, i)
      PROVE  \E k \in 1..Len(P) : i \in P[k].from..P[k].to
  <2>1. i \in 1..(n - 1)
    BY <1>2
  <2>2. QED
    BY <1>2, <2>1 DEF Follow
<1>3. QED
  BY <1>1, <1>2 DEF Follow

LEMMA FollowAppend ==
  ASSUME NEW r, NEW s, NEW P, Len(P) \in Nat, NEW q, NEW Q, NEW m \in Nat, NEW n \in Nat,
         n <= m, Follow(r, s, P, n), NextPart(r, s, P, q, m), Extends(P, q, Q)
  PROVE  Follow(r, s, Q, m)
<1> DEFINE l == Len(P) + 1
<1>1. l \in Nat /\ Len(Q) = l /\ \A k \in 1..l : k \in 1..Len(P) \/ k = l
  BY DEF Extends
<1>2. IsPart(r, s, Q[l]) /\ Q[l].to < m /\ Q[l].from = q.from /\ Q[l].to = q.to
  BY DEF NextPart, IsPart, Extends
<1>3. \A k \in 1..Len(P) : IsPart(r, s, Q[k]) /\ Q[k].to < m /\ Q[k] = P[k]
  <2> TAKE k \in 1..Len(P)
  <2>1. IsPart(r, s, P[k]) /\ P[k].to < n /\ Q[k] = P[k]
    BY DEF Follow, Extends
  <2>2. P[k].to \in Nat
    BY <2>1 DEF IsPart
  <2>3. QED
    BY <2>1, <2>2
<1>4. ASSUME NEW j \in 1..l, NEW k \in 1..l, j < k
      PROVE  Q[j].to < Q[k].from /\ PartOf(r, s, Q[j].from) < PartOf(r, s, Q[k].from)
  <2>1. j \in 1..Len(P)
    BY <1>4
  <2>2. CASE k = l
    BY <1>2, <1>3, <2>1, <2>2 DEF NextPart
  <2>3. CASE k \in 1..Len(P)
    BY <1>3, <1>4, <2>1, <2>3 DEF Follow
  <2>4. QED
    BY <1>1, <2>2, <2>3
<1>5. ASSUME NEW i \in 1..(m - 1), InOutput(r, s, i)
      PROVE  \E k \in 1..l : i \in Q[k].from..Q[k].to
  <2>1. CASE i \in q.from..q.to
    <3>1. l \in 1..l
      BY <1>1
    <3>2. QED
      BY <1>2, <2>1, <3>1
  <2>2. CASE \E k \in 1..Len(P) : i \in P[k].from..P[k].to
    <3>1. PICK k \in 1..Len(P) : i \in P[k].from..P[k].to
      BY <2>2
    <3>2. k \in 1..l
      OBVIOUS
    <3>3. QED
      BY <1>3, <3>1, <3>2
  <2>3. QED
    BY <1>5, <2>1, <2>2 DEF NextPart
<1> HIDE DEF l
<1>6. \A k \in 1..l : IsPart(r, s, Q[k]) /\ Q[k].to < m
  BY <1>1, <1>2, <1>3
<1>7. QED
  BY <1>1, <1>4, <1>5, <1>6 DEF Follow

(* A set that a plan and one part more account for.                        *)
LEMMA NextPartCounts ==
  ASSUME NEW r, r.op \in Command, NEW s, Len(s) \in Nat, NEW P, Len(P) \in Nat, NEW q,
         NEW n \in Nat, NEW m \in 1..(Len(s) + 1),
         n <= m, Follow(r, s, P, n), NextPart(r, s, P, q, m)
  PROVE  Cardinality(PartsBefore(r, s, m)) = Len(P) + 1
<1> DEFINE Q == [k \in 1..(Len(P) + 1) |-> IF k <= Len(P) THEN P[k] ELSE q]
           l == Len(P) + 1
<1>1. l \in Nat /\ Len(Q) = l
  OBVIOUS
<1>2. \A k \in 1..Len(P) : Q[k] = P[k]
  OBVIOUS
<1>3. Q[l] = q
  OBVIOUS
<1>4. Extends(P, q, Q)
  <2> HIDE DEF Q
  <2>1. QED
    BY <1>1, <1>2, <1>3 DEF Extends
<1> HIDE DEF Q
<1>5. Follow(r, s, Q, m)
  BY <1>4, FollowAppend
<1>6. QED
  BY <1>1, <1>5, FollowParts

LEMMA PartsBeforeGrow ==
  ASSUME NEW r, r.op \in Command, NEW s, Len(s) \in Nat,
         NEW n \in 1..(Len(s) + 1), NEW S, IsFiniteSet(S),
         PartsBefore(r, s, n) \subseteq S
  PROVE  /\ Cardinality(PartsBefore(r, s, n)) <= Cardinality(S)
         /\ \A x \in S : x \notin PartsBefore(r, s, n) =>
              Cardinality(PartsBefore(r, s, n)) + 1 <= Cardinality(S)
<1> DEFINE B == PartsBefore(r, s, n)
<1>1. B \in SUBSET S
  OBVIOUS
<1> HIDE DEF B
<1>2. IsFiniteSet(B) /\ Cardinality(B) <= Cardinality(S) /\ (Cardinality(S) = Cardinality(B) => S = B)
  BY <1>1, FS_Subset
<1>3. Cardinality(B) \in Nat /\ Cardinality(S) \in Nat
  BY <1>2, FS_CardinalityType
<1>4. ASSUME NEW x \in S, x \notin B PROVE Cardinality(B) + 1 <= Cardinality(S)
  <2>1. S # B
    BY <1>4
  <2>2. Cardinality(S) # Cardinality(B)
    BY <1>2, <2>1
  <2>3. QED
    BY <1>2, <1>3, <2>2
<1>5. QED
  BY <1>2, <1>4 DEF B

LEMMA PartsFinite ==
  ASSUME NEW r, NEW s, Len(s) \in Nat
  PROVE  IsFiniteSet(Parts(r, s)) /\ Cardinality(Parts(r, s)) \in Nat
<1>1. \A n \in Nat : IsFiniteSet(0..n)
  BY FS_Interval
<1>2. IsFiniteSet(0..Len(s)) /\ Parts(r, s) \in SUBSET (0..Len(s))
  BY <1>1 DEF Parts
<1>3. IsFiniteSet(Parts(r, s))
  BY <1>2, FS_Subset
<1>4. QED
  BY <1>3, FS_CardinalityType

LEMMA PartsBeforeIn ==
  ASSUME NEW r, r.op \in Command, NEW s, Len(s) \in Nat, NEW n \in 1..(Len(s) + 1)
  PROVE  PartsBefore(r, s, n) \subseteq Parts(r, s)
<1>1. ASSUME NEW x \in PartsBefore(r, s, n) PROVE x \in PartsBefore(r, s, Len(s) + 1)
  <2>1. PICK i \in 1..(n - 1) : InOutput(r, s, i) /\ x = PartOf(r, s, i)
    BY DEF PartsBefore
  <2>2. i \in 1..((Len(s) + 1) - 1)
    OBVIOUS
  <2>3. QED
    BY <2>1, <2>2 DEF PartsBefore
<1>2. QED
  BY <1>1, PartsAre

-----------------------------------------------------------------------------
(* Counting up to a place.                                                 *)

LEMMA CountMonotone ==
  ASSUME NEW S, NEW i \in Nat, NEW j \in Nat, i <= j
  PROVE  Count(S, i) \in Nat /\ Count(S, j) \in Nat /\ Count(S, i) <= Count(S, j)
<1>1. IsFiniteSet(1..j)
  BY FS_Interval
<1>2. IsFiniteSet(S \cap 1..j)
  BY <1>1, FS_Subset
<1>3. S \cap 1..i \in SUBSET (S \cap 1..j)
  OBVIOUS
<1>4. Cardinality(S \cap 1..i) <= Cardinality(S \cap 1..j)
  BY <1>2, <1>3, FS_Subset
<1>5. QED
  BY <1>4, Counting DEF Count

LEMMA CountStays ==
  ASSUME NEW S, NEW i \in Nat, NEW j \in Nat, i <= j, \A k \in (i + 1)..j : k \notin S
  PROVE  Count(S, j) = Count(S, i)
<1>1. S \cap 1..j = S \cap 1..i
  <2>1. \A k \in 1..j : k \in 1..i \/ k \in (i + 1)..j
    OBVIOUS
  <2>2. QED
    BY <2>1
<1>2. QED
  BY <1>1 DEF Count

(* What comes before an element of S is counted less.                      *)
LEMMA CountAt ==
  ASSUME NEW S, NEW i \in Nat, NEW j \in Nat \ {0}, i < j, j \in S
  PROVE  Count(S, i) < Count(S, j) /\ Count(S, j) = Count(S, j - 1) + 1
<1>1. j - 1 \in Nat /\ (j - 1) + 1 = j /\ i <= j - 1
  OBVIOUS
<1>2. Count(S, i) \in Nat /\ Count(S, j - 1) \in Nat /\ Count(S, i) <= Count(S, j - 1)
  BY <1>1, CountMonotone
<1>3. Count(S, (j - 1) + 1) = Count(S, j - 1) + 1
  BY <1>1, Counting
<1>4. QED
  BY <1>1, <1>2, <1>3

-----------------------------------------------------------------------------
(* The scan of split: P is planned, the section opened at o is pending     *)
(* (none when o is 0), and a is the line looked at.                        *)

Opens(r, s) == {i \in 1..Len(s) : s[i] \in r.opens}

SplitAt(r, s, P, o, a) ==
  /\ o \in Nat /\ a \in 1..(Len(s) + 1) /\ o < a
  /\ \A i \in (o + 1)..(a - 1) : i \notin Opens(r, s)
  /\ IF o = 0 THEN Len(P) = 0 ELSE o \in Opens(r, s) /\ Follow(r, s, P, o)

SplitFrom(r, o) == IF o = 0 THEN 1 ELSE IF r.bare THEN o + 1 ELSE o

LEMMA SplitIs ==
  ASSUME NEW r, r.op = "split", NEW s, Len(s) \in Nat, NEW i \in 1..Len(s)
  PROVE  /\ PartOf(r, s, i) = Count(Opens(r, s), i)
         /\ InOutput(r, s, i) <=> ~(r.bare /\ i \in Opens(r, s))
<1>1. {j \in 1..i : s[j] \in r.opens} = Opens(r, s) \cap 1..i
  BY DEF Opens
<1>2. SplitPart(r, s, i) = Count(Opens(r, s), i)
  BY <1>1 DEF SplitPart, Count
<1>3. QED
  BY <1>2 DEF PartOf, InOutput, Opens

LEMMA SplitPass ==
  ASSUME NEW r, NEW s, Len(s) \in Nat, NEW P, NEW o, NEW a \in 1..Len(s),
         SplitAt(r, s, P, o, a), s[a] \notin r.opens
  PROVE  SplitAt(r, s, P, o, a + 1)
<1>1. a \notin Opens(r, s)
  BY DEF Opens
<1>2. \A i \in (o + 1)..((a + 1) - 1) : i \in (o + 1)..(a - 1) \/ i = a
  BY DEF SplitAt
<1>3. QED
  BY <1>1, <1>2 DEF SplitAt

LEMMA SplitNext ==
  ASSUME NEW r, r.op = "split", NEW s, Len(s) \in Nat, NEW P, NEW o, NEW a,
         SplitAt(r, s, P, o, a), NEW q,
         q.from = SplitFrom(r, o), q.to = a - 1, q.from <= q.to
  PROVE  NextPart(r, s, P, q, a)
<1> DEFINE S == Opens(r, s)
           f == q.from
<1>1. o \in Nat /\ a \in 1..(Len(s) + 1) /\ o < a /\ f \in Nat \ {0} /\ f >= o /\ f <= a - 1
  BY DEF SplitAt, SplitFrom
<1>2. \A i \in f..(a - 1) : i \in 1..Len(s) /\ i >= o
  BY <1>1
<1>3. \A i \in (o + 1)..(a - 1) : i \notin S
  BY DEF SplitAt
<1>4. ASSUME NEW i \in f..(a - 1) PROVE Count(S, i) = Count(S, o)
  <2>1. \A k \in (o + 1)..i : k \in (o + 1)..(a - 1)
    BY <1>1, <1>2
  <2>2. o <= i /\ i \in Nat
    BY <1>1, <1>2
  <2> HIDE DEF S
  <2>3. QED
    BY <1>1, <1>3, <2>1, <2>2, CountStays
<1>5. ASSUME NEW i \in f..(a - 1)
      PROVE  InOutput(r, s, i) /\ PartOf(r, s, i) = Count(S, o)
  <2>1. i \in 1..Len(s)
    BY <1>2
  <2>2. PartOf(r, s, i) = Count(S, o)
    BY <1>4, <2>1, SplitIs
  <2>3. ~(r.bare /\ i \in S)
    <3>1. CASE i = o
      BY <1>1, <3>1 DEF SplitFrom
    <3>2. CASE i # o
      BY <1>1, <1>2, <1>3, <3>2
    <3>3. QED
      BY <3>1, <3>2
  <2>4. QED
    BY <2>1, <2>2, <2>3, SplitIs
<1>6. IsPart(r, s, q)
  <2>1. f \in f..(a - 1) /\ q.to = a - 1 /\ a - 1 \in Nat /\ a - 1 <= Len(s)
    BY <1>1
  <2> HIDE DEF S
  <2>2. QED
    BY <1>1, <1>5, <2>1 DEF IsPart
<1>7. ASSUME NEW k \in 1..Len(P)
      PROVE  P[k].to < f /\ PartOf(r, s, P[k].from) < PartOf(r, s, f)
  <2>1. o # 0
    BY <1>7 DEF SplitAt
  <2>2. o \in S /\ Follow(r, s, P, o)
    BY <2>1 DEF SplitAt
  <2>3. IsPart(r, s, P[k]) /\ P[k].to < o
    BY <2>2 DEF Follow
  <2>4. P[k].from \in Nat \ {0} /\ P[k].to \in Nat /\ P[k].from <= P[k].to /\ P[k].from \in 1..Len(s)
    BY <2>3 DEF IsPart
  <2>5. PartOf(r, s, P[k].from) = Count(S, P[k].from)
    BY <2>4, SplitIs
  <2>6. P[k].from < o
    BY <1>1, <2>3, <2>4
  <2>7. Count(S, P[k].from) < Count(S, o)
    <3> HIDE DEF S
    <3>1. QED
      BY <1>1, <2>1, <2>2, <2>4, <2>6, CountAt
  <2>8. PartOf(r, s, f) = Count(S, o)
    BY <1>1, <1>5
  <2>9. P[k].to < f
    BY <1>1, <2>3, <2>4
  <2>10. QED
    BY <2>5, <2>7, <2>8, <2>9
<1>8. ASSUME NEW i \in 1..(a - 1), InOutput(r, s, i)
      PROVE  i \in f..(a - 1) \/ \E k \in 1..Len(P) : i \in P[k].from..P[k].to
  <2>1. CASE i >= f
    BY <1>1, <2>1
  <2>2. CASE i < f
    <3>1. i \in 1..Len(s) /\ o # 0 /\ i <= o
      BY <1>1, <2>2 DEF SplitFrom
    <3>2. o \in S /\ Follow(r, s, P, o)
      BY <3>1 DEF SplitAt
    <3>3. i # o
      BY <1>8, <2>2, <3>1, <3>2, SplitIs DEF SplitFrom
    <3>4. i \in 1..(o - 1)
      BY <1>1, <3>1, <3>3
    <3>5. QED
      BY <1>8, <3>2, <3>4 DEF Follow
  <2>3. QED
    BY <1>1, <2>1, <2>2
<1>9. q.to < a
  BY <1>1
<1>10. QED
  BY <1>6, <1>7, <1>8, <1>9 DEF NextPart

LEMMA FollowNothing ==
  ASSUME NEW r, NEW s, NEW P, Len(P) = 0
  PROVE  Follow(r, s, P, 1)
BY DEF Follow

(* A section with no line in it, or none.                                  *)
LEMMA SplitEmpty ==
  ASSUME NEW r, r.op = "split", NEW s, Len(s) \in Nat, NEW P, NEW o, NEW a,
         SplitAt(r, s, P, o, a), SplitFrom(r, o) > a - 1
  PROVE  Follow(r, s, P, a)
<1>1. o \in Nat /\ a \in 1..(Len(s) + 1) /\ o < a
  BY DEF SplitAt
<1>2. CASE o = 0
  <2>1. a = 1 /\ Len(P) = 0
    BY <1>1, <1>2 DEF SplitFrom, SplitAt
  <2>2. QED
    BY <2>1, FollowNothing
<1>3. CASE o # 0
  <2>1. r.bare /\ a = o + 1 /\ o \in Opens(r, s) /\ Follow(r, s, P, o) /\ o \in 1..Len(s)
    BY <1>1, <1>3 DEF SplitFrom, SplitAt
  <2>2. ~InOutput(r, s, o)
    BY <2>1, SplitIs
  <2>3. \A i \in o..(a - 1) : i = o
    BY <1>1, <2>1
  <2>4. QED
    BY <1>1, <2>1, <2>2, <2>3, FollowSkip
<1>4. QED
  BY <1>2, <1>3

LEMMA SplitOpens ==
  ASSUME NEW r, NEW s, Len(s) \in Nat, NEW P, NEW a \in 1..Len(s),
         Follow(r, s, P, a), s[a] \in r.opens
  PROVE  SplitAt(r, s, P, a, a + 1)
<1>1. a \in Opens(r, s)
  BY DEF Opens
<1>2. (a + 1)..((a + 1) - 1) = {}
  OBVIOUS
<1>3. QED
  BY <1>1, <1>2 DEF SplitAt

-----------------------------------------------------------------------------
(* The scan of blocks.                                                     *)

(* What InBlock computes: it is defined by recursion.                      *)
Inside(r, s, in) ==
  /\ in \in [1..(Len(s) + 1) -> BOOLEAN]
  /\ ~in[1]
  /\ \A i \in 1..Len(s) : in[i + 1] <=> IF in[i] THEN s[i] \notin r.closes ELSE s[i] \in r.opens

LEMMA InBlockIs ==
  ASSUME NEW r, NEW s, Len(s) \in Nat
  PROVE  Inside(r, s, InBlock(r, s))
<1> DEFINE N == Len(s)
           V == BOOLEAN
           v == FALSE
           step == [p \in (1..N) \X V |-> (p[2] /\ s[p[1]] \notin r.closes) \/ (~p[2] /\ s[p[1]] \in r.opens)]
           IsInBlock(e) == e = [i \in 1..(N + 1) |->
                                  i > 1 /\ IF e[i - 1] THEN s[i - 1] \notin r.closes
                                           ELSE s[i - 1] \in r.opens]
<1>1. N \in Nat
  OBVIOUS
<1>2. v \in V
  OBVIOUS
<1>3. step \in [(1..N) \X V -> V]
  OBVIOUS
<1>4. \E f \in [0..N -> V] : Recursion(f, N, v, step)
  <2> HIDE DEF N, V, v, step
  <2>1. QED
    BY <1>1, <1>2, <1>3, RecursionExists, Zenon
<1>5. PICK f \in [0..N -> V] : Recursion(f, N, v, step)
  BY <1>4
<1> DEFINE e == [i \in 1..(N + 1) |-> f[i - 1]]
<1>6. e \in [1..(N + 1) -> BOOLEAN]
  BY <1>1
<1>7. \A i \in 1..(N + 1) : e[i] = (i > 1 /\ IF e[i - 1] THEN s[i - 1] \notin r.closes
                                             ELSE s[i - 1] \in r.opens)
  <2> TAKE i \in 1..(N + 1)
  <2>1. e[i] = f[i - 1]
    OBVIOUS
  <2>2. CASE i = 1
    <3>1. f[i - 1] = FALSE
      BY <1>5, <2>2 DEF Recursion
    <3>2. QED
      BY <2>1, <2>2, <3>1
  <2>3. CASE i # 1
    <3>1. i - 1 \in 1..N /\ (i - 1) - 1 \in 0..N /\ i > 1
      BY <1>1, <2>3
    <3>2. f[i - 1] = step[<<i - 1, f[(i - 1) - 1]>>]
      BY <1>5, <3>1 DEF Recursion
    <3>3. <<i - 1, f[(i - 1) - 1]>> \in (1..N) \X V
      BY <3>1
    <3>4. step[<<i - 1, f[(i - 1) - 1]>>] =
            ((f[(i - 1) - 1] /\ s[i - 1] \notin r.closes) \/ (~f[(i - 1) - 1] /\ s[i - 1] \in r.opens))
      BY <3>3
    <3>5. e[i - 1] = f[(i - 1) - 1]
      BY <1>1, <3>1
    <3> HIDE DEF step, e
    <3>6. QED
      BY <2>1, <3>1, <3>2, <3>4, <3>5
  <2>4. QED
    BY <2>2, <2>3
<1> HIDE DEF e
<1>8. IsInBlock(e)
  BY <1>6, <1>7
<1>9. IsInBlock(CHOOSE x : IsInBlock(x))
  <2> HIDE DEF IsInBlock
  <2>1. QED
    BY <1>8, Zenon
<1>10. InBlock(r, s) = CHOOSE x : IsInBlock(x)
  BY DEF InBlock
<1>11. IsInBlock(InBlock(r, s))
  <2> HIDE DEF IsInBlock
  <2>1. QED
    BY <1>9, <1>10
<1>12. \A i \in 1..(N + 1) : InBlock(r, s)[i] =
         (i > 1 /\ IF InBlock(r, s)[i - 1] THEN s[i - 1] \notin r.closes ELSE s[i - 1] \in r.opens)
  BY <1>11
<1>13. InBlock(r, s) \in [1..(N + 1) -> BOOLEAN]
  BY <1>11
<1>14. ~InBlock(r, s)[1]
  <2>1. 1 \in 1..(N + 1) /\ ~(1 > 1)
    BY <1>1
  <2>2. InBlock(r, s)[1] = FALSE
    BY <1>12, <2>1
  <2>3. QED
    BY <2>2
<1>15. ASSUME NEW i \in 1..N
       PROVE  InBlock(r, s)[i + 1] <=> IF InBlock(r, s)[i] THEN s[i] \notin r.closes ELSE s[i] \in r.opens
  <2>1. i + 1 \in 1..(N + 1) /\ i + 1 > 1 /\ (i + 1) - 1 = i
    BY <1>1
  <2>2. QED
    BY <1>12, <2>1
<1>16. QED
  BY <1>13, <1>14, <1>15 DEF Inside

(* Only the two patterns decide what is in a block.                        *)
LEMMA InBlockSame ==
  ASSUME NEW r, NEW q, q.opens = r.opens, q.closes = r.closes, NEW s, Len(s) \in Nat
  PROVE  InBlock(q, s) = InBlock(r, s)
<1> DEFINE f == InBlock(r, s)
           g == InBlock(q, s)
           S == {n \in 1..(Len(s) + 1) : f[n] = g[n]}
<1>1. Inside(r, s, f) /\ Inside(q, s, g)
  BY InBlockIs
<1> HIDE DEF f, g
<1>2. 1 \in S
  BY <1>1 DEF Inside
<1>3. ASSUME NEW n \in 1..((Len(s) + 1) - 1), n \in S PROVE n + 1 \in S
  <2>1. n \in 1..Len(s) /\ n + 1 \in 1..(Len(s) + 1) /\ f[n] = g[n]
    BY <1>3
  <2>2. f[n + 1] \in BOOLEAN /\ g[n + 1] \in BOOLEAN
    BY <1>1, <2>1 DEF Inside
  <2>3. f[n + 1] <=> g[n + 1]
    BY <1>1, <2>1 DEF Inside
  <2>4. f[n + 1] = g[n + 1]
    BY <2>2, <2>3
  <2>5. QED
    BY <2>1, <2>4
<1> HIDE DEF S
<1>a. 1 \in Int /\ Len(s) + 1 \in Int
  OBVIOUS
<1>4. 1..(Len(s) + 1) \subseteq S
  BY <1>a, <1>2, <1>3, Induction
<1>5. \A i \in 1..(Len(s) + 1) : f[i] = g[i]
  BY <1>4 DEF S
<1>6. f = g
  BY <1>1, <1>5 DEF Inside
<1>7. QED
  BY <1>6 DEF f, g

(* P is planned, and a is the line looked at.  Outside a block, o is 0.    *)
BlocksAt(r, s, P, o, a) ==
  /\ o \in Nat /\ a \in 1..(Len(s) + 1)
  /\ IF o = 0
     THEN ~InBlock(r, s)[a] /\ Follow(r, s, P, a)
     ELSE /\ o < a
          /\ o \in BlockStarts(r, s)
          /\ Follow(r, s, P, o)
          /\ \A i \in (o + 1)..a : InBlock(r, s)[i]

(* What is said of line i in terms of InBlock.                             *)
LEMMA BlocksIs ==
  ASSUME NEW r, r.op = "blocks", r.bare \in BOOLEAN, NEW s, Len(s) \in Nat, NEW i \in 1..Len(s)
  PROVE  /\ PartOf(r, s, i) = Count(BlockStarts(r, s), IF r.bare THEN i - 1 ELSE i)
         /\ i \in BlockStarts(r, s) <=> ~InBlock(r, s)[i] /\ s[i] \in r.opens
         /\ i \in BlockEnds(r, s) <=> InBlock(r, s)[i] /\ s[i] \in r.closes
         /\ InBlock(r, s)[i + 1] <=>
              IF InBlock(r, s)[i] THEN s[i] \notin r.closes ELSE s[i] \in r.opens
         /\ InOutput(r, s, i) <=>
              \/ InBlock(r, s)[i] /\ i \notin BlockEnds(r, s)
              \/ ~r.bare /\ i \in BlockStarts(r, s) /\ (i + 1) \notin BlockEnds(r, s)
              \/ ~r.bare /\ i \in BlockEnds(r, s) /\ (i - 1) \notin BlockStarts(r, s)
<1> DEFINE S == BlockStarts(r, s)
<1>1. \A j \in S : j \in Nat \ {0}
  BY DEF BlockStarts
<1>2. {j \in S : j < i} = S \cap 1..(i - 1)
  <2> HIDE DEF S
  <2>1. QED
    BY <1>1
<1>3. {j \in S : j <= i} = S \cap 1..i
  <2> HIDE DEF S
  <2>1. QED
    BY <1>1
<1>4. BlockPart(r, s, i) = Count(S, IF r.bare THEN i - 1 ELSE i)
  <2>1. CASE r.bare
    <3>1. BlockPart(r, s, i) = Cardinality({j \in S : j < i})
      BY <2>1 DEF BlockPart
    <3> HIDE DEF S
    <3>2. QED
      BY <1>2, <2>1, <3>1 DEF Count
  <2>2. CASE ~r.bare
    <3>1. BlockPart(r, s, i) = Cardinality({j \in S : j <= i})
      BY <2>2 DEF BlockPart
    <3> HIDE DEF S
    <3>2. QED
      BY <1>3, <2>2, <3>1 DEF Count
  <2>3. QED
    BY <2>1, <2>2
<1>5. PartOf(r, s, i) = BlockPart(r, s, i)
  BY DEF PartOf
<1>6. /\ i \in BlockStarts(r, s) <=> ~InBlock(r, s)[i] /\ s[i] \in r.opens
      /\ i \in BlockEnds(r, s) <=> InBlock(r, s)[i] /\ s[i] \in r.closes
  BY DEF BlockStarts, BlockEnds
<1>7. InBlock(r, s)[i + 1] <=> IF InBlock(r, s)[i] THEN s[i] \notin r.closes ELSE s[i] \in r.opens
  BY InBlockIs DEF Inside
<1>8. InOutput(r, s, i) <=>
        \/ InBlock(r, s)[i] /\ i \notin BlockEnds(r, s)
        \/ ~r.bare /\ i \in BlockStarts(r, s) /\ (i + 1) \notin BlockEnds(r, s)
        \/ ~r.bare /\ i \in BlockEnds(r, s) /\ (i - 1) \notin BlockStarts(r, s)
  BY DEF InOutput
<1>9. QED
  BY <1>4, <1>5, <1>6, <1>7, <1>8

(* Outside a block, a line that opens none is in no output.                *)
LEMMA BlocksOutside ==
  ASSUME NEW r, r.op = "blocks", r.bare \in BOOLEAN, NEW s, Len(s) \in Nat, NEW P,
         NEW a \in 1..Len(s), BlocksAt(r, s, P, 0, a), s[a] \notin r.opens
  PROVE  BlocksAt(r, s, P, 0, a + 1)
<1>1. ~InBlock(r, s)[a] /\ Follow(r, s, P, a)
  BY DEF BlocksAt
<1>2. ~InBlock(r, s)[a + 1] /\ ~InOutput(r, s, a)
  BY <1>1, BlocksIs
<1>3. \A i \in a..((a + 1) - 1) : i = a
  OBVIOUS
<1>4. Follow(r, s, P, a + 1)
  BY <1>1, <1>2, <1>3, FollowSkip
<1>5. QED
  BY <1>2, <1>4 DEF BlocksAt

LEMMA BlocksOpen ==
  ASSUME NEW r, r.op = "blocks", r.bare \in BOOLEAN, NEW s, Len(s) \in Nat, NEW P,
         NEW a \in 1..Len(s), BlocksAt(r, s, P, 0, a), s[a] \in r.opens
  PROVE  BlocksAt(r, s, P, a, a + 1)
<1>1. ~InBlock(r, s)[a] /\ Follow(r, s, P, a)
  BY DEF BlocksAt
<1>2. InBlock(r, s)[a + 1] /\ a \in BlockStarts(r, s)
  BY <1>1, BlocksIs
<1>3. \A i \in (a + 1)..(a + 1) : i = a + 1
  OBVIOUS
<1>4. QED
  BY <1>1, <1>2, <1>3 DEF BlocksAt

LEMMA BlocksInside ==
  ASSUME NEW r, r.op = "blocks", r.bare \in BOOLEAN, NEW s, Len(s) \in Nat, NEW P,
         NEW o, o # 0, NEW a \in 1..Len(s), BlocksAt(r, s, P, o, a), s[a] \notin r.closes
  PROVE  BlocksAt(r, s, P, o, a + 1)
<1>1. /\ o \in Nat /\ o < a /\ o \in BlockStarts(r, s) /\ Follow(r, s, P, o)
      /\ \A i \in (o + 1)..a : InBlock(r, s)[i]
  BY DEF BlocksAt
<1>2. InBlock(r, s)[a]
  BY <1>1
<1>3. InBlock(r, s)[a + 1]
  BY <1>2, BlocksIs
<1>4. \A i \in (o + 1)..(a + 1) : i \in (o + 1)..a \/ i = a + 1
  BY <1>1
<1>5. QED
  BY <1>1, <1>3, <1>4 DEF BlocksAt

(* What lies between the start of a block and the line looked at.          *)
LEMMA BlocksBetween ==
  ASSUME NEW r, r.op = "blocks", r.bare \in BOOLEAN, NEW s, Len(s) \in Nat, NEW P,
         NEW o, o # 0, NEW a, BlocksAt(r, s, P, o, a)
  PROVE  /\ o \in 1..Len(s) /\ o + 1 <= a /\ ~InBlock(r, s)[o]
         /\ \A i \in (o + 1)..(a - 1) :
              /\ i \in 1..Len(s) /\ InBlock(r, s)[i]
              /\ i \notin BlockEnds(r, s) /\ i \notin BlockStarts(r, s)
         /\ a <= Len(s) => InBlock(r, s)[a] /\ a \notin BlockStarts(r, s)
<1>1. /\ o \in Nat /\ a \in 1..(Len(s) + 1) /\ o < a /\ o \in BlockStarts(r, s)
      /\ \A i \in (o + 1)..a : InBlock(r, s)[i]
  BY DEF BlocksAt
<1>2. o \in 1..Len(s) /\ o + 1 <= a /\ ~InBlock(r, s)[o]
  BY <1>1 DEF BlockStarts
<1>3. ASSUME NEW i \in (o + 1)..(a - 1)
      PROVE  /\ i \in 1..Len(s) /\ InBlock(r, s)[i]
             /\ i \notin BlockEnds(r, s) /\ i \notin BlockStarts(r, s)
  <2>1. i \in 1..Len(s) /\ i \in (o + 1)..a /\ i + 1 \in (o + 1)..a
    BY <1>1
  <2>2. InBlock(r, s)[i] /\ InBlock(r, s)[i + 1]
    BY <1>1, <2>1
  <2>3. QED
    BY <2>1, <2>2, BlocksIs
<1>4. ASSUME a <= Len(s) PROVE InBlock(r, s)[a] /\ a \notin BlockStarts(r, s)
  <2>1. a \in (o + 1)..a /\ a \in 1..Len(s)
    BY <1>1, <1>4
  <2>2. InBlock(r, s)[a]
    BY <1>1, <2>1
  <2>3. QED
    BY <2>1, <2>2, BlocksIs
<1>5. QED
  BY <1>2, <1>3, <1>4

(* A block with nothing between its delimiters has no output.              *)
LEMMA BlocksEmpty ==
  ASSUME NEW r, r.op = "blocks", r.bare \in BOOLEAN, NEW s, Len(s) \in Nat, NEW P,
         NEW o, o # 0, NEW a \in 1..Len(s), BlocksAt(r, s, P, o, a), s[a] \in r.closes,
         a = o + 1
  PROVE  BlocksAt(r, s, P, 0, a + 1)
<1>1. o \in 1..Len(s) /\ o \in BlockStarts(r, s) /\ Follow(r, s, P, o) /\ ~InBlock(r, s)[o]
  BY BlocksBetween DEF BlocksAt
<1>0. a <= Len(s)
  OBVIOUS
<1>2. InBlock(r, s)[a]
  BY <1>0, BlocksBetween
<1>3. a \in BlockEnds(r, s) /\ ~InBlock(r, s)[a + 1]
  BY <1>2, BlocksIs
<1>4. ~InOutput(r, s, o)
  <2>1. o \notin BlockEnds(r, s)
    BY <1>1, BlocksIs
  <2>2. QED
    BY <1>1, <1>3, <2>1, BlocksIs
<1>5. ~InOutput(r, s, a)
  <2>1. a - 1 = o /\ a \notin BlockStarts(r, s)
    BY <1>1, <1>2, BlocksIs
  <2>2. QED
    BY <1>1, <1>3, <2>1, BlocksIs
<1>6. \A i \in o..((a + 1) - 1) : i = o \/ i = a
  BY <1>1
<1>7. Follow(r, s, P, a + 1)
  <2>1. o \in Nat /\ a + 1 \in Nat /\ o <= a + 1
    BY <1>1
  <2>2. \A i \in o..((a + 1) - 1) : ~InOutput(r, s, i)
    BY <1>4, <1>5, <1>6
  <2>3. QED
    BY <1>1, <2>1, <2>2, FollowSkip
<1>8. QED
  BY <1>3, <1>7 DEF BlocksAt

(* A block with lines in it is the next part, with or without its          *)
(* delimiters.                                                             *)
LEMMA BlocksNext ==
  ASSUME NEW r, r.op = "blocks", r.bare \in BOOLEAN, NEW s, Len(s) \in Nat, NEW P,
         NEW o, o # 0, NEW a \in 1..Len(s), BlocksAt(r, s, P, o, a), s[a] \in r.closes,
         a # o + 1, NEW q,
         q.from = (IF r.bare THEN o + 1 ELSE o), q.to = (IF r.bare THEN a - 1 ELSE a)
  PROVE  NextPart(r, s, P, q, a + 1) /\ ~InBlock(r, s)[a + 1]
<1> DEFINE S == BlockStarts(r, s)
           f == q.from
           t == q.to
<1>1. o \in 1..Len(s) /\ o \in S /\ Follow(r, s, P, o) /\ ~InBlock(r, s)[o] /\ o + 1 < a
  BY BlocksBetween DEF BlocksAt
<1>0. a <= Len(s)
  OBVIOUS
<1>2. InBlock(r, s)[a] /\ a \notin S
  BY <1>0, BlocksBetween
<1>3. a \in BlockEnds(r, s) /\ ~InBlock(r, s)[a + 1]
  BY <1>2, BlocksIs
<1>4. \A i \in (o + 1)..(a - 1) :
        /\ i \in 1..Len(s) /\ InBlock(r, s)[i]
        /\ i \notin BlockEnds(r, s) /\ i \notin S
  BY BlocksBetween
<1>5. InOutput(r, s, o) <=> ~r.bare
  <2>1. o \notin BlockEnds(r, s)
    BY <1>1, BlocksIs
  <2>2. o + 1 \in (o + 1)..(a - 1)
    BY <1>1
  <2>3. o + 1 \notin BlockEnds(r, s)
    BY <1>4, <2>2
  <2> HIDE DEF S
  <2>4. QED
    BY <1>1, <2>1, <2>3, BlocksIs DEF S
<1>6. InOutput(r, s, a) <=> ~r.bare
  <2>1. a - 1 \in (o + 1)..(a - 1)
    BY <1>1
  <2>2. a - 1 \notin S
    BY <1>4, <2>1
  <2>3. QED
    BY <1>2, <1>3, <2>2, BlocksIs
<1>7. \A i \in (o + 1)..(a - 1) : InOutput(r, s, i)
  BY <1>4, BlocksIs
<1>8. f \in Nat \ {0} /\ t \in Nat /\ f <= t /\ t <= a /\ f >= o /\ (r.bare => f > o /\ t < a)
      /\ (~r.bare => f = o /\ t = a)
  BY <1>1
<1>9. ASSUME NEW i \in f..t PROVE InOutput(r, s, i) /\ i \in 1..Len(s)
  <2>1. i \in (o + 1)..(a - 1) \/ (~r.bare /\ (i = o \/ i = a))
    BY <1>1, <1>8
  <2> HIDE DEF f, t
  <2>2. QED
    BY <1>1, <1>4, <1>5, <1>6, <1>7, <2>1
<1>10. \A i \in (o + 1)..a : i \notin S
  <2>1. \A i \in (o + 1)..a : i \in (o + 1)..(a - 1) \/ i = a
    BY <1>1
  <2>2. QED
    BY <1>2, <1>4, <2>1
<1>11. ASSUME NEW i \in f..t PROVE PartOf(r, s, i) = Count(S, o)
  <2> DEFINE n == IF r.bare THEN i - 1 ELSE i
  <2>1. n \in Nat /\ o <= n /\ n <= a
    BY <1>1, <1>8
  <2>2. \A k \in (o + 1)..n : k \notin S
    BY <1>1, <1>10, <2>1
  <2> HIDE DEF n, S
  <2>3. Count(S, n) = Count(S, o)
    BY <1>1, <2>1, <2>2, CountStays
  <2>4. QED
    BY <1>9, <2>3, BlocksIs DEF n, S
<1>12. IsPart(r, s, q)
  <2>1. f \in f..t
    BY <1>8
  <2> HIDE DEF S
  <2>2. QED
    BY <1>8, <1>9, <1>11, <2>1 DEF IsPart
<1>13. ASSUME NEW k \in 1..Len(P)
       PROVE  P[k].to < f /\ PartOf(r, s, P[k].from) < PartOf(r, s, f)
  <2> DEFINE i == P[k].from
             n == IF r.bare THEN i - 1 ELSE i
  <2>1. IsPart(r, s, P[k]) /\ P[k].to < o
    BY <1>1 DEF Follow
  <2>2. i \in Nat \ {0} /\ P[k].to \in Nat /\ i <= P[k].to /\ i \in 1..Len(s)
    BY <2>1 DEF IsPart
  <2>3. n \in Nat /\ n < o
    BY <1>1, <2>1, <2>2
  <2>4. Count(S, n) < Count(S, o)
    <3> HIDE DEF S, n
    <3>1. QED
      BY <1>1, <2>3, CountAt
  <2>5. PartOf(r, s, i) = Count(S, n)
    <3> HIDE DEF i
    <3>1. QED
      BY <2>2, BlocksIs
  <2>6. PartOf(r, s, f) = Count(S, o)
    BY <1>8, <1>11
  <2>7. P[k].to < f
    BY <1>1, <1>8, <2>1, <2>2
  <2>8. QED
    BY <2>4, <2>5, <2>6, <2>7
<1>14. ASSUME NEW i \in 1..((a + 1) - 1), InOutput(r, s, i)
       PROVE  i \in f..t \/ \E k \in 1..Len(P) : i \in P[k].from..P[k].to
  <2>1. CASE i < o
    <3>1. i \in 1..(o - 1)
      BY <1>1, <2>1
    <3>2. QED
      BY <1>1, <1>14, <3>1 DEF Follow
  <2>2. CASE i = o \/ i = a
    <3>1. ~r.bare
      BY <1>5, <1>6, <1>14, <2>2
    <3>2. QED
      BY <1>1, <1>8, <2>2, <3>1
  <2>3. CASE i > o /\ i < a
    BY <1>1, <1>8, <2>3
  <2>4. QED
    BY <1>1, <2>1, <2>2, <2>3
<1>15. t < a + 1
  BY <1>8
<1>16. QED
  BY <1>3, <1>12, <1>13, <1>14, <1>15 DEF NextPart

-----------------------------------------------------------------------------
(* What --max-files refuses.                                               *)

(* The sections before a delimiter are sections of the source.  There is   *)
(* another unless delimiters are stripped and the source ends with one.    *)
LEMMA SplitTooMany ==
  ASSUME NEW r \in Request, r.op = "split", NEW s, Len(s) \in Nat, NEW P, Len(P) \in Nat,
         NEW a \in 1..Len(s), s[a] \in r.opens, Follow(r, s, P, a)
  PROVE  /\ Len(P) <= Cardinality(Parts(r, s))
         /\ (r.bare /\ s[Len(s)] \in r.opens) \/ Len(P) + 1 <= Cardinality(Parts(r, s))
<1>1. /\ r.op \in Command /\ a \in 1..(Len(s) + 1) /\ a \in Nat \ {0} /\ r.bare \in BOOLEAN
      /\ Len(s) \in 1..Len(s) /\ a <= Len(s)
  BY DEF Command, Request
<1>2. Cardinality(PartsBefore(r, s, a)) = Len(P)
  BY <1>1, FollowParts
<1>3. IsFiniteSet(Parts(r, s)) /\ PartsBefore(r, s, a) \subseteq Parts(r, s)
  BY <1>1, PartsFinite, PartsBeforeIn
<1>4. Len(P) <= Cardinality(Parts(r, s))
  BY <1>1, <1>2, <1>3, PartsBeforeGrow
<1>5. ASSUME ~(r.bare /\ s[Len(s)] \in r.opens)
      PROVE  Len(P) + 1 <= Cardinality(Parts(r, s))
  <2>1. a \in Opens(r, s)
    BY DEF Opens
  <2>2. PICK i \in a..Len(s) : InOutput(r, s, i)
    <3>1. CASE ~r.bare
      <4>1. InOutput(r, s, a) /\ a \in a..Len(s)
        BY <1>1, <3>1, SplitIs
      <4>2. QED
        BY <4>1
    <3>2. CASE s[Len(s)] \notin r.opens
      <4>1. Len(s) \notin Opens(r, s)
        BY <3>2 DEF Opens
      <4>2. InOutput(r, s, Len(s)) /\ Len(s) \in a..Len(s)
        BY <1>1, <4>1, SplitIs
      <4>3. QED
        BY <4>2
    <3>3. QED
      BY <1>5, <3>1, <3>2
  <2>3. i \in 1..Len(s) /\ i \in Nat /\ a <= i
    BY <1>1
  <2> DEFINE x == PartOf(r, s, i)
  <2>4. x = Count(Opens(r, s), i)
    BY <2>3, SplitIs
  <2>5. x \in Parts(r, s)
    <3>1. x \in 0..Len(s)
      BY <1>1, <2>3, PartType
    <3>2. i \in CellsOf(r, s, x)
      BY <2>2, <2>3 DEF CellsOf
    <3>3. QED
      BY <3>1, <3>2 DEF Parts
  <2>6. x \notin PartsBefore(r, s, a)
    <3>1. SUFFICES ASSUME NEW j \in 1..(a - 1), InOutput(r, s, j), x = PartOf(r, s, j) PROVE FALSE
      BY DEF PartsBefore
    <3>2. j \in 1..Len(s) /\ j \in Nat /\ j < a
      BY <1>1
    <3>3. PartOf(r, s, j) = Count(Opens(r, s), j)
      BY <3>2, SplitIs
    <3>4. Count(Opens(r, s), j) < Count(Opens(r, s), a)
      BY <1>1, <2>1, <3>2, CountAt
    <3>5. /\ Count(Opens(r, s), a) \in Nat /\ Count(Opens(r, s), i) \in Nat
          /\ Count(Opens(r, s), a) <= Count(Opens(r, s), i)
      BY <1>1, <2>3, CountMonotone
    <3>6. Count(Opens(r, s), j) \in Nat
      BY <3>2, Counting
    <3>7. QED
      BY <2>4, <3>1, <3>3, <3>4, <3>5, <3>6
  <2> HIDE DEF x
  <2>7. QED
    BY <1>1, <1>2, <1>3, <2>5, <2>6, PartsBeforeGrow
<1>6. QED
  BY <1>4, <1>5

(* A block that is the next part is one of the source.                     *)
LEMMA BlocksTooMany ==
  ASSUME NEW r \in Request, r.op = "blocks", NEW s, Len(s) \in Nat, NEW P, Len(P) \in Nat,
         NEW n \in Nat, NEW m \in 1..(Len(s) + 1), n <= m,
         Follow(r, s, P, n), NEW q, NextPart(r, s, P, q, m)
  PROVE  Len(P) + 1 <= Cardinality(Parts(r, s))
<1>1. r.op \in Command
  BY DEF Command
<1>2. Cardinality(PartsBefore(r, s, m)) = Len(P) + 1
  BY <1>1, NextPartCounts
<1>3. IsFiniteSet(Parts(r, s)) /\ PartsBefore(r, s, m) \subseteq Parts(r, s)
  BY <1>1, PartsFinite, PartsBeforeIn
<1>4. QED
  BY <1>1, <1>2, <1>3, PartsBeforeGrow

-----------------------------------------------------------------------------
(* The scan of extract: f lines end before o, where the line looked at     *)
(* starts, and q is what was in the range so far.                          *)

Closes(r, s) == {i \in 1..Len(s) : s[i] \in r.closes}

(* How many lines the cells up to n are of.                                *)
LinesTo(r, s, n) == IF n = 0 THEN 0 ELSE LineOf(r, s, n)

FirstOf(r) == IF r.first = 0 THEN 1 ELSE r.first

Ranged(r, n) == n >= FirstOf(r) /\ (r.last = 0 \/ n <= r.last)

ExtractAt(r, s, o, a, f, q) ==
  /\ a \in 1..(Len(s) + 1) /\ o \in 1..a
  /\ \A i \in o..(a - 1) : i \notin Closes(r, s)
  /\ f = LinesTo(r, s, o - 1)
  /\ o # 1 /\ o <= Len(s) => o - 1 \in Closes(r, s)
  /\ q.from \in Nat \ {0} /\ q.to \in Nat /\ q.to < o /\ (q.to # 0 => q.from <= q.to)
  /\ \A i \in 1..(o - 1) : InOutput(r, s, i) <=> i \in q.from..q.to
  /\ f >= FirstOf(r) /\ (r.last = 0 \/ FirstOf(r) <= r.last) => q.to # 0

LEMMA LineOfIs ==
  ASSUME NEW r, NEW s, Len(s) \in Nat, NEW i \in 1..Len(s)
  PROVE  LineOf(r, s, i) = 1 + Count(Closes(r, s), i - 1) /\ LineOf(r, s, i) \in Nat \ {0}
<1>1. {j \in 1..(i - 1) : s[j] \in r.closes} = Closes(r, s) \cap 1..(i - 1)
  BY DEF Closes
<1>2. LineOf(r, s, i) = 1 + Count(Closes(r, s), i - 1)
  BY <1>1 DEF LineOf, Count
<1>3. i - 1 \in Nat
  OBVIOUS
<1>4. Count(Closes(r, s), i - 1) \in Nat
  BY <1>3, Counting
<1>5. QED
  BY <1>2, <1>4

LEMMA LinesGrow ==
  ASSUME NEW r, NEW s, Len(s) \in Nat, NEW i \in 0..Len(s), NEW j \in 0..Len(s), i <= j
  PROVE  LinesTo(r, s, i) \in Nat /\ LinesTo(r, s, j) \in Nat /\ LinesTo(r, s, i) <= LinesTo(r, s, j)
<1>1. \A n \in 0..Len(s) : /\ n = 0 => LinesTo(r, s, n) = 0
                           /\ n # 0 => /\ LinesTo(r, s, n) = 1 + Count(Closes(r, s), n - 1)
                                       /\ n - 1 \in Nat
  BY LineOfIs DEF LinesTo
<1>2. CASE i = 0
  <2>1. LinesTo(r, s, j) \in Nat
    BY <1>1, Counting
  <2>2. QED
    BY <1>1, <1>2, <2>1
<1>3. CASE i # 0
  <2>1. i - 1 \in Nat /\ j - 1 \in Nat /\ i - 1 <= j - 1 /\ j # 0
    BY <1>3
  <2>2. /\ Count(Closes(r, s), i - 1) \in Nat /\ Count(Closes(r, s), j - 1) \in Nat
        /\ Count(Closes(r, s), i - 1) <= Count(Closes(r, s), j - 1)
    BY <2>1, CountMonotone
  <2>3. QED
    BY <1>1, <1>3, <2>1, <2>2
<1>4. QED
  BY <1>2, <1>3

LEMMA ExtractIs ==
  ASSUME NEW r, r.op = "extract", r.first \in Nat, r.last \in Nat, NEW s, Len(s) \in Nat,
         NEW i \in 1..Len(s)
  PROVE  /\ PartOf(r, s, i) = 1
         /\ InOutput(r, s, i) <=> Ranged(r, LineOf(r, s, i))
<1>1. InOutput(r, s, i) <=>
        r.first <= LineOf(r, s, i) /\ (r.last # 0 => LineOf(r, s, i) <= r.last)
  BY DEF InOutput
<1>2. LineOf(r, s, i) \in Nat \ {0}
  BY LineOfIs
<1>3. QED
  BY <1>1, <1>2 DEF PartOf, Ranged, FirstOf

LEMMA ExtractPass ==
  ASSUME NEW r, NEW s, Len(s) \in Nat, NEW o, NEW a \in 1..Len(s), NEW f, NEW q,
         ExtractAt(r, s, o, a, f, q), s[a] \notin r.closes
  PROVE  ExtractAt(r, s, o, a + 1, f, q)
<1>1. a \notin Closes(r, s)
  BY DEF Closes
<1>2. \A i \in o..((a + 1) - 1) : i \in o..(a - 1) \/ i = a
  BY DEF ExtractAt
<1>3. QED
  BY <1>1, <1>2 DEF ExtractAt

(* The lines before the one looked at, and that one.                       *)
LinesAt(r, s, o, a, f) ==
  /\ f \in Nat
  /\ \A i \in o..Len(s) : LineOf(r, s, i) >= f + 1
  /\ \A i \in o..Len(s) : i <= a => LineOf(r, s, i) = f + 1
  /\ o # 1 => o - 1 \in 1..Len(s) /\ LineOf(r, s, o - 1) = f

LEMMA ExtractLines ==
  ASSUME NEW r, NEW s, Len(s) \in Nat, NEW o, NEW a, NEW f, NEW q,
         ExtractAt(r, s, o, a, f, q), o <= Len(s)
  PROVE  LinesAt(r, s, o, a, f)
<1> DEFINE S == Closes(r, s)
<1>1. a \in 1..(Len(s) + 1) /\ o \in 1..a /\ \A i \in o..(a - 1) : i \notin S
  BY DEF ExtractAt
<1>2. f \in Nat /\ f = Count(S, o - 1)
  <2>1. CASE o = 1
    BY <2>1, Counting DEF ExtractAt, LinesTo
  <2>2. CASE o # 1
    <3>1. o - 1 \in 1..Len(s) /\ o - 1 \in S /\ (o - 1) - 1 \in Nat /\ (o - 1) - 1 < o - 1 /\ o - 1 \in Nat \ {0}
      BY <1>1, <2>2 DEF ExtractAt
    <3>2. f = 1 + Count(S, (o - 1) - 1)
      BY <3>1, LineOfIs DEF ExtractAt, LinesTo
    <3>3. Count(S, o - 1) = Count(S, (o - 1) - 1) + 1
      <4> HIDE DEF S
      <4>1. QED
        BY <3>1, CountAt
    <3>4. Count(S, (o - 1) - 1) \in Nat
      BY <3>1, Counting
    <3>5. QED
      BY <3>2, <3>3, <3>4
  <2>3. QED
    BY <2>1, <2>2
<1>3. ASSUME NEW i \in o..Len(s) PROVE LineOf(r, s, i) >= f + 1 /\ (i <= a => LineOf(r, s, i) = f + 1)
  <2>1. i \in 1..Len(s) /\ i - 1 \in Nat /\ o - 1 \in Nat /\ o - 1 <= i - 1
    BY <1>1
  <2>2. LineOf(r, s, i) = 1 + Count(S, i - 1)
    BY <2>1, LineOfIs
  <2> HIDE DEF S
  <2>3. Count(S, o - 1) <= Count(S, i - 1) /\ Count(S, i - 1) \in Nat
    BY <2>1, CountMonotone
  <2>4. ASSUME i <= a PROVE Count(S, i - 1) = Count(S, o - 1)
    <3>1. \A k \in ((o - 1) + 1)..(i - 1) : k \in o..(a - 1)
      BY <1>1, <2>4
    <3>2. \A k \in ((o - 1) + 1)..(i - 1) : k \notin S
      BY <1>1, <3>1
    <3>3. QED
      BY <2>1, <3>2, CountStays
  <2>5. QED
    BY <1>2, <2>2, <2>3, <2>4
<1>4. ASSUME o # 1 PROVE o - 1 \in 1..Len(s) /\ LineOf(r, s, o - 1) = f
  BY <1>1, <1>4 DEF ExtractAt, LinesTo
<1>5. QED
  BY <1>2, <1>3, <1>4 DEF LinesAt

(* The line ends with cell i: it is added to the span, if it is in range.  *)
LEMMA ExtractLineEnds ==
  ASSUME NEW r, r.op = "extract", r.first \in Nat, r.last \in Nat, NEW s, Len(s) \in Nat,
         NEW o, NEW a, NEW f, NEW q, ExtractAt(r, s, o, a, f, q), o <= Len(s),
         NEW i, (i = a /\ i \in Closes(r, s)) \/ (a = Len(s) + 1 /\ i = Len(s)),
         NEW t, t = IF Ranged(r, f + 1) THEN [from |-> IF q.to = 0 THEN o ELSE q.from, to |-> i] ELSE q
  PROVE  ExtractAt(r, s, i + 1, i + 1, f + 1, t)
<1>1. /\ a \in 1..(Len(s) + 1) /\ o \in 1..a /\ q.from \in Nat \ {0} /\ q.to \in Nat /\ q.to < o
      /\ q.to # 0 => q.from <= q.to
      /\ \A j \in 1..(o - 1) : InOutput(r, s, j) <=> j \in q.from..q.to
      /\ f >= FirstOf(r) /\ (r.last = 0 \/ FirstOf(r) <= r.last) => q.to # 0
  BY DEF ExtractAt
<1>2. i \in 1..Len(s) /\ o <= i /\ i <= a
  BY <1>1 DEF Closes
<1>3. /\ f \in Nat
      /\ \A j \in o..Len(s) : j <= a => LineOf(r, s, j) = f + 1
      /\ o # 1 => o - 1 \in 1..Len(s) /\ LineOf(r, s, o - 1) = f
  <2>1. LinesAt(r, s, o, a, f)
    BY ExtractLines
  <2>2. QED
    BY <2>1 DEF LinesAt
<1>4. f + 1 = LinesTo(r, s, (i + 1) - 1)
  BY <1>2, <1>3 DEF LinesTo
<1>5. ASSUME NEW j \in o..i PROVE InOutput(r, s, j) <=> Ranged(r, f + 1)
  <2>1. j \in 1..Len(s) /\ j \in o..Len(s) /\ j <= a
    BY <1>1, <1>2
  <2>2. LineOf(r, s, j) = f + 1
    BY <1>3, <2>1
  <2>3. QED
    BY <2>1, <2>2, ExtractIs
<1>6. Ranged(r, f + 1) /\ q.to # 0 => q.to = o - 1 /\ q.from <= q.to
  <2>1. SUFFICES ASSUME Ranged(r, f + 1), q.to # 0 PROVE q.to = o - 1 /\ q.from <= q.to
    OBVIOUS
  <2>2. o # 1
    BY <1>1, <2>1
  <2>3. o - 1 \in 1..Len(s) /\ LineOf(r, s, o - 1) = f /\ o - 1 \in 1..(o - 1)
    BY <1>1, <1>3, <2>2
  <2>4. f >= FirstOf(r)
    <3>1. ASSUME ~(f >= FirstOf(r)) PROVE FALSE
      <4>1. q.to \in 1..(o - 1) /\ q.to \in q.from..q.to /\ q.to \in 1..Len(s)
        BY <1>1, <1>2, <2>1
      <4>2. Ranged(r, LineOf(r, s, q.to))
        BY <1>1, <4>1, ExtractIs
      <4>3. /\ LinesTo(r, s, q.to) <= LinesTo(r, s, o - 1)
            /\ LinesTo(r, s, q.to) = LineOf(r, s, q.to) /\ LinesTo(r, s, o - 1) = LineOf(r, s, o - 1)
        <5>1. q.to \in 0..Len(s) /\ o - 1 \in 0..Len(s) /\ q.to <= o - 1
          BY <1>1, <2>3, <4>1
        <5>2. LinesTo(r, s, q.to) <= LinesTo(r, s, o - 1)
          BY <5>1, LinesGrow
        <5>3. q.to # 0 /\ o - 1 # 0
          BY <1>1, <2>1, <2>2
        <5>4. QED
          BY <5>2, <5>3 DEF LinesTo
      <4>4. LineOf(r, s, q.to) \in Nat
        BY <4>1, LineOfIs
      <4>5. FirstOf(r) \in Nat
        BY DEF FirstOf
      <4>6. QED
        BY <1>3, <2>3, <3>1, <4>2, <4>3, <4>4, <4>5 DEF Ranged
    <3>2. QED
      BY <3>1
  <2>5. Ranged(r, f)
    BY <1>3, <2>1, <2>4 DEF Ranged
  <2>6. InOutput(r, s, o - 1)
    BY <2>3, <2>5, ExtractIs
  <2>7. o - 1 \in q.from..q.to
    BY <1>1, <2>3, <2>6
  <2>8. QED
    BY <1>1, <2>7
<1>7. t.from \in Nat \ {0} /\ t.to \in Nat /\ t.to < i + 1 /\ (t.to # 0 => t.from <= t.to)
  BY <1>1, <1>2
<1>8. ASSUME NEW j \in 1..i PROVE InOutput(r, s, j) <=> j \in t.from..t.to
  <2>1. CASE Ranged(r, f + 1)
    <3>1. t.to = i /\ t.from = IF q.to = 0 THEN o ELSE q.from
      BY <2>1
    <3>2. CASE j >= o
      <4>1. j \in o..i
        BY <1>1, <1>2, <3>2
      <4>2. InOutput(r, s, j)
        BY <1>5, <2>1, <4>1
      <4>3. t.from <= j
        BY <1>1, <1>6, <2>1, <3>1, <3>2
      <4>4. QED
        BY <1>2, <1>7, <3>1, <4>2, <4>3
    <3>3. CASE j < o
      <4>1. j \in 1..(o - 1)
        BY <1>1, <3>3
      <4>2. InOutput(r, s, j) <=> j \in q.from..q.to
        BY <1>1, <4>1
      <4>3. QED
        BY <1>1, <1>2, <1>6, <2>1, <3>1, <3>3, <4>2
    <3>4. QED
      BY <1>1, <3>2, <3>3
  <2>2. CASE ~Ranged(r, f + 1)
    <3>1. t = q
      BY <2>2
    <3>2. CASE j >= o
      <4>1. j \in o..i
        BY <1>1, <1>2, <3>2
      <4>2. ~InOutput(r, s, j)
        BY <1>5, <2>2, <4>1
      <4>3. QED
        BY <1>1, <3>1, <3>2, <4>2
    <3>3. CASE j < o
      <4>1. j \in 1..(o - 1)
        BY <1>1, <3>3
      <4>2. QED
        BY <1>1, <3>1, <4>1
    <3>4. QED
      BY <1>1, <3>2, <3>3
  <2>3. QED
    BY <2>1, <2>2
<1>9. f + 1 >= FirstOf(r) /\ (r.last = 0 \/ FirstOf(r) <= r.last) => t.to # 0
  <2>1. SUFFICES ASSUME f + 1 >= FirstOf(r), r.last = 0 \/ FirstOf(r) <= r.last PROVE t.to # 0
    OBVIOUS
  <2>2. CASE Ranged(r, f + 1)
    BY <1>2, <2>2
  <2>3. CASE ~Ranged(r, f + 1)
    <3>1. r.last # 0 /\ f + 1 > r.last
      BY <1>3, <2>1, <2>3 DEF Ranged
    <3>2. FirstOf(r) \in Nat
      BY DEF FirstOf
    <3>3. f >= FirstOf(r)
      BY <1>3, <2>1, <3>1, <3>2
    <3>4. QED
      BY <1>1, <2>1, <2>3, <3>3
  <2>4. QED
    BY <2>2, <2>3
<1>10. i + 1 <= Len(s) => i \in Closes(r, s)
  BY <1>2
<1>11. (i + 1) - 1 = i /\ i + 1 \in 1..(Len(s) + 1) /\ (i + 1)..((i + 1) - 1) = {}
  BY <1>2
<1>12. QED
  BY <1>4, <1>7, <1>8, <1>9, <1>10, <1>11 DEF ExtractAt

(* No line is after the source, and a closed range has been seen whole:    *)
(* the span is what is in the range.                                       *)
Whole(r, s, o, f) == o = Len(s) + 1 \/ (r.last # 0 /\ f = r.last)

LEMMA ExtractWhole ==
  ASSUME NEW r, r.op = "extract", r.first \in Nat, r.last \in Nat, NEW s, Len(s) \in Nat,
         NEW o, NEW a, NEW f, NEW q, ExtractAt(r, s, o, a, f, q), Whole(r, s, o, f), q.to # 0
  PROVE  NextPart(r, s, << >>, q, Len(s) + 1)
<1>1. /\ a \in 1..(Len(s) + 1) /\ o \in 1..a /\ q.from \in Nat \ {0} /\ q.to \in Nat /\ q.to < o
      /\ q.from <= q.to
      /\ \A j \in 1..(o - 1) : InOutput(r, s, j) <=> j \in q.from..q.to
  BY DEF ExtractAt
<1>2. ASSUME NEW j \in 1..Len(s), j >= o PROVE ~InOutput(r, s, j)
  <2>1. o <= Len(s)
    BY <1>1, <1>2
  <2>2. LinesAt(r, s, o, a, f)
    BY <2>1, ExtractLines
  <2>3. r.last # 0 /\ f = r.last
    BY <2>1 DEF Whole
  <2>4. LineOf(r, s, j) >= f + 1 /\ LineOf(r, s, j) \in Nat
    <3>1. j \in o..Len(s)
      BY <1>1, <1>2
    <3>2. LineOf(r, s, j) >= f + 1
      BY <2>2, <3>1 DEF LinesAt
    <3>3. LineOf(r, s, j) \in Nat
      BY LineOfIs
    <3>4. QED
      BY <3>2, <3>3
  <2>5. QED
    BY <2>3, <2>4, ExtractIs DEF Ranged
<1>3. \A j \in 1..Len(s) : InOutput(r, s, j) <=> j \in q.from..q.to
  BY <1>1, <1>2
<1>4. q.to <= Len(s)
  BY <1>1
<1>5. \A j \in 1..Len(s) : PartOf(r, s, j) = 1
  BY ExtractIs
<1>6. \A j \in q.from..q.to : j \in 1..Len(s)
  BY <1>1, <1>4
<1>7. IsPart(r, s, q)
  <2>1. q.from \in q.from..q.to
    BY <1>1
  <2>2. QED
    BY <1>1, <1>3, <1>4, <1>5, <1>6, <2>1 DEF IsPart
<1>8. QED
  BY <1>1, <1>3, <1>4, <1>7 DEF NextPart

LEMMA ExtractCounts ==
  ASSUME NEW r, NEW s, Len(s) \in Nat, NEW o, NEW a, NEW f, NEW q, ExtractAt(r, s, o, a, f, q)
  PROVE  /\ f \in Nat /\ LinesTo(r, s, Len(s)) \in Nat /\ f <= LinesTo(r, s, Len(s))
         /\ o = Len(s) + 1 => f = LinesTo(r, s, Len(s))
<1>1. o - 1 \in 0..Len(s) /\ Len(s) \in 0..Len(s) /\ o - 1 <= Len(s) /\ f = LinesTo(r, s, o - 1)
  BY DEF ExtractAt
<1>2. QED
  BY <1>1, LinesGrow

(* A scan begins.                                                          *)
LEMMA ScansBegin ==
  ASSUME NEW r, NEW s, Len(s) \in Nat, NEW q, q.from = 1, q.to = 0
  PROVE  /\ SplitAt(r, s, << >>, 0, 1)
         /\ BlocksAt(r, s, << >>, 0, 1)
         /\ (r.first \in Nat => ExtractAt(r, s, 1, 1, 0, q))
<1>1. SplitAt(r, s, << >>, 0, 1)
  BY DEF SplitAt
<1>2. BlocksAt(r, s, << >>, 0, 1)
  BY InBlockIs, FollowNothing DEF BlocksAt, Inside
<1>3. ASSUME r.first \in Nat PROVE ExtractAt(r, s, 1, 1, 0, q)
  <2>1. FirstOf(r) > 0 /\ FirstOf(r) \in Nat
    BY <1>3 DEF FirstOf
  <2>2. LinesTo(r, s, 1 - 1) = 0
    BY DEF LinesTo
  <2>3. QED
    BY <2>1, <2>2 DEF ExtractAt
<1>4. QED
  BY <1>1, <1>2, <1>3

-----------------------------------------------------------------------------
(* What the scan of a request accepts.                                     *)

(* No delimiter before line a opens more outputs than there are paths.     *)
Opened(r, s, a) ==
  \A i \in Opens(r, s) : i < a => Cardinality(PartsBefore(r, s, i)) + 1 <= Len(r.dest)

Scans(r, s) ==
  /\ r.op = "split" => Opens(r, s) # {} /\ Opened(r, s, Len(s) + 1)
  /\ r.op = "blocks" =>
       /\ Opens(r, s) # {}
       /\ ~InBlock(r, s)[Len(s) + 1]
       /\ Cardinality(Parts(r, s)) <= Len(r.dest)
  /\ r.op = "extract" =>
       /\ FirstOf(r) <= IF r.last = 0 THEN LinesTo(r, s, Len(s)) ELSE r.last
       /\ r.last <= LinesTo(r, s, Len(s))

OutputsOf(r, s) == IF r.op = "extract" THEN 1 ELSE Cardinality(Parts(r, s))

(* Only what asks for the parts decides.                                   *)
SameAsk(r, q) ==
  /\ q.op = r.op /\ q.opens = r.opens /\ q.closes = r.closes /\ q.bare = r.bare
  /\ q.first = r.first /\ q.last = r.last /\ q.dest = r.dest

LEMMA SameScan ==
  ASSUME NEW r, r.op \in Command, NEW q, SameAsk(r, q), NEW s, Len(s) \in Nat
  PROVE  (Scans(q, s) <=> Scans(r, s)) /\ OutputsOf(q, s) = OutputsOf(r, s) /\ Parts(q, s) = Parts(r, s)
<1>1. /\ q.op = r.op /\ q.opens = r.opens /\ q.closes = r.closes /\ q.bare = r.bare
      /\ q.first = r.first /\ q.last = r.last /\ q.dest = r.dest
  BY DEF SameAsk
<1>2. InBlock(q, s) = InBlock(r, s)
  BY <1>1, InBlockSame
<1>3. BlockStarts(q, s) = BlockStarts(r, s) /\ BlockEnds(q, s) = BlockEnds(r, s)
  BY <1>1, <1>2 DEF BlockStarts, BlockEnds
<1>4. \A i : LineOf(q, s, i) = LineOf(r, s, i)
  BY <1>1 DEF LineOf
<1>5. \A i : InOutput(q, s, i) <=> InOutput(r, s, i)
  BY <1>1, <1>2, <1>3, <1>4 DEF InOutput, Command
<1>6. \A i : PartOf(q, s, i) = PartOf(r, s, i)
  BY <1>1, <1>3 DEF PartOf, SplitPart, BlockPart, Command
<1>7. \A part : CellsOf(q, s, part) = CellsOf(r, s, part)
  BY <1>5, <1>6 DEF CellsOf
<1>8. Parts(q, s) = Parts(r, s)
  BY <1>7 DEF Parts
<1>9. \A n : PartsBefore(q, s, n) = PartsBefore(r, s, n)
  BY <1>5, <1>6 DEF PartsBefore
<1>10. Opens(q, s) = Opens(r, s)
  BY <1>1 DEF Opens
<1>11. LinesTo(q, s, Len(s)) = LinesTo(r, s, Len(s)) /\ FirstOf(q) = FirstOf(r)
  BY <1>1, <1>4 DEF LinesTo, FirstOf
<1>12. Opened(q, s, Len(s) + 1) <=> Opened(r, s, Len(s) + 1)
  BY <1>1, <1>9, <1>10 DEF Opened
<1>13. Scans(q, s) <=> Scans(r, s)
  BY <1>1, <1>2, <1>8, <1>10, <1>11, <1>12 DEF Scans
<1>14. QED
  BY <1>1, <1>8, <1>13 DEF OutputsOf

-----------------------------------------------------------------------------
(* A section of split that is planned, and a delimiter there is room for.  *)

LEMMA SplitGrows ==
  ASSUME NEW r, r.op = "split", NEW s, Len(s) \in Nat, NEW P, Len(P) \in Nat, NEW o, NEW a,
         SplitAt(r, s, P, o, a), NEW q,
         q.from = SplitFrom(r, o), q.to = a - 1, q.from <= q.to, NEW Q, Extends(P, q, Q)
  PROVE  Follow(r, s, Q, a)
<1>1. NextPart(r, s, P, q, a)
  BY SplitNext
<1>2. a \in Nat
  BY DEF SplitAt
<1>3. PICK n \in Nat : n <= a /\ Follow(r, s, P, n)
  <2>1. CASE o = 0
    <3>1. Follow(r, s, P, 1) /\ 1 <= a
      BY <2>1, FollowNothing DEF SplitAt
    <3>2. QED
      BY <3>1
  <2>2. CASE o # 0
    BY <2>2 DEF SplitAt
  <2>3. QED
    BY <2>1, <2>2
<1>4. QED
  BY <1>1, <1>2, <1>3, FollowAppend

LEMMA SplitOpened ==
  ASSUME NEW r, r.op \in Command, NEW s, Len(s) \in Nat, NEW P, Len(P) \in Nat,
         NEW a \in 1..Len(s), Follow(r, s, P, a), Opened(r, s, a), Len(P) + 1 <= Len(r.dest)
  PROVE  Opened(r, s, a + 1)
<1>1. a \in 1..(Len(s) + 1)
  OBVIOUS
<1>2. Cardinality(PartsBefore(r, s, a)) = Len(P)
  BY <1>1, FollowParts
<1>3. \A i \in Opens(r, s) : i < a + 1 => i < a \/ i = a
  BY DEF Opens
<1>4. QED
  BY <1>2, <1>3 DEF Opened

LEMMA SplitNotOpened ==
  ASSUME NEW r, r.op \in Command, NEW s, Len(s) \in Nat, NEW P, Len(P) \in Nat,
         NEW a \in 1..Len(s), s[a] \in r.opens, Follow(r, s, P, a), Len(r.dest) \in Nat,
         Len(P) + 1 > Len(r.dest)
  PROVE  ~Opened(r, s, Len(s) + 1)
<1>1. a \in 1..(Len(s) + 1) /\ a \in Opens(r, s) /\ a < Len(s) + 1
  BY DEF Opens
<1>2. Cardinality(PartsBefore(r, s, a)) = Len(P)
  BY <1>1, FollowParts
<1>3. QED
  BY <1>1, <1>2 DEF Opened

(* No delimiter is passed over.                                            *)
LEMMA OpenedPass ==
  ASSUME NEW r, NEW s, Len(s) \in Nat, NEW a \in 1..Len(s), Opened(r, s, a), s[a] \notin r.opens
  PROVE  Opened(r, s, a + 1)
<1>1. \A i \in Opens(r, s) : i < a + 1 => i < a
  BY DEF Opens
<1>2. QED
  BY <1>1 DEF Opened
=============================================================================
