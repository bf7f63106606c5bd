------------------------ MODULE ShardedCoverageProofs ------------------------
(***************************************************************************)
(* For any area, division into shards, satellites kept, chunks, number of  *)
(* workers and whatever fails: a run returns what the monolithic           *)
(* computation would or raises; the context of the pool outlives every     *)
(* task, and no task the run.                                              *)
(***************************************************************************)
EXTENDS ShardedCoverage, SequenceTheorems, WellFoundedInduction, FiniteSetTheorems, TLAPS

\* A nonempty set of naturals has a least element.
LEMMA LeastElement ==
    ASSUME NEW A \in SUBSET Nat, A # {}
    PROVE  \E m \in A : \A k \in A : m <= k
<1> DEFINE Segments == {0 .. n : n \in A}
<1>1. Segments \subseteq FiniteSubsetsOf(Nat)
    <2>1. ASSUME NEW n \in A
          PROVE  0 .. n \in SUBSET Nat /\ IsFiniteSet(0 .. n)
        <3>1. n \in Int
            OBVIOUS
        <3> QED BY <3>1, FS_Interval
    <2> QED BY <2>1 DEF FiniteSubsetsOf
<1>2. PICK x \in Segments : \A y \in Segments : <<y, x>> \notin StrictSubsetOrdering(Nat)
    <2>1. Segments # {}
        OBVIOUS
    <2> HIDE DEF Segments
    <2> QED BY <1>1, <2>1, FS_StrictSubsetOrderingWellFounded, WFMin
<1>3. PICK m \in A : x = 0 .. m
    OBVIOUS
<1>4. ASSUME NEW k \in A, ~(m <= k)
      PROVE  FALSE
    <2>1. 0 .. k \subseteq 0 .. m /\ 0 .. k # 0 .. m /\ 0 .. k \subseteq Nat /\ 0 .. m \subseteq Nat
        <3>1. m \in 0 .. m /\ m \notin 0 .. k
            BY <1>4
        <3> QED BY <1>4, <3>1
    <2>2. <<0 .. k, 0 .. m>> \in StrictSubsetOrdering(Nat)
        BY <2>1 DEF StrictSubsetOrdering
    <2> QED BY <1>2, <1>3, <2>2
<1> QED BY <1>4

\* A bijection between finite sets: they have as many elements.
LEMMA SameCount ==
    ASSUME NEW S, IsFiniteSet(S), NEW T, NEW f \in [S -> T],
           \A x, y \in S : f[x] = f[y] => x = y,
           \A t \in T : \E x \in S : f[x] = t
    PROVE  IsFiniteSet(T) /\ Cardinality(T) = Cardinality(S)
<1>1. f \in Bijection(S, T)
    BY DEF Bijection, Injection, Surjection, IsInjective
<1> QED
    BY <1>1, FS_Bijection DEF ExistsBijection

\* Two sets with nothing in common are counted one after the other.
LEMMA DisjointCount ==
    ASSUME NEW S, IsFiniteSet(S), NEW T, IsFiniteSet(T), S \cap T = {}
    PROVE  IsFiniteSet(S \cup T) /\ Cardinality(S \cup T) = Cardinality(S) + Cardinality(T)
<1>1. Cardinality(S) \in Nat /\ Cardinality(T) \in Nat /\ Cardinality(S \cap T) = 0
    BY FS_CardinalityType, FS_EmptySet
<1>2. /\ IsFiniteSet(S \cup T)
      /\ Cardinality(S \cup T) = Cardinality(S) + Cardinality(T) - Cardinality(S \cap T)
    BY FS_Union
<1> QED
    BY <1>1, <1>2

\* R is a strict total order of S, and the number of elements before x in it.
Orders(R, S) ==
    /\ \A x, y \in S : <<x, y>> \in R => <<y, x>> \notin R
    /\ \A x, y, z \in S : <<x, y>> \in R /\ <<y, z>> \in R => <<x, z>> \in R
    /\ \A x, y \in S : x # y => <<x, y>> \in R \/ <<y, x>> \in R

Place(R, S, x) == Cardinality({y \in S : <<y, x>> \in R})

\* There is exactly one element with n elements before it.
HasPlace(R, S, n) ==
    \E x \in S : Place(R, S, x) = n /\ \A z \in S : Place(R, S, z) = n => z = x

\* In a finite ordered set each element has a place of its own, and each place
\* an element.
LEMMA Ranked ==
    ASSUME NEW S, IsFiniteSet(S), NEW R, Orders(R, S),
           NEW n \in 0 .. Cardinality(S) - 1
    PROVE  HasPlace(R, S, n)
<1> DEFINE Earlier(x) == {y \in S : <<y, x>> \in R}
           rank == [x \in S |-> Cardinality(Earlier(x))]
           Ranks == 0 .. Cardinality(S) - 1
<1>1. Cardinality(S) \in Nat
    BY FS_CardinalityType
<1>2. \A x \in S : IsFiniteSet(Earlier(x)) /\ Cardinality(Earlier(x)) \in Nat
    BY FS_Subset, FS_CardinalityType
<1>3. ASSUME NEW x \in S, NEW y \in S, <<x, y>> \in R
      PROVE  rank[x] < rank[y]
    <2>1. Earlier(x) \cup {x} \subseteq Earlier(y) /\ x \notin Earlier(x)
        BY <1>3 DEF Orders
    <2>2. Cardinality(Earlier(x) \cup {x}) = Cardinality(Earlier(x)) + 1
        BY <1>2, <2>1, FS_AddElement
    <2>3. Cardinality(Earlier(x) \cup {x}) <= Cardinality(Earlier(y))
        BY <1>2, <2>1, FS_Subset
    <2>4. rank[x] = Cardinality(Earlier(x)) /\ rank[y] = Cardinality(Earlier(y))
        OBVIOUS
    <2>5. Cardinality(Earlier(x)) \in Nat /\ Cardinality(Earlier(y)) \in Nat
        BY <1>2
    <2> HIDE DEF Earlier, rank
    <2> QED
        BY <2>2, <2>3, <2>4, <2>5
<1>4. rank \in [S -> Ranks]
    <2>1. ASSUME NEW x \in S
          PROVE  Cardinality(Earlier(x)) \in Ranks
        <3>1. Earlier(x) \subseteq S \ {x}
            BY DEF Orders
        <3>2. IsFiniteSet(S \ {x}) /\ Cardinality(S \ {x}) = Cardinality(S) - 1
            BY FS_RemoveElement
        <3>3. Cardinality(Earlier(x)) <= Cardinality(S \ {x})
            BY <3>1, <3>2, FS_Subset
        <3> QED
            BY <1>1, <1>2, <3>2, <3>3
    <2> QED
        BY <2>1
<1>5. \A x, y \in S : rank[x] = rank[y] => x = y
    <2>1. \A x \in S : rank[x] \in Nat
        BY <1>2
    <2>2. \A x, y \in S : <<x, y>> \in R => rank[x] # rank[y]
        <3> HIDE DEF rank
        <3> QED BY <1>3, <2>1
    <2> HIDE DEF rank
    <2> QED
        BY <2>2 DEF Orders
<1>6. rank \in Injection(S, Ranks)
    BY <1>4, <1>5 DEF Injection, IsInjective
<1>7. IsFiniteSet(Ranks) /\ Cardinality(Ranks) = Cardinality(S)
    BY <1>1, FS_Interval
<1>8. rank \in Surjection(S, Ranks)
    <2> HIDE DEF rank, Ranks
    <2> QED BY <1>6, <1>7, FS_Injection
<1>9. PICK x \in S : rank[x] = n
    <2> HIDE DEF rank
    <2> QED BY <1>8 DEF Surjection
<1>10. \A z \in S : rank[z] = Place(R, S, z)
    BY DEF Place
<1> HIDE DEF rank
<1> QED
    BY <1>5, <1>9, <1>10 DEF HasPlace

-----------------------------------------------------------------------------
(***************************************************************************)
(* The satellites a shard keeps, numbered from 0.                          *)
(***************************************************************************)
\* idx numbers the satellites of view anew: in order, all that are ever in view.
Numbers(idx, m, view) ==
    /\ m \in 0 .. NSat
    /\ idx \in [0 .. m - 1 -> Sats]
    /\ \A k, l \in 0 .. m - 1 : k < l => idx[k] < idx[l]
    /\ \A s \in Sats : view[s] # {} => \E l \in 0 .. m - 1 : idx[l] = s

\* np.nonzero: SatIdx(kept) lists a finite set of numbers in order.
LEMMA SatIdxOf ==
    ASSUME NEW kept \in SUBSET Nat, IsFiniteSet(kept)
    PROVE  LET m == Cardinality(kept)
           IN  /\ m \in Nat
               /\ SatIdx(kept) \in [0 .. m - 1 -> kept]
               /\ \A k, l \in 0 .. m - 1 : k < l => SatIdx(kept)[k] < SatIdx(kept)[l]
               /\ \A s \in kept : \E l \in 0 .. m - 1 : SatIdx(kept)[l] = s
<1> DEFINE m == Cardinality(kept)
           Below(s) == {r \in kept : r < s}
           R == {p \in kept \X kept : p[1] < p[2]}
           idx == SatIdx(kept)
<1>1. kept \subseteq Int /\ IsFiniteSet(kept) /\ m \in Nat
    BY FS_CardinalityType
<1>2. \A x \in kept : Place(R, kept, x) = Cardinality(Below(x))
    <2>1. \A x \in kept : {y \in kept : <<y, x>> \in R} = Below(x)
        OBVIOUS
    <2> QED
        BY <2>1 DEF Place
<1>3. \A n \in 0 .. m - 1 : \E x \in kept : Cardinality(Below(x)) = n
    <2>1. Orders(R, kept)
        BY <1>1 DEF Orders
    <2> SUFFICES ASSUME NEW n \in 0 .. m - 1
                 PROVE  \E x \in kept : Cardinality(Below(x)) = n
        OBVIOUS
    <2>2. PICK x \in kept : Place(R, kept, x) = n
        <3>1. IsFiniteSet(kept) /\ n \in 0 .. Cardinality(kept) - 1
            BY <1>1
        <3> HIDE DEF R
        <3>2. HasPlace(R, kept, n)
            BY <2>1, <3>1, Ranked
        <3> QED BY <3>2 DEF HasPlace
    <2> HIDE DEF R, Below
    <2> QED
        BY <1>2, <2>2
<1>4. /\ idx = [l \in 0 .. m - 1 |-> idx[l]]
      /\ \A l \in 0 .. m - 1 : idx[l] \in kept /\ Cardinality(Below(idx[l])) = l
    <2>1. idx = [l \in 0 .. m - 1 |-> CHOOSE s \in kept : Cardinality(Below(s)) = l]
        BY DEF SatIdx
    <2> HIDE DEF idx, Below, m
    <2> QED
        BY <1>3, <2>1
<1>5. idx \in [0 .. m - 1 -> kept]
    BY <1>4
<1>6. \A k, l \in 0 .. m - 1 : k < l => idx[k] < idx[l]
    <2> SUFFICES ASSUME NEW k \in 0 .. m - 1, NEW l \in 0 .. m - 1, k < l, ~(idx[k] < idx[l])
                 PROVE  FALSE
        OBVIOUS
    <2>1. Below(idx[l]) \subseteq Below(idx[k])
        <3> HIDE DEF idx, m
        <3>1. idx[k] \in Int /\ idx[l] \in Int
            BY <1>1, <1>5
        <3>2. idx[l] <= idx[k]
            BY <3>1
        <3>3. \A r \in kept : r < idx[l] => r < idx[k]
            BY <1>1, <3>1, <3>2
        <3> QED BY <3>3
    <2>2. IsFiniteSet(Below(idx[k]))
        BY <1>1, FS_Subset
    <2>3. Cardinality(Below(idx[l])) <= Cardinality(Below(idx[k]))
        <3> HIDE DEF Below
        <3> QED BY <2>1, <2>2, FS_Subset
    <2> HIDE DEF Below, m, idx
    <2> QED
        BY <1>1, <1>4, <2>3
<1>7. \A s \in kept : \E l \in 0 .. m - 1 : idx[l] = s
    <2>1. \A k, l \in 0 .. m - 1 : idx[k] = idx[l] => k = l
        <3> HIDE DEF idx, m
        <3>1. \A k \in 0 .. m - 1 : idx[k] \in Int
            BY <1>1, <1>5
        <3>2. \A k, l \in 0 .. m - 1 : k # l => k < l \/ l < k
            BY <1>1
        <3> QED BY <1>6, <3>1, <3>2
    <2>2. idx \in Injection(0 .. m - 1, kept)
        BY <1>5, <2>1 DEF Injection, IsInjective
    <2>3. IsFiniteSet(0 .. m - 1) /\ Cardinality(0 .. m - 1) = m
        <3> HIDE DEF m
        <3>1. m - 1 \in Int /\ m \in Nat
            BY <1>1
        <3> QED BY <3>1, FS_Interval
    <2>4. idx \in Surjection(0 .. m - 1, kept)
        <3> HIDE DEF idx
        <3> QED BY <1>1, <2>2, <2>3, FS_Injection
    <2> QED
        BY <2>4 DEF Surjection
<1> QED
    BY <1>1, <1>5, <1>6, <1>7

-----------------------------------------------------------------------------
(***************************************************************************)
(* A cell seen through the satellites of its shard has the same intervals, *)
(* but for their numbers.                                                  *)
(***************************************************************************)
\* The view and the planes by local number, and an interval by global number.
LocalView(idx, view) == [l \in DOMAIN idx |-> view[idx[l]]]
LocalPlanes(idx) == [l \in DOMAIN idx |-> PlaneUid[idx[l]]]
Whole(idx, i) == [sat |-> idx[i.sat], st |-> i.st, en |-> i.en]

\* There are finitely many intervals.
LEMMA FiniteIntervals ==
    ASSUME NEW ivs \in SUBSET Interval
    PROVE  IsFiniteSet(ivs) /\ Cardinality(ivs) \in Nat
<1> USE IntervalsAssumption
<1> DEFINE Triples == (Sats \X Times) \X Times
           record == [p \in Triples |-> [sat |-> p[1][1], st |-> p[1][2], en |-> p[2]]]
<1>1. IsFiniteSet(Sats) /\ IsFiniteSet(Times)
    BY FS_Interval DEF Sats, Times
<1>2. IsFiniteSet(Triples)
    <2>1. IsFiniteSet(Sats \X Times)
        BY <1>1, FS_Product
    <2> QED
        BY <1>1, <2>1, FS_Product
<1>3. record \in [Triples -> Interval]
    BY DEF Interval
<1>4. \A i \in Interval : \E p \in Triples : record[p] = i
    <2>1. ASSUME NEW i \in Interval
          PROVE  record[<<<<i.sat, i.st>>, i.en>>] = i /\ <<<<i.sat, i.st>>, i.en>> \in Triples
        BY DEF Interval
    <2> HIDE DEF record, Triples
    <2> QED
        BY <2>1
<1>5. record \in Surjection(Triples, Interval)
    <2> HIDE DEF record, Triples
    <2> QED BY <1>3, <1>4 DEF Surjection
<1>6. IsFiniteSet(Interval)
    <2> HIDE DEF record, Triples
    <2> QED BY <1>2, <1>5, FS_Surjection
<1> QED
    BY <1>6, FS_Subset, FS_CardinalityType

\* The local intervals and the whole ones: one to one, in the same order.
LEMMA WholeIntervals ==
    ASSUME NEW idx, NEW m, NEW view \in [Sats -> SUBSET Times], Numbers(idx, m, view)
    PROVE  LET L == intervals_from_inview(LocalView(idx, view))
               G == intervals_from_inview(view)
           IN  /\ L \in SUBSET Interval /\ G \in SUBSET Interval
               /\ \A i \in L : i.sat \in 0 .. m - 1 /\ Whole(idx, i) \in G
               /\ \A g \in G : \E i \in L : Whole(idx, i) = g
               /\ \A i, j \in L : Whole(idx, i) = Whole(idx, j) => i = j
               /\ \A i, j \in L : Before(Whole(idx, i), Whole(idx, j)) <=> Before(i, j)
<1> DEFINE local == LocalView(idx, view)
           L == intervals_from_inview(local)
           G == intervals_from_inview(view)
<1> USE IntervalsAssumption
<1>1. /\ m \in 0 .. NSat /\ idx \in [0 .. m - 1 -> Sats]
      /\ \A k, l \in 0 .. m - 1 : k < l => idx[k] < idx[l]
      /\ \A s \in Sats : view[s] # {} => \E l \in 0 .. m - 1 : idx[l] = s
    BY DEF Numbers
<1>2. DOMAIN local = 0 .. m - 1 /\ \A l \in 0 .. m - 1 : local[l] = view[idx[l]]
    BY <1>1 DEF LocalView
<1>3. L \in SUBSET Interval /\ G \in SUBSET Interval
    BY DEF intervals_from_inview
<1>4. \A i \in L : i.sat \in 0 .. m - 1
    BY <1>2 DEF intervals_from_inview
<1>5. ASSUME NEW i \in L
      PROVE  Whole(idx, i) \in G
    <2> DEFINE w == Whole(idx, i)
    <2>1. /\ i \in Interval /\ i.sat \in 0 .. m - 1 /\ idx[i.sat] \in Sats
          /\ local[i.sat] = view[idx[i.sat]]
        BY <1>1, <1>2, <1>3, <1>4
    <2>2. w \in Interval /\ w.sat = idx[i.sat] /\ w.st = i.st /\ w.en = i.en
        BY <2>1 DEF Whole, Interval
    <2>3. w.sat \in DOMAIN view
        BY <2>1, <2>2
    <2>4. /\ i.st \in Rises(local[i.sat]) /\ i.en \in Falls(local[i.sat]) /\ i.st <= i.en
          /\ \A e \in Falls(local[i.sat]) : i.st <= e => i.en <= e
        BY DEF intervals_from_inview
    <2> SUFFICES w \in G
        OBVIOUS
    <2> HIDE DEF w, local
    <2> QED
        BY <2>1, <2>2, <2>3, <2>4 DEF intervals_from_inview
<1>6. ASSUME NEW g \in G
      PROVE  \E i \in L : Whole(idx, i) = g
    <2>1. g \in Interval /\ g.st \in view[g.sat] /\ g.sat \in Sats
        BY DEF intervals_from_inview, Rises, Interval
    <2>2. PICK l \in 0 .. m - 1 : idx[l] = g.sat
        BY <1>1, <2>1
    <2> DEFINE i == [sat |-> l, st |-> g.st, en |-> g.en]
    <2>3. i.sat = l /\ i.st = g.st /\ i.en = g.en /\ i \in Interval
        BY <1>1, <2>1 DEF Interval, Sats
    <2>4. local[i.sat] = view[g.sat] /\ i.sat \in DOMAIN local
        BY <1>2, <2>2, <2>3
    <2>5. Whole(idx, i) = g
        BY <2>1, <2>2, <2>3 DEF Whole, Interval
    <2>6. i \in L
        <3> HIDE DEF i, local
        <3> QED BY <2>3, <2>4 DEF intervals_from_inview
    <2> QED
        BY <2>5, <2>6
<1>7. \A k, l \in 0 .. m - 1 : (idx[k] < idx[l] <=> k < l) /\ (idx[k] = idx[l] <=> k = l)
    <2> SUFFICES ASSUME NEW k \in 0 .. m - 1, NEW l \in 0 .. m - 1
                 PROVE  (idx[k] < idx[l] <=> k < l) /\ (idx[k] = idx[l] <=> k = l)
        OBVIOUS
    <2>1. idx[k] \in Int /\ idx[l] \in Int /\ k \in Int /\ l \in Int
        BY <1>1 DEF Sats
    <2>2. (k < l => idx[k] < idx[l]) /\ (l < k => idx[l] < idx[k])
        BY <1>1
    <2>3. k < l \/ l < k \/ k = l
        BY <2>1
    <2> QED
        BY <2>1, <2>2, <2>3
<1>8. ASSUME NEW i \in L, NEW j \in L
      PROVE  /\ Whole(idx, i) = Whole(idx, j) => i = j
             /\ Before(Whole(idx, i), Whole(idx, j)) <=> Before(i, j)
    <2>1. i \in Interval /\ j \in Interval /\ i.sat \in 0 .. m - 1 /\ j.sat \in 0 .. m - 1
        BY <1>3, <1>4
    <2>2. /\ Whole(idx, i).sat = idx[i.sat] /\ Whole(idx, i).st = i.st /\ Whole(idx, i).en = i.en
          /\ Whole(idx, j).sat = idx[j.sat] /\ Whole(idx, j).st = j.st /\ Whole(idx, j).en = j.en
        BY DEF Whole
    <2>3. i.sat = j.sat /\ i.st = j.st /\ i.en = j.en => i = j
        BY <2>1 DEF Interval
    <2> HIDE DEF L, G, local
    <2>4. Whole(idx, i) = Whole(idx, j) => i = j
        BY <1>7, <2>1, <2>2, <2>3
    <2>5. Before(Whole(idx, i), Whole(idx, j)) <=> Before(i, j)
        BY <1>7, <2>1, <2>2 DEF Before
    <2> QED
        BY <2>4, <2>5
<1> QED
    BY <1>3, <1>4, <1>5, <1>6, <1>8

\* Before orders the intervals of a cell.
LEMMA BeforeOrders ==
    ASSUME NEW ivs \in SUBSET Interval
    PROVE  Orders({p \in ivs \X ivs : Before(p[1], p[2])}, ivs)
<1> DEFINE R == {p \in ivs \X ivs : Before(p[1], p[2])}
<1> USE IntervalsAssumption
<1>1. \A i \in ivs : i \in Interval /\ i.sat \in Int /\ i.st \in Int /\ i.en \in Int
    BY DEF Interval, Sats, Times
<1>2. \A i, j \in ivs : <<i, j>> \in R <=> Before(i, j)
    OBVIOUS
<1>3. \A i, j \in ivs : Before(i, j) => ~Before(j, i)
    BY <1>1 DEF Before
<1>4. \A i, j, k \in ivs : Before(i, j) /\ Before(j, k) => Before(i, k)
    BY <1>1 DEF Before
<1>5. \A i, j \in ivs : i # j => Before(i, j) \/ Before(j, i)
    <2> SUFFICES ASSUME NEW i \in ivs, NEW j \in ivs, ~Before(i, j), ~Before(j, i)
                 PROVE  i = j
        OBVIOUS
    <2>1. i.sat = j.sat /\ i.st = j.st /\ i.en = j.en
        BY <1>1 DEF Before
    <2> QED
        BY <1>1, <2>1 DEF Interval
<1> HIDE DEF R
<1> QED
    BY <1>2, <1>3, <1>4, <1>5 DEF Orders

\* The sorted list: position n has n - 1 intervals before it, and no other has.
LEMMA InOrderOf ==
    ASSUME NEW ivs \in SUBSET Interval, NEW n \in 1 .. Cardinality(ivs)
    PROVE  /\ InOrder(ivs)[n] \in ivs
           /\ Cardinality({j \in ivs : Before(j, InOrder(ivs)[n])}) = n - 1
           /\ \A i \in ivs : Cardinality({j \in ivs : Before(j, i)}) = n - 1 => i = InOrder(ivs)[n]
<1> DEFINE R == {p \in ivs \X ivs : Before(p[1], p[2])}
           Count(i) == Cardinality({j \in ivs : Before(j, i)})
<1>1. IsFiniteSet(ivs) /\ Cardinality(ivs) \in Nat
    BY FiniteIntervals
<1>2. \A i \in ivs : Place(R, ivs, i) = Count(i)
    <2>1. \A i \in ivs : {j \in ivs : <<j, i>> \in R} = {j \in ivs : Before(j, i)}
        OBVIOUS
    <2> QED
        BY <2>1 DEF Place
<1>3. \E i \in ivs : Place(R, ivs, i) = n - 1 /\ \A k \in ivs : Place(R, ivs, k) = n - 1 => k = i
    <2>1. n - 1 \in 0 .. Cardinality(ivs) - 1
        BY <1>1
    <2>2. Orders(R, ivs)
        BY BeforeOrders
    <2> HIDE DEF R
    <2>3. HasPlace(R, ivs, n - 1)
        BY <1>1, <2>1, <2>2, Ranked
    <2> QED
        BY <2>3 DEF HasPlace
<1>4. InOrder(ivs)[n] = CHOOSE i \in ivs : Count(i) = n - 1
    BY DEF InOrder
<1> HIDE DEF R, Count
<1>5. /\ InOrder(ivs)[n] \in ivs /\ Count(InOrder(ivs)[n]) = n - 1
      /\ \A i \in ivs : Count(i) = n - 1 => i = InOrder(ivs)[n]
    BY <1>2, <1>3, <1>4
<1> QED
    BY <1>5 DEF Count

\* The local intervals are sorted as the whole ones.
LEMMA WholeInOrder ==
    ASSUME NEW idx, NEW m, NEW view \in [Sats -> SUBSET Times], Numbers(idx, m, view)
    PROVE  LET L == intervals_from_inview(LocalView(idx, view))
               G == intervals_from_inview(view)
           IN  /\ Cardinality(G) = Cardinality(L)
               /\ \A n \in 1 .. Cardinality(L) : InOrder(G)[n] = Whole(idx, InOrder(L)[n])
<1> DEFINE L == intervals_from_inview(LocalView(idx, view))
           G == intervals_from_inview(view)
           whole == [i \in L |-> Whole(idx, i)]
<1>1. /\ L \in SUBSET Interval /\ G \in SUBSET Interval
      /\ \A i \in L : Whole(idx, i) \in G
      /\ \A g \in G : \E i \in L : Whole(idx, i) = g
      /\ \A i, j \in L : Whole(idx, i) = Whole(idx, j) => i = j
      /\ \A i, j \in L : Before(Whole(idx, i), Whole(idx, j)) <=> Before(i, j)
    BY WholeIntervals
<1> HIDE DEF L, G
<1>2. IsFiniteSet(L) /\ IsFiniteSet(G)
    BY <1>1, FiniteIntervals
<1>3. Cardinality(G) = Cardinality(L)
    <2>1. /\ whole \in [L -> G] /\ \A i, j \in L : whole[i] = whole[j] => i = j
          /\ \A g \in G : \E i \in L : whole[i] = g
        BY <1>1
    <2> HIDE DEF whole
    <2> QED
        BY <1>2, <2>1, SameCount
<1>4. ASSUME NEW i \in L
      PROVE  Cardinality({g \in G : Before(g, Whole(idx, i))}) = Cardinality({j \in L : Before(j, i)})
    <2> DEFINE LocalEarlier == {j \in L : Before(j, i)}
               Earlier == {g \in G : Before(g, Whole(idx, i))}
               f == [j \in LocalEarlier |-> Whole(idx, j)]
    <2>1. f \in [LocalEarlier -> Earlier]
        BY <1>1
    <2>2. \A j, k \in LocalEarlier : f[j] = f[k] => j = k
        BY <1>1
    <2>3. \A g \in Earlier : \E j \in LocalEarlier : f[j] = g
        BY <1>1
    <2>4. IsFiniteSet(LocalEarlier)
        BY <1>2, FS_Subset
    <2> HIDE DEF LocalEarlier, Earlier, f
    <2>5. Cardinality(Earlier) = Cardinality(LocalEarlier)
        BY <2>1, <2>2, <2>3, <2>4, SameCount
    <2> QED
        BY <2>5 DEF LocalEarlier, Earlier
<1>5. ASSUME NEW n \in 1 .. Cardinality(L)
      PROVE  InOrder(G)[n] = Whole(idx, InOrder(L)[n])
    <2>1. InOrder(L)[n] \in L /\ Cardinality({j \in L : Before(j, InOrder(L)[n])}) = n - 1
        BY <1>1, InOrderOf
    <2>2. /\ Whole(idx, InOrder(L)[n]) \in G
          /\ Cardinality({g \in G : Before(g, Whole(idx, InOrder(L)[n]))}) = n - 1
        BY <1>1, <1>4, <2>1
    <2>3. n \in 1 .. Cardinality(G)
        BY <1>3
    <2>4. \A i \in G : Cardinality({g \in G : Before(g, i)}) = n - 1 => i = InOrder(G)[n]
        BY <1>1, <2>3, InOrderOf
    <2> QED
        BY <2>2, <2>4
<1> QED
    BY <1>3, <1>5 DEF L, G

-----------------------------------------------------------------------------
(***************************************************************************)
(* The relaxation.                                                         *)
(***************************************************************************)
\* A prefix of the relaxation exists for every length: none is the shortest that
\* does not.
LEMMA RelaxationSteps ==
    ASSUME NEW ivs, NEW plane_uid, NEW req, Cardinality(ivs) \in Nat
    PROVE  LET R == Relaxation(ivs, plane_uid, req)
           IN  /\ R[0] = Sources(ivs)
               /\ \A n \in 1 .. Cardinality(ivs) :
                     R[n] = RelaxFrom(R[n - 1], InOrder(ivs)[n], plane_uid, req)
<1> DEFINE Arrays(f, n) == IF n = 0 THEN Sources(ivs)
                           ELSE RelaxFrom(f[n - 1], InOrder(ivs)[n], plane_uid, req)
           Missing == {n \in Nat : ~\E f : f = [k \in 0 .. n |-> Arrays(f, k)]}
           R == Relaxation(ivs, plane_uid, req)
<1>1. Missing = {}
    <2> SUFFICES ASSUME Missing # {}
                 PROVE  FALSE
        OBVIOUS
    <2>1. Missing \in SUBSET Nat
        OBVIOUS
    <2>2. PICK n \in Missing : \A k \in Missing : n <= k
        <3> HIDE DEF Missing
        <3> QED BY <2>1, LeastElement
    <2>3. CASE n = 0
        <3> DEFINE f == [k \in 0 .. 0 |-> Sources(ivs)]
        <3>1. f = [k \in 0 .. n |-> Arrays(f, k)]
            BY <2>3
        <3> QED
            BY <3>1
    <2>4. CASE n # 0
        <3>1. n \in Nat /\ n - 1 \in Nat /\ n - 1 \notin Missing
            <4>1. n \in Nat
                OBVIOUS
            <4> HIDE DEF Missing
            <4> QED BY <2>2, <2>4, <4>1
        <3>2. PICK f : f = [k \in 0 .. n - 1 |-> Arrays(f, k)]
            BY <3>1
        <3> DEFINE g == [k \in 0 .. n |-> IF k = n THEN RelaxFrom(f[n - 1], InOrder(ivs)[n], plane_uid, req)
                                          ELSE f[k]]
        <3>3. \A k \in 0 .. n - 1 : g[k] = f[k]
            BY <3>1
        <3>4. \A k \in 0 .. n : g[k] = Arrays(g, k)
            <4> TAKE k \in 0 .. n
            <4>1. CASE k = n
                <5>1. g[n - 1] = f[n - 1]
                    BY <3>1, <3>3
                <5>2. g[k] = RelaxFrom(f[n - 1], InOrder(ivs)[n], plane_uid, req)
                    BY <3>1, <4>1
                <5> HIDE DEF g
                <5> QED
                    BY <2>4, <4>1, <5>1, <5>2
            <4>2. CASE k # n
                <5>1. k \in 0 .. n - 1 /\ (k # 0 => k - 1 \in 0 .. n - 1)
                    BY <3>1, <4>2
                <5>2. g[k] = Arrays(f, k)
                    BY <3>2, <3>3, <5>1
                <5>3. k # 0 => g[k - 1] = f[k - 1]
                    BY <3>3, <5>1
                <5> HIDE DEF g
                <5> QED
                    BY <5>2, <5>3
            <4> QED
                BY <4>1, <4>2
        <3>5. g = [k \in 0 .. n |-> g[k]]
            OBVIOUS
        <3>6. g = [k \in 0 .. n |-> Arrays(g, k)]
            <4> HIDE DEF g, Arrays
            <4> QED BY <3>4, <3>5
        <3> QED
            BY <2>2, <3>6
    <2> QED
        BY <2>3, <2>4
<1>2. R = [k \in 0 .. Cardinality(ivs) |-> Arrays(R, k)]
    <2>1. R = CHOOSE f : f = [k \in 0 .. Cardinality(ivs) |-> Arrays(f, k)]
        BY DEF Relaxation
    <2>2. \E f : f = [k \in 0 .. Cardinality(ivs) |-> Arrays(f, k)]
        BY <1>1
    <2> HIDE DEF R, Arrays
    <2> QED
        BY <2>1, <2>2
<1> HIDE DEF R
<1>3. R[0] = Sources(ivs) /\ \A n \in 1 .. Cardinality(ivs) :
            R[n] = RelaxFrom(R[n - 1], InOrder(ivs)[n], plane_uid, req)
    BY <1>2
<1> QED
    BY <1>3 DEF R

\* What the test of the inner loop asks of the arrays and two intervals.
Better(acc, i, j, plane_uid, req) ==
    /\ acc.best[i] # NoPath
    /\ Before(i, j)
    /\ MayHandOver(i, j, plane_uid, req)
    /\ acc.best[j] = NoPath \/ Least(acc.best[i], Overlap(i, j)) > acc.best[j]

Arrays(acc, ivs) == acc.best \in [ivs -> Int] /\ acc.hops \in [ivs -> Int]

\* One iteration, entry by entry.
LEMMA RelaxFromEntries ==
    ASSUME NEW ivs \in SUBSET Interval, NEW acc, Arrays(acc, ivs), NEW i \in ivs,
           NEW plane_uid, NEW req
    PROVE  LET new == RelaxFrom(acc, i, plane_uid, req)
           IN  /\ Arrays(new, ivs)
               /\ \A j \in ivs :
                     /\ new.best[j] = IF Better(acc, i, j, plane_uid, req)
                                      THEN Least(acc.best[i], Overlap(i, j)) ELSE acc.best[j]
                     /\ new.hops[j] = IF Better(acc, i, j, plane_uid, req)
                                      THEN acc.hops[i] + 1 ELSE acc.hops[j]
<1> DEFINE new == RelaxFrom(acc, i, plane_uid, req)
<1>1. /\ new.best = [j \in ivs |-> IF Better(acc, i, j, plane_uid, req)
                                   THEN Least(acc.best[i], Overlap(i, j)) ELSE acc.best[j]]
      /\ new.hops = [j \in ivs |-> IF Better(acc, i, j, plane_uid, req)
                                   THEN acc.hops[i] + 1 ELSE acc.hops[j]]
    BY DEF RelaxFrom, Better, Arrays
<1>2. \A j \in ivs : Least(acc.best[i], Overlap(i, j)) \in Int
    <2>1. \A j \in ivs : j.st \in Int /\ j.en \in Int
        BY IntervalsAssumption DEF Interval, Times
    <2> QED
        BY <2>1 DEF Arrays, Overlap, Least, Most
<1>3. \A j \in ivs : acc.best[j] \in Int /\ acc.hops[j] \in Int /\ acc.hops[i] + 1 \in Int
    BY DEF Arrays
<1> HIDE DEF new
<1>4. Arrays(new, ivs)
    BY <1>1, <1>2, <1>3 DEF Arrays
<1> QED
    BY <1>1, <1>4 DEF new

\* The arrays have an entry for each interval.
LEMMA RelaxationType ==
    ASSUME NEW ivs \in SUBSET Interval, NEW plane_uid, NEW req
    PROVE  \A n \in 0 .. Cardinality(ivs) : Arrays(Relaxation(ivs, plane_uid, req)[n], ivs)
<1> DEFINE R == Relaxation(ivs, plane_uid, req)
           Bad == {n \in 0 .. Cardinality(ivs) : ~Arrays(R[n], ivs)}
<1>1. IsFiniteSet(ivs) /\ Cardinality(ivs) \in Nat
    BY FiniteIntervals
<1>2. /\ R[0] = Sources(ivs)
      /\ \A n \in 1 .. Cardinality(ivs) : R[n] = RelaxFrom(R[n - 1], InOrder(ivs)[n], plane_uid, req)
    BY <1>1, RelaxationSteps
<1> SUFFICES \A n \in 0 .. Cardinality(ivs) : Arrays(R[n], ivs)
    OBVIOUS
<1> HIDE DEF R
<1> SUFFICES ASSUME Bad # {}
             PROVE  FALSE
    OBVIOUS
<1>3. PICK n \in Bad : \A k \in Bad : n <= k
    <2>1. Bad \in SUBSET Nat
        BY <1>1
    <2> HIDE DEF Bad
    <2> QED
        BY <2>1, LeastElement
<1>4. n \in 0 .. Cardinality(ivs) /\ ~Arrays(R[n], ivs)
    OBVIOUS
<1>5. CASE n = 0
    <2>1. Arrays(Sources(ivs), ivs)
        BY IntervalsAssumption DEF Arrays, Sources, INF, NoPath
    <2> QED
        BY <1>2, <1>4, <1>5, <2>1
<1>6. CASE n # 0
    <2>1. n \in 1 .. Cardinality(ivs) /\ n - 1 \in 0 .. Cardinality(ivs) /\ n - 1 \notin Bad
        <3> HIDE DEF Bad
        <3> QED BY <1>1, <1>3, <1>4, <1>6
    <2>2. Arrays(R[n - 1], ivs)
        BY <2>1
    <2>3. InOrder(ivs)[n] \in ivs
        BY <2>1, InOrderOf
    <2>4. Arrays(RelaxFrom(R[n - 1], InOrder(ivs)[n], plane_uid, req), ivs)
        BY <2>2, <2>3, RelaxFromEntries
    <2> QED
        BY <1>2, <1>4, <2>1, <2>4
<1> QED
    BY <1>5, <1>6

\* The arrays of the local intervals are those of the whole ones.
LEMMA WholeRelaxation ==
    ASSUME NEW idx, NEW m, NEW view \in [Sats -> SUBSET Times], Numbers(idx, m, view),
           PlaneUid \in [Sats -> Int], NEW req
    PROVE  LET L == intervals_from_inview(LocalView(idx, view))
               G == intervals_from_inview(view)
               RL == Relaxation(L, LocalPlanes(idx), req)
               RG == Relaxation(G, PlaneUid, req)
           IN  \A n \in 0 .. Cardinality(L) : \A i \in L :
                  /\ RL[n].best[i] = RG[n].best[Whole(idx, i)]
                  /\ RL[n].hops[i] = RG[n].hops[Whole(idx, i)]
<1> DEFINE L == intervals_from_inview(LocalView(idx, view))
           G == intervals_from_inview(view)
           RL == Relaxation(L, LocalPlanes(idx), req)
           RG == Relaxation(G, PlaneUid, req)
           Same(n) == \A i \in L : /\ RL[n].best[i] = RG[n].best[Whole(idx, i)]
                                   /\ RL[n].hops[i] = RG[n].hops[Whole(idx, i)]
           Bad == {n \in 0 .. Cardinality(L) : ~Same(n)}
<1>1. /\ L \in SUBSET Interval /\ G \in SUBSET Interval
      /\ \A i \in L : i.sat \in 0 .. m - 1 /\ Whole(idx, i) \in G
      /\ \A i, j \in L : Before(Whole(idx, i), Whole(idx, j)) <=> Before(i, j)
    BY WholeIntervals
<1>2. /\ Cardinality(G) = Cardinality(L)
      /\ \A n \in 1 .. Cardinality(L) : InOrder(G)[n] = Whole(idx, InOrder(L)[n])
    BY WholeInOrder
<1>3. /\ DOMAIN idx = 0 .. m - 1
      /\ \A k, l \in 0 .. m - 1 : idx[k] = idx[l] => k = l
    <2>1. /\ m \in Nat /\ idx \in [0 .. m - 1 -> Sats]
          /\ \A k, l \in 0 .. m - 1 : k < l => idx[k] < idx[l]
        BY IntervalsAssumption DEF Numbers
    <2>2. \A k, l \in 0 .. m - 1 : k # l => k < l \/ l < k
        BY <2>1
    <2>3. \A l \in 0 .. m - 1 : idx[l] \in Int
        BY <2>1 DEF Sats
    <2> QED
        BY <2>1, <2>2, <2>3
<1> HIDE DEF L, G
<1>4. Cardinality(L) \in Nat
    BY <1>1, FiniteIntervals
<1>5. /\ RL[0] = Sources(L) /\ RG[0] = Sources(G)
      /\ \A n \in 1 .. Cardinality(L) :
            /\ RL[n] = RelaxFrom(RL[n - 1], InOrder(L)[n], LocalPlanes(idx), req)
            /\ RG[n] = RelaxFrom(RG[n - 1], InOrder(G)[n], PlaneUid, req)
    BY <1>2, <1>4, RelaxationSteps
<1>6. \A n \in 0 .. Cardinality(L) : Arrays(RL[n], L) /\ Arrays(RG[n], G)
    BY <1>1, <1>2, RelaxationType
<1> HIDE DEF RL, RG
<1>7. ASSUME NEW i \in L
      PROVE  /\ Whole(idx, i) \in G /\ Whole(idx, i).sat = idx[i.sat]
             /\ Whole(idx, i).st = i.st /\ Whole(idx, i).en = i.en
             /\ LocalPlanes(idx)[i.sat] = PlaneUid[idx[i.sat]]
    BY <1>1, <1>3 DEF Whole, LocalPlanes
<1>8. ASSUME NEW i \in L, NEW j \in L
      PROVE  /\ Overlap(Whole(idx, i), Whole(idx, j)) = Overlap(i, j)
             /\ MayHandOver(Whole(idx, i), Whole(idx, j), PlaneUid, req)
                   <=> MayHandOver(i, j, LocalPlanes(idx), req)
    <2>1. Overlap(Whole(idx, i), Whole(idx, j)) = Overlap(i, j)
        BY <1>7 DEF Overlap
    <2>2. i.sat # j.sat <=> idx[i.sat] # idx[j.sat]
        BY <1>1, <1>3
    <2> QED
        BY <1>7, <2>1, <2>2 DEF MayHandOver
<1>9. Same(0)
    <2>1. \A i \in L : /\ Sources(L).best[i] = Sources(G).best[Whole(idx, i)]
                       /\ Sources(L).hops[i] = Sources(G).hops[Whole(idx, i)]
        BY <1>7 DEF Sources
    <2> QED
        BY <1>5, <2>1
<1>10. ASSUME NEW n \in 1 .. Cardinality(L), Same(n - 1)
       PROVE  Same(n)
    <2> DEFINE i == InOrder(L)[n]
    <2>1. i \in L /\ InOrder(G)[n] = Whole(idx, i) /\ Whole(idx, i) \in G
        BY <1>1, <1>2, InOrderOf
    <2>2. Arrays(RL[n - 1], L) /\ Arrays(RG[n - 1], G)
        <3>1. n - 1 \in 0 .. Cardinality(L)
            BY <1>4
        <3> QED BY <1>6, <3>1
    <2>3. /\ RL[n] = RelaxFrom(RL[n - 1], i, LocalPlanes(idx), req)
          /\ RG[n] = RelaxFrom(RG[n - 1], Whole(idx, i), PlaneUid, req)
        BY <1>5, <2>1
    <2> HIDE DEF i
    <2> SUFFICES ASSUME NEW j \in L
                 PROVE  /\ RL[n].best[j] = RG[n].best[Whole(idx, j)]
                        /\ RL[n].hops[j] = RG[n].hops[Whole(idx, j)]
        OBVIOUS
    <2> DEFINE w == Whole(idx, i)
               v == Whole(idx, j)
               bl == Better(RL[n - 1], i, j, LocalPlanes(idx), req)
               bg == Better(RG[n - 1], w, v, PlaneUid, req)
    <2>4. w \in G /\ v \in G /\ Overlap(w, v) = Overlap(i, j)
        BY <1>7, <1>8, <2>1
    <2>5. /\ RL[n].best[j] = IF bl THEN Least(RL[n - 1].best[i], Overlap(i, j)) ELSE RL[n - 1].best[j]
          /\ RL[n].hops[j] = IF bl THEN RL[n - 1].hops[i] + 1 ELSE RL[n - 1].hops[j]
        <3>1. L \in SUBSET Interval
            BY <1>1
        <3> DEFINE a == RL[n - 1]
                   p == LocalPlanes(idx)
        <3>2. Arrays(a, L) /\ RL[n] = RelaxFrom(a, i, p, req)
            BY <2>2, <2>3
        <3> HIDE DEF a, p
        <3>3. /\ RL[n].best[j] = IF Better(a, i, j, p, req) THEN Least(a.best[i], Overlap(i, j)) ELSE a.best[j]
              /\ RL[n].hops[j] = IF Better(a, i, j, p, req) THEN a.hops[i] + 1 ELSE a.hops[j]
            <4>1. i \in L
                BY <2>1
            <4>2. \A k \in L :
                    /\ RelaxFrom(a, i, p, req).best[k]
                          = IF Better(a, i, k, p, req) THEN Least(a.best[i], Overlap(i, k)) ELSE a.best[k]
                    /\ RelaxFrom(a, i, p, req).hops[k]
                          = IF Better(a, i, k, p, req) THEN a.hops[i] + 1 ELSE a.hops[k]
                BY ONLY <3>1, <3>2, <4>1, RelaxFromEntries
            <4> QED
                BY <3>2, <4>2
        <3> QED
            BY <3>3 DEF a, p
    <2>6. /\ RG[n].best[v] = IF bg THEN Least(RG[n - 1].best[w], Overlap(w, v)) ELSE RG[n - 1].best[v]
          /\ RG[n].hops[v] = IF bg THEN RG[n - 1].hops[w] + 1 ELSE RG[n - 1].hops[v]
        BY <1>1, <2>2, <2>3, <2>4, RelaxFromEntries
    <2>7. /\ RL[n - 1].best[i] = RG[n - 1].best[w] /\ RL[n - 1].best[j] = RG[n - 1].best[v]
          /\ RL[n - 1].hops[i] = RG[n - 1].hops[w] /\ RL[n - 1].hops[j] = RG[n - 1].hops[v]
        BY <1>10, <2>1
    <2>8. bl <=> bg
        BY <1>1, <1>8, <2>1, <2>4, <2>7 DEF Better
    <2> HIDE DEF w, v, bl, bg
    <2>9. /\ RL[n].best[j] = RG[n].best[v]
          /\ RL[n].hops[j] = RG[n].hops[v]
        BY <2>4, <2>5, <2>6, <2>7, <2>8
    <2> QED
        BY <2>9 DEF v
<1>11. Bad = {}
    <2> SUFFICES ASSUME Bad # {}
                 PROVE  FALSE
        OBVIOUS
    <2> HIDE DEF Same
    <2>1. PICK n \in Bad : \A k \in Bad : n <= k
        <3>1. Bad \in SUBSET Nat
            BY <1>4
        <3> HIDE DEF Bad
        <3> QED BY <3>1, LeastElement
    <2>2. n \in 0 .. Cardinality(L) /\ ~Same(n)
        OBVIOUS
    <2>3. n \in 1 .. Cardinality(L) /\ n - 1 \in 0 .. Cardinality(L) /\ n - 1 \notin Bad
        <3>1. n # 0
            BY <1>9, <2>2
        <3> HIDE DEF Bad
        <3> QED BY <1>4, <2>1, <2>2, <3>1
    <2>4. Same(n - 1)
        BY <2>3
    <2> QED
        BY <1>10, <2>2, <2>3, <2>4
<1>12. \A n \in 0 .. Cardinality(L) : Same(n)
    <2> HIDE DEF Same
    <2> QED BY <1>11
<1> QED
    BY <1>12 DEF L, G, RL, RG

Beats(best, g, h) == best[g] > best[h] \/ (best[g] = best[h] /\ Before(g, h))

\* There is one best goal.
LEMMA BestGoalOf ==
    ASSUME NEW goals \in SUBSET Interval, goals # {}, NEW best, \A g \in goals : best[g] \in Int
    PROVE  /\ BestGoal(goals, best) \in goals
           /\ \A h \in goals \ {BestGoal(goals, best)} : Beats(best, BestGoal(goals, best), h)
           /\ \A g \in goals : (\A h \in goals \ {g} : Beats(best, g, h)) => g = BestGoal(goals, best)
<1> DEFINE R == {p \in goals \X goals : Beats(best, p[1], p[2])}
           B == {p \in goals \X goals : Before(p[1], p[2])}
<1>1. IsFiniteSet(goals) /\ Cardinality(goals) \in Nat
    BY FiniteIntervals
<1>2. \A g, h \in goals : <<g, h>> \in R <=> Beats(best, g, h)
    OBVIOUS
<1>3. Orders(B, goals)
    BY BeforeOrders
<1>4. \A g, h \in goals : <<g, h>> \in B <=> Before(g, h)
    OBVIOUS
<1> HIDE DEF R, B
<1>5. Orders(R, goals)
    <2>0. /\ \A g, h \in goals : Before(g, h) => ~Before(h, g)
          /\ \A g, h, k \in goals : Before(g, h) /\ Before(h, k) => Before(g, k)
          /\ \A g, h \in goals : g # h => Before(g, h) \/ Before(h, g)
        BY <1>3, <1>4 DEF Orders
    <2>1. \A g, h \in goals : Beats(best, g, h) => ~Beats(best, h, g)
        BY <2>0 DEF Beats
    <2>2. \A g, h, k \in goals : Beats(best, g, h) /\ Beats(best, h, k) => Beats(best, g, k)
        BY <2>0 DEF Beats
    <2>3. \A g, h \in goals : g # h => Beats(best, g, h) \/ Beats(best, h, g)
        BY <2>0 DEF Beats
    <2> QED
        BY <1>2, <2>1, <2>2, <2>3 DEF Orders
<1>6. PICK x \in goals : Place(R, goals, x) = 0
    <2>1. Cardinality(goals) # 0
        BY <1>1, FS_EmptySet
    <2>2. 0 \in 0 .. Cardinality(goals) - 1
        BY <1>1, <2>1
    <2>3. HasPlace(R, goals, 0)
        BY <1>1, <1>5, <2>2, Ranked
    <2> QED
        BY <2>3 DEF HasPlace
<1>7. \A h \in goals \ {x} : Beats(best, x, h)
    <2>1. {y \in goals : <<y, x>> \in R} = {}
        <3>1. IsFiniteSet({y \in goals : <<y, x>> \in R})
            BY <1>1, FS_Subset
        <3> QED
            BY <1>6, <3>1, FS_EmptySet DEF Place
    <2> QED
        BY <1>2, <1>5, <2>1 DEF Orders
<1>8. \A g \in goals : (\A h \in goals \ {g} : Beats(best, g, h)) => g = x
    <2> SUFFICES ASSUME NEW g \in goals, \A h \in goals \ {g} : Beats(best, g, h), g # x
                 PROVE  FALSE
        OBVIOUS
    <2>1. Beats(best, g, x) /\ Beats(best, x, g)
        BY <1>7
    <2> QED
        BY <1>2, <1>5, <2>1 DEF Orders
<1>9. BestGoal(goals, best) = CHOOSE g \in goals : \A h \in goals \ {g} : Beats(best, g, h)
    BY DEF BestGoal, Beats
<1> QED
    BY <1>7, <1>8, <1>9

\* A cell has the verdict it has with the satellites its shard keeps.
LEMMA WholeVerdict ==
    ASSUME NEW idx, NEW m, NEW view \in [Sats -> SUBSET Times], Numbers(idx, m, view),
           PlaneUid \in [Sats -> Int], NEW req
    PROVE  mbb_continuity_cell_req(LocalView(idx, view), LocalPlanes(idx), req)
              = mbb_continuity_cell_req(view, PlaneUid, req)
<1> DEFINE L == intervals_from_inview(LocalView(idx, view))
           G == intervals_from_inview(view)
           last == Cardinality(L)
           RL == Relaxation(L, LocalPlanes(idx), req)[last]
           RG == Relaxation(G, PlaneUid, req)[last]
           IsGoal(R, i) == R.best[i] # NoPath /\ i.en >= NTime - 1
           GL == {i \in L : IsGoal(RL, i)}
           GG == {i \in G : IsGoal(RG, i)}
           bl == BestGoal(GL, RL.best)
           bg == BestGoal(GG, RG.best)
<1>1. /\ L \in SUBSET Interval /\ G \in SUBSET Interval
      /\ \A i \in L : Whole(idx, i) \in G
      /\ \A g \in G : \E i \in L : Whole(idx, i) = g
      /\ \A i, j \in L : Whole(idx, i) = Whole(idx, j) => i = j
      /\ \A i, j \in L : Before(Whole(idx, i), Whole(idx, j)) <=> Before(i, j)
    BY WholeIntervals
<1>2. Cardinality(G) = last /\ last \in Nat
    BY <1>1, WholeInOrder, FiniteIntervals
<1>3. mbb_continuity_cell_req(LocalView(idx, view), LocalPlanes(idx), req)
        = IF L = {} THEN InfeasibleVerdict(NTime)
          ELSE IF GL = {} THEN InfeasibleVerdict(merged_worst_gap_steps(L))
          ELSE FeasibleVerdict(RL.best[bl], RL.hops[bl])
    BY DEF mbb_continuity_cell_req
<1>4. mbb_continuity_cell_req(view, PlaneUid, req)
        = IF G = {} THEN InfeasibleVerdict(NTime)
          ELSE IF GG = {} THEN InfeasibleVerdict(merged_worst_gap_steps(G))
          ELSE FeasibleVerdict(RG.best[bg], RG.hops[bg])
    BY <1>2 DEF mbb_continuity_cell_req
<1>5. \A i \in L : RL.best[i] = RG.best[Whole(idx, i)] /\ RL.hops[i] = RG.hops[Whole(idx, i)]
    <2>1. last \in 0 .. last
        BY <1>2
    <2> QED
        BY <2>1, WholeRelaxation
<1>6. Arrays(RL, L) /\ Arrays(RG, G)
    <2>1. last \in 0 .. Cardinality(L) /\ last \in 0 .. Cardinality(G)
        BY <1>2
    <2> HIDE DEF L, G, last
    <2> QED
        BY <1>1, <2>1, RelaxationType
<1> HIDE DEF L, G, RL, RG, last
<1>7. \A i \in L : Whole(idx, i).st = i.st /\ Whole(idx, i).en = i.en
    BY DEF Whole
<1>8. L = {} <=> G = {}
    BY <1>1
<1>9. merged_worst_gap_steps(L) = merged_worst_gap_steps(G)
    <2>1. Covered(L) = Covered(G)
        BY <1>1, <1>7 DEF Covered
    <2> QED
        BY <2>1 DEF merged_worst_gap_steps, GapLengths
<1>10. \A i \in L : i \in GL <=> Whole(idx, i) \in GG
    BY <1>1, <1>5, <1>7
<1>11. GL = {} <=> GG = {}
    <2>1. \A g \in GG : \E i \in L : Whole(idx, i) = g
        BY <1>1
    <2>2. GL \subseteq L
        OBVIOUS
    <2> HIDE DEF GL, GG
    <2> QED
        BY <1>10, <2>1, <2>2
<1>12. GL # {} => /\ bl \in L /\ bg = Whole(idx, bl)
    <2> SUFFICES ASSUME GL # {}
                 PROVE  bl \in L /\ bg = Whole(idx, bl)
        OBVIOUS
    <2>1. GL \in SUBSET L /\ GG \in SUBSET G /\ GG # {}
        BY <1>11
    <2>2. (\A g \in GL : RL.best[g] \in Int) /\ (\A g \in GG : RG.best[g] \in Int)
        BY <1>6, <2>1 DEF Arrays
    <2> HIDE DEF GL, GG
    <2>3. bl \in GL /\ \A h \in GL \ {bl} : Beats(RL.best, bl, h)
        BY <1>1, <2>1, <2>2, BestGoalOf
    <2>4. \A g \in GG : (\A h \in GG \ {g} : Beats(RG.best, g, h)) => g = bg
        BY <1>1, <2>1, <2>2, BestGoalOf
    <2> HIDE DEF bl, bg
    <2>5. Whole(idx, bl) \in GG
        BY <1>10, <2>1, <2>3
    <2>6. ASSUME NEW g \in GG \ {Whole(idx, bl)}
          PROVE  Beats(RG.best, Whole(idx, bl), g)
        <3>1. PICK h \in L : Whole(idx, h) = g
            BY <1>1, <2>1
        <3>2. h \in GL /\ h # bl
            BY <1>10, <3>1
        <3>3. Beats(RL.best, bl, h)
            BY <2>3, <3>2
        <3> QED
            BY <1>1, <1>5, <2>1, <2>3, <3>1, <3>2, <3>3 DEF Beats
    <2> QED
        BY <2>1, <2>3, <2>4, <2>5, <2>6
<1>13. GL # {} => RL.best[bl] = RG.best[bg] /\ RL.hops[bl] = RG.hops[bg]
    BY <1>5, <1>12
<1> HIDE DEF GL, GG, bl, bg
<1> QED
    BY <1>3, <1>4, <1>8, <1>9, <1>11, <1>13

-----------------------------------------------------------------------------
(***************************************************************************)
(* What a task has computed of the samples before b is what the whole      *)
(* constellation shows of them.                                            *)
(***************************************************************************)
LEMMA KeptNumbers ==
    ASSUME NEW kept \in SUBSET Sats, NEW view \in [Sats -> SUBSET Times],
           \A s \in Sats : view[s] # {} => s \in kept
    PROVE  Numbers(SatIdx(kept), Cardinality(kept), view)
<1>1. IsFiniteSet(Sats) /\ Cardinality(Sats) = NSat
    BY IntervalsAssumption, FS_Interval DEF Sats
<1>2. IsFiniteSet(kept) /\ Cardinality(kept) \in 0 .. NSat
    <2>1. IsFiniteSet(kept) /\ Cardinality(kept) <= NSat
        BY <1>1, FS_Subset
    <2>2. Cardinality(kept) \in Nat
        BY <2>1, FS_CardinalityType
    <2> QED
        BY IntervalsAssumption, <2>1, <2>2
<1>3. kept \in SUBSET Nat
    BY DEF Sats
<1>4. /\ SatIdx(kept) \in [0 .. Cardinality(kept) - 1 -> kept]
      /\ \A k, l \in 0 .. Cardinality(kept) - 1 : k < l => SatIdx(kept)[k] < SatIdx(kept)[l]
      /\ \A s \in kept : \E l \in 0 .. Cardinality(kept) - 1 : SatIdx(kept)[l] = s
    BY <1>2, <1>3, SatIdxOf
<1> QED
    BY <1>2, <1>4 DEF Numbers

\* What view shows of the samples of T through the satellites idx numbers.
Cut(idx, view, T) == [l \in DOMAIN idx |-> view[idx[l]] \cap T]

\* A chunk counted over the kept satellites.
LEMMA ChunkCounts ==
    ASSUME NEW idx, NEW m, NEW view \in [Sats -> SUBSET Times], Numbers(idx, m, view),
           NEW span, IsFiniteSet(span)
    PROVE  /\ \A t \in span : NInView(Cut(idx, view, span), t) = NInView(view, t)
           /\ Cardinality(PairsInView(Cut(idx, view, span), span)) = Cardinality(PairsInView(view, span))
<1> DEFINE new == Cut(idx, view, span)
<1>1. /\ m \in Nat /\ idx \in [0 .. m - 1 -> Sats]
      /\ \A s \in Sats : view[s] # {} => \E l \in 0 .. m - 1 : idx[l] = s
    BY IntervalsAssumption DEF Numbers
<1>2. \A k, l \in 0 .. m - 1 : idx[k] = idx[l] => k = l
    <2>1. \A k, l \in 0 .. m - 1 : k < l => idx[k] < idx[l]
        BY DEF Numbers
    <2>2. \A k, l \in 0 .. m - 1 : k # l => k < l \/ l < k
        BY <1>1
    <2>3. \A l \in 0 .. m - 1 : idx[l] \in Int
        BY <1>1 DEF Sats
    <2> QED
        BY <2>1, <2>2, <2>3
<1>3. DOMAIN new = 0 .. m - 1 /\ \A l \in 0 .. m - 1 : new[l] = view[idx[l]] \cap span
    BY <1>1 DEF Cut
<1>4. IsFiniteSet(0 .. m - 1)
    <2>1. 0 \in Int /\ m - 1 \in Int
        BY <1>1
    <2> QED
        BY <2>1, FS_Interval
<1> HIDE DEF new
<1>5. ASSUME NEW t \in span
      PROVE  NInView(new, t) = NInView(view, t)
    <2> DEFINE Local == {l \in DOMAIN new : t \in new[l]}
               Global == {s \in DOMAIN view : t \in view[s]}
               f == [l \in Local |-> idx[l]]
    <2>1. f \in [Local -> Global]
        BY <1>1, <1>3
    <2>2. \A k, l \in Local : f[k] = f[l] => k = l
        BY <1>2, <1>3
    <2>3. \A s \in Global : \E l \in Local : f[l] = s
        BY <1>1, <1>3
    <2>4. IsFiniteSet(Local)
        BY <1>3, <1>4, FS_Subset
    <2> HIDE DEF f, Local, Global
    <2>5. Cardinality(Global) = Cardinality(Local)
        BY <2>1, <2>2, <2>3, <2>4, SameCount
    <2> QED
        BY <2>5 DEF NInView, Local, Global
<1>6. Cardinality(PairsInView(new, span)) = Cardinality(PairsInView(view, span))
    <2> DEFINE Local == PairsInView(new, span)
               Global == PairsInView(view, span)
               f == [p \in Local |-> <<idx[p[1]], p[2]>>]
    <2>1. f \in [Local -> Global]
        BY <1>1, <1>3 DEF PairsInView
    <2>2. \A p, q \in Local : f[p] = f[q] => p = q
        BY <1>2, <1>3 DEF PairsInView
    <2>3. \A p \in Global : \E q \in Local : f[q] = p
        <3> SUFFICES ASSUME NEW p \in Global
                     PROVE  \E q \in Local : f[q] = p
            OBVIOUS
        <3>1. p[1] \in Sats /\ p[2] \in span /\ p[2] \in view[p[1]] /\ p = <<p[1], p[2]>>
            BY DEF PairsInView
        <3>2. PICK l \in 0 .. m - 1 : idx[l] = p[1]
            BY <1>1, <3>1
        <3>3. <<l, p[2]>> \in Local
            BY <1>3, <3>1, <3>2 DEF PairsInView
        <3>4. f[<<l, p[2]>>] = p
            BY <3>1, <3>2, <3>3
        <3> QED
            BY <3>3, <3>4
    <2>4. IsFiniteSet(Local)
        <3>1. IsFiniteSet((0 .. m - 1) \X span)
            BY <1>4, FS_Product
        <3>2. Local \subseteq (0 .. m - 1) \X span
            BY <1>3 DEF PairsInView
        <3> QED
            BY <3>1, <3>2, FS_Subset
    <2> HIDE DEF f, Local, Global
    <2>5. Cardinality(Global) = Cardinality(Local)
        BY <2>1, <2>2, <2>3, <2>4, SameCount
    <2> QED
        BY <2>5 DEF Local, Global
<1> QED
    BY <1>5, <1>6 DEF new

\* Samples of two spans that meet are counted one after the other.
LEMMA CountsAdd ==
    ASSUME NEW view \in [Sats -> SUBSET Times], NEW a \in Nat, NEW b \in Nat, a <= b
    PROVE  /\ \A k \in Ks :
                 Cardinality({t \in 0 .. b - 1 : NInView(view, t) >= k})
                    = Cardinality({t \in 0 .. a - 1 : NInView(view, t) >= k})
                      + Cardinality({t \in a .. b - 1 : NInView(view, t) >= k})
           /\ Cardinality(PairsInView(view, 0 .. b - 1))
                 = Cardinality(PairsInView(view, 0 .. a - 1)) + Cardinality(PairsInView(view, a .. b - 1))
<1> DEFINE X == 0 .. a - 1
           Y == a .. b - 1
           Z == 0 .. b - 1
<1>1. IsFiniteSet(X) /\ IsFiniteSet(Y) /\ IsFiniteSet(Sats)
    <2>1. 0 \in Int /\ a - 1 \in Int /\ a \in Int /\ b - 1 \in Int /\ NSat - 1 \in Int
        BY IntervalsAssumption
    <2> QED
        BY <2>1, FS_Interval DEF Sats
<1>2. X \cup Y = Z /\ X \cap Y = {}
    OBVIOUS
<1> HIDE DEF X, Y, Z
<1>3. ASSUME NEW k \in Ks
      PROVE  Cardinality({t \in Z : NInView(view, t) >= k})
                = Cardinality({t \in X : NInView(view, t) >= k})
                  + Cardinality({t \in Y : NInView(view, t) >= k})
    <2> DEFINE S == {t \in X : NInView(view, t) >= k}
               T == {t \in Y : NInView(view, t) >= k}
               U == {t \in Z : NInView(view, t) >= k}
    <2>1. IsFiniteSet(S) /\ IsFiniteSet(T) /\ S \cap T = {} /\ S \cup T = U
        BY <1>1, <1>2, FS_Subset
    <2> HIDE DEF S, T, U
    <2>2. Cardinality(U) = Cardinality(S) + Cardinality(T)
        BY <2>1, DisjointCount
    <2> QED
        BY <2>2 DEF S, T, U
<1>4. Cardinality(PairsInView(view, Z)) = Cardinality(PairsInView(view, X)) + Cardinality(PairsInView(view, Y))
    <2> DEFINE S == PairsInView(view, X)
               T == PairsInView(view, Y)
               U == PairsInView(view, Z)
    <2>1. IsFiniteSet(Sats \X X) /\ IsFiniteSet(Sats \X Y)
        BY <1>1, FS_Product
    <2>2. S \subseteq Sats \X X /\ T \subseteq Sats \X Y
        BY DEF PairsInView
    <2>3. IsFiniteSet(S) /\ IsFiniteSet(T)
        <3> HIDE DEF S, T
        <3> QED BY <2>1, <2>2, FS_Subset
    <2>4. S \cap T = {}
        <3> HIDE DEF S, T
        <3> QED BY <1>2, <2>2
    <2>5. S \cup T = U
        BY <1>2 DEF PairsInView
    <2> HIDE DEF S, T, U
    <2>6. Cardinality(U) = Cardinality(S) + Cardinality(T)
        BY <2>3, <2>4, <2>5, DisjointCount
    <2> QED
        BY <2>6 DEF S, T, U
<1> QED
    BY <1>3, <1>4 DEF X, Y, Z

-----------------------------------------------------------------------------
(***************************************************************************)
(* What a task and the run have computed.                                  *)
(***************************************************************************)
\* What task n has computed when it has gone through the samples before b.
CellPart(idx, view, b) ==
    [serviceable |-> [k \in Ks |-> Cardinality({t \in 0 .. b - 1 : NInView(view, t) >= k})],
     sat_sum     |-> Cardinality(PairsInView(view, 0 .. b - 1)),
     inview      |-> Cut(idx, view, 0 .. b - 1)]

PartOf(n, b) ==
    [upto |-> b, cells |-> [c \in shard_list[n] |-> CellPart(SatIdx(sat_idx[n]), vis[c], b)]]

DefaultReport == [serviceable |-> [k \in Ks |-> 0], sat_sum |-> 0, mbb |-> DefaultVerdict]

\* The setup: every cell is in one shard, which keeps the satellites it sees.
Division ==
    /\ vis \in [Cells -> Views]
    /\ chunk \in Nat \ {0}
    /\ \A n \in Shards : /\ shard_list[n] \subseteq Cells /\ sat_idx[n] \subseteq Sats
                         /\ InViewOf(shard_list[n]) \subseteq sat_idx[n]
    /\ \A c \in Cells : \E n \in Shards : c \in shard_list[n]
    /\ \A m, n \in Shards : m # n => shard_list[m] \cap shard_list[n] = {}

\* The tasks: each has gone through the samples before its upto.
PartsInv ==
    /\ part = [n \in Shards |-> part[n]]
    /\ \A n \in Shards : /\ part[n].upto \in 0 .. NTime
                         /\ part[n] = PartOf(n, part[n].upto)
                         /\ task[n] = "done" /\ sat_idx[n] # {} => part[n].upto = NTime

\* The accumulators: the report of the cells of the shards applied.
OutInv ==
    /\ out = [c \in Cells |-> out[c]]
    /\ \A n \in Shards : \A c \in shard_list[n] :
          out[c] = IF n <= done_shards THEN CellReport(vis[c]) ELSE DefaultReport
    /\ pc # "end" => report = NoReport

ReportInv == Division /\ PartsInv /\ OutInv

\* The satellites a shard keeps number the ones its cells see.
LEMMA CellViews ==
    ASSUME Division, NEW n \in Shards, NEW c \in shard_list[n]
    PROVE  /\ c \in Cells /\ vis[c] \in [Sats -> SUBSET Times]
           /\ Numbers(SatIdx(sat_idx[n]), Cardinality(sat_idx[n]), vis[c])
<1>1. c \in Cells /\ vis[c] \in [Sats -> SUBSET Times]
    BY CoverageAssumption DEF Division
<1>2. sat_idx[n] \in SUBSET Sats /\ \A s \in Sats : vis[c][s] # {} => s \in sat_idx[n]
    BY DEF Division, InViewOf
<1> QED
    BY <1>1, <1>2, KeptNumbers

\* Before the first sample nothing is counted.
LEMMA NothingCounted ==
    ASSUME NEW view \in [Sats -> SUBSET Times]
    PROVE  /\ \A k \in Ks : Cardinality({t \in 0 .. 0 - 1 : NInView(view, t) >= k}) = 0
           /\ Cardinality(PairsInView(view, 0 .. 0 - 1)) = 0
<1>1. 0 .. 0 - 1 = {}
    OBVIOUS
<1> DEFINE none == 0 .. 0 - 1
<1>2. none = {}
    BY <1>1
<1> HIDE DEF none
<1>3. \A k \in Ks : {t \in none : NInView(view, t) >= k} = {}
    BY <1>2
<1>4. PairsInView(view, none) = {}
    BY <1>2 DEF PairsInView
<1> QED
    BY <1>3, <1>4, FS_EmptySet DEF none

\* A task starts with what there is before the first sample.
LEMMA EmptyPartOf ==
    ASSUME Division, NEW n \in Shards
    PROVE  EmptyPart(n) = PartOf(n, 0)
<1>1. ASSUME NEW c \in shard_list[n]
      PROVE  CellPart(SatIdx(sat_idx[n]), vis[c], 0)
                = [serviceable |-> [k \in Ks |-> 0], sat_sum |-> 0,
                   inview |-> [l \in DOMAIN SatIdx(sat_idx[n]) |-> {}]]
    <2> DEFINE view == vis[c]
               idx == SatIdx(sat_idx[n])
               none == 0 .. 0 - 1
    <2>1. view \in [Sats -> SUBSET Times]
        BY CellViews
    <2>2. none = {}
        OBVIOUS
    <2>3. /\ \A k \in Ks : Cardinality({t \in none : NInView(view, t) >= k}) = 0
          /\ Cardinality(PairsInView(view, none)) = 0
        BY <2>1, NothingCounted
    <2> HIDE DEF view, idx, none
    <2>4. [k \in Ks |-> Cardinality({t \in none : NInView(view, t) >= k})] = [k \in Ks |-> 0]
        BY <2>3
    <2>5. Cut(idx, view, none) = [l \in DOMAIN idx |-> {}]
        BY <2>2 DEF Cut
    <2> QED
        BY <2>3, <2>4, <2>5 DEF CellPart, view, idx, none
<1> QED
    BY <1>1 DEF EmptyPart, PartOf

\* A chunk added to what there is before it gives what there is after it.
LEMMA AddChunkOf ==
    ASSUME Division, NEW n \in Shards, NEW a \in Nat, NEW b \in Nat, a <= b,
           part[n] = PartOf(n, a), NEW c \in shard_list[n]
    PROVE  AddChunk(n, c, a, b) = CellPart(SatIdx(sat_idx[n]), vis[c], b)
<1> DEFINE view == vis[c]
           idx == SatIdx(sat_idx[n])
           old == part[n].cells[c]
           X == 0 .. a - 1
           Y == a .. b - 1
           new == Cut(idx, view, Y)
           Z == 0 .. b - 1
<1>1. view \in [Sats -> SUBSET Times] /\ Numbers(idx, Cardinality(sat_idx[n]), view)
    BY CellViews
<1>2. old = CellPart(idx, view, a)
    BY DEF PartOf
<1>3. ChunkView(n, c, a, b) = new
    BY DEF ChunkView, Cut
<1>4. /\ \A t \in Y : NInView(new, t) = NInView(view, t)
      /\ Cardinality(PairsInView(new, Y)) = Cardinality(PairsInView(view, Y))
    <2>1. IsFiniteSet(Y)
        <3>1. a \in Int /\ b - 1 \in Int
            OBVIOUS
        <3> QED
            BY <3>1, FS_Interval
    <2> HIDE DEF view, idx, Y
    <2> QED
        BY <1>1, <2>1, ChunkCounts DEF Y
<1>5. /\ \A k \in Ks : Cardinality({t \in Z : NInView(view, t) >= k})
            = Cardinality({t \in X : NInView(view, t) >= k})
              + Cardinality({t \in Y : NInView(view, t) >= k})
      /\ Cardinality(PairsInView(view, Z))
            = Cardinality(PairsInView(view, X)) + Cardinality(PairsInView(view, Y))
    <2> HIDE DEF view
    <2> QED BY <1>1, CountsAdd
<1>6. X \cup Y = Z
    OBVIOUS
<1>7. AddChunk(n, c, a, b) =
        [serviceable |-> [k \in Ks |-> old.serviceable[k]
                            + Cardinality({t \in Y : NInView(new, t) >= k})],
         sat_sum |-> old.sat_sum + Cardinality(PairsInView(new, Y)),
         inview  |-> [l \in DOMAIN new |-> old.inview[l] \cup new[l]]]
    <2> HIDE DEF new, old
    <2> QED BY <1>3 DEF AddChunk, old
<1>8. /\ old.serviceable = [k \in Ks |-> Cardinality({t \in X : NInView(view, t) >= k})]
      /\ old.sat_sum = Cardinality(PairsInView(view, X))
      /\ old.inview = [l \in DOMAIN idx |-> view[idx[l]] \cap X]
    <2> HIDE DEF old, view, idx, X
    <2> QED BY <1>2 DEF CellPart, Cut, X
<1>9. DOMAIN new = DOMAIN idx /\ \A l \in DOMAIN idx : new[l] = view[idx[l]] \cap Y
    BY DEF Cut
<1> HIDE DEF view, idx, old, new, X, Y, Z
<1>10. [k \in Ks |-> old.serviceable[k] + Cardinality({t \in Y : NInView(new, t) >= k})]
         = [k \in Ks |-> Cardinality({t \in Z : NInView(view, t) >= k})]
    <2>1. ASSUME NEW k \in Ks
          PROVE  {t \in Y : NInView(new, t) >= k} = {t \in Y : NInView(view, t) >= k}
        BY <1>4
    <2> QED
        BY <1>5, <1>8, <2>1
<1>11. [l \in DOMAIN new |-> old.inview[l] \cup new[l]] = [l \in DOMAIN idx |-> view[idx[l]] \cap Z]
    <2>1. ASSUME NEW l \in DOMAIN idx
          PROVE  old.inview[l] \cup new[l] = view[idx[l]] \cap Z
        BY <1>6, <1>8, <1>9
    <2> QED
        BY <1>9, <2>1
<1>12. CellPart(idx, view, b) =
         [serviceable |-> [k \in Ks |-> Cardinality({t \in Z : NInView(view, t) >= k})],
          sat_sum |-> Cardinality(PairsInView(view, Z)),
          inview |-> [l \in DOMAIN idx |-> view[idx[l]] \cap Z]]
    BY DEF CellPart, Cut, Z
<1>13. old.sat_sum + Cardinality(PairsInView(new, Y)) = Cardinality(PairsInView(view, Z))
    BY <1>4, <1>5, <1>8
<1>14. AddChunk(n, c, a, b) = CellPart(idx, view, b)
    BY <1>7, <1>10, <1>11, <1>12, <1>13
<1> QED
    BY <1>14 DEF view, idx

\* A shard applied with all its samples gives its cells the whole report.
LEMMA ApplyOf ==
    ASSUME Division, NEW n \in Shards, sat_idx[n] # {}, part[n] = PartOf(n, NTime),
           NEW c \in shard_list[n], out[c] = DefaultReport
    PROVE  Apply(n)[c] = CellReport(vis[c])
<1> DEFINE view == vis[c]
           idx == SatIdx(sat_idx[n])
           old == part[n].cells[c]
<1>1. c \in Cells /\ view \in [Sats -> SUBSET Times] /\ Numbers(idx, Cardinality(sat_idx[n]), view)
    BY CellViews
<1>2. old = CellPart(idx, view, NTime)
    BY DEF PartOf
<1>3. Times = 0 .. NTime - 1
    BY DEF Times
<1>4. idx \in [0 .. Cardinality(sat_idx[n]) - 1 -> Sats]
    BY <1>1 DEF Numbers
<1>5. Apply(n)[c] = [serviceable |-> [k \in Ks |-> 0 + old.serviceable[k]],
                     sat_sum |-> 0 + old.sat_sum, mbb |-> ShardVerdict(n, c)]
    <2>1. Apply(n)[c] = [serviceable |-> [k \in Ks |-> out[c].serviceable[k] + old.serviceable[k]],
                         sat_sum |-> out[c].sat_sum + old.sat_sum, mbb |-> ShardVerdict(n, c)]
        BY <1>1 DEF Apply
    <2>2. out[c].sat_sum = 0 /\ \A k \in Ks : out[c].serviceable[k] = 0
        BY DEF DefaultReport
    <2> HIDE DEF old
    <2>3. [k \in Ks |-> out[c].serviceable[k] + old.serviceable[k]] = [k \in Ks |-> 0 + old.serviceable[k]]
        BY <2>2
    <2> QED
        BY <2>1, <2>2, <2>3
<1>6. ShardVerdict(n, c) = mbb_continuity_cell_req(old.inview, LocalPlanes(idx), Req)
    BY DEF ShardVerdict, LocalPlanes
<1> HIDE DEF view, idx, old
<1>7. /\ old.serviceable = [k \in Ks |-> Cardinality({t \in Times : NInView(view, t) >= k})]
      /\ old.sat_sum = Cardinality(PairsInView(view, Times))
      /\ old.inview = [l \in DOMAIN idx |-> view[idx[l]] \cap Times]
    BY <1>2, <1>3 DEF CellPart, Cut
<1>8. old.inview = LocalView(idx, view)
    <2>1. ASSUME NEW l \in DOMAIN idx
          PROVE  view[idx[l]] \cap Times = view[idx[l]]
        BY <1>1, <1>4
    <2> QED
        BY <1>7, <2>1 DEF LocalView
<1>9. mbb_continuity_cell_req(LocalView(idx, view), LocalPlanes(idx), Req)
        = mbb_continuity_cell_req(view, PlaneUid, Req)
    BY <1>1, CoverageAssumption, WholeVerdict
<1>10. Cardinality(PairsInView(view, Times)) \in Nat
       /\ \A k \in Ks : Cardinality({t \in Times : NInView(view, t) >= k}) \in Nat
    <2>1. IsFiniteSet(Times) /\ IsFiniteSet(Sats)
        <3>1. 0 \in Int /\ NTime - 1 \in Int /\ NSat - 1 \in Int
            BY IntervalsAssumption
        <3> QED
            BY <3>1, FS_Interval DEF Times, Sats
    <2>2. IsFiniteSet(Sats \X Times)
        BY <2>1, FS_Product
    <2>3. PairsInView(view, Times) \subseteq Sats \X Times
        BY <1>1 DEF PairsInView
    <2>4. IsFiniteSet(PairsInView(view, Times))
        BY <2>2, <2>3, FS_Subset
    <2>5. \A k \in Ks : IsFiniteSet({t \in Times : NInView(view, t) >= k})
        BY <2>1, FS_Subset
    <2> QED
        BY <2>4, <2>5, FS_CardinalityType
<1>11. [k \in Ks |-> 0 + old.serviceable[k]] = [k \in Ks |-> Cardinality({t \in Times : NInView(view, t) >= k})]
    BY <1>7, <1>10
<1>12. 0 + old.sat_sum = Cardinality(PairsInView(view, Times))
    BY <1>7, <1>10
<1>13. Apply(n)[c] = CellReport(view)
    BY <1>5, <1>6, <1>8, <1>9, <1>11, <1>12 DEF CellReport
<1> QED
    BY <1>13 DEF view

\* A shard without satellites: its cells see none, and keep the defaults.
LEMMA NoneInView ==
    ASSUME Division, NEW n \in Shards, sat_idx[n] = {}, NEW c \in shard_list[n]
    PROVE  CellReport(vis[c]) = DefaultReport
<1> DEFINE view == vis[c]
<1>1. view \in [Sats -> SUBSET Times] /\ \A s \in Sats : view[s] = {}
    <2>1. view \in [Sats -> SUBSET Times]
        BY CellViews
    <2>2. \A s \in Sats : view[s] = {}
        BY DEF Division, InViewOf
    <2> QED BY <2>1, <2>2
<1> HIDE DEF view
<1>2. \A t \in Times : NInView(view, t) = 0
    <2>1. ASSUME NEW t \in Times
          PROVE  {s \in DOMAIN view : t \in view[s]} = {}
        BY <1>1
    <2> QED
        BY <2>1, FS_EmptySet DEF NInView
<1>3. \A k \in Ks : Cardinality({t \in Times : NInView(view, t) >= k}) = 0
    <2>1. ASSUME NEW k \in Ks
          PROVE  {t \in Times : NInView(view, t) >= k} = {}
        BY <1>2, CoverageAssumption
    <2> QED
        BY <2>1, FS_EmptySet
<1>4. Cardinality(PairsInView(view, Times)) = 0
    <2>1. PairsInView(view, Times) = {}
        BY <1>1 DEF PairsInView
    <2> QED
        BY <2>1, FS_EmptySet
<1>5. mbb_continuity_cell_req(view, PlaneUid, Req) = DefaultVerdict
    <2>1. intervals_from_inview(view) = {}
        BY <1>1 DEF intervals_from_inview, Rises
    <2> QED
        BY <2>1 DEF mbb_continuity_cell_req, DefaultVerdict
<1>6. [k \in Ks |-> Cardinality({t \in Times : NInView(view, t) >= k})] = [k \in Ks |-> 0]
    BY <1>3
<1>7. CellReport(view) = DefaultReport
    BY <1>4, <1>5, <1>6 DEF CellReport, DefaultReport
<1> QED
    BY <1>7 DEF view

-----------------------------------------------------------------------------
(***************************************************************************)
(* The steps.                                                              *)
(***************************************************************************)
\* The shards are numbered, and a shard applied is one whose task is done; the
\* context is set by a pool and until the run ends.
PoolInv ==
    /\ Len(shard_list) \in Nat /\ Shards = 1 .. Len(shard_list)
    /\ task = [n \in Shards |-> task[n]]
    /\ done_shards \in 0 .. Len(shard_list)
    /\ \A n \in Shards : n <= done_shards => task[n] = "done"
    /\ ctx = (UsesPool /\ pc # "end")
    /\ pc = "end" => Running = {}

\* A function on 1 .. n is as long as n.
LEMMA LengthOf ==
    ASSUME NEW m \in Nat, NEW f, DOMAIN f = 1 .. m, f = [j \in 1 .. m |-> f[j]]
    PROVE  Len(f) = m
<1>1. f \in Seq({f[j] : j \in 1 .. m})
    BY SeqDef
<1> QED
    BY <1>1

LEMMA InitPool == ASSUME Init PROVE PoolInv
<1>1. PICK m \in Nat : DOMAIN shard_list = 1 .. m /\ shard_list = [n \in 1 .. m |-> shard_list[n]]
    <2>1. CASE shard_list = <<Cells>>
        BY <2>1
    <2>2. ASSUME NEW p \in Parents, shard_list = assign_shards(p)
          PROVE  \E m \in Nat : DOMAIN shard_list = 1 .. m /\ shard_list = [n \in 1 .. m |-> shard_list[n]]
        <3> DEFINE owners == {c \in Cells : p[c] = c}
        <3>1. NCell \in Nat
            BY CoverageAssumption
        <3>2. IsFiniteSet(Cells)
            BY <3>1, FS_Interval DEF Cells
        <3>3. IsFiniteSet(owners)
            BY <3>2, FS_Subset
        <3>4. Cardinality(owners) \in Nat
            BY <3>3, FS_CardinalityType
        <3> QED
            BY <2>2, <3>4 DEF assign_shards
    <2> QED
        BY <2>1, <2>2 DEF Init
<1>2. Len(shard_list) = m
    BY <1>1, LengthOf
<1>3. Running = {}
    BY DEF Init, Running
<1> QED
    BY <1>1, <1>2, <1>3 DEF Init, PoolInv, Shards, UsesPool

\* A step of the tasks: what was done stays done, and nothing starts at the end.
LEMMA TasksStep ==
    ASSUME PoolInv,
           UNCHANGED <<setup, pc, ctx, done_shards>>,
           task' = [n \in Shards |-> task'[n]],
           \A n \in Shards : task[n] = "done" => task'[n] = "done",
           pc = "end" => \A n \in Shards : task'[n] = "running" => task[n] = "running"
    PROVE  PoolInv'
<1>1. UNCHANGED <<shard_list, n_workers, pc, ctx, done_shards>>
    BY DEF setup
<1>2. Shards' = Shards
    BY <1>1 DEF Shards
<1>3. pc' = "end" => Running' = {}
    BY <1>1, <1>2 DEF PoolInv, Running
<1> QED
    BY <1>1, <1>2, <1>3 DEF PoolInv, UsesPool

LEMMA StepPool == ASSUME PoolInv, [Next]_vars PROVE PoolInv'
<1>1. ASSUME NEW n \in Shards, StartTask(n) \/ FinishTask(n) \/ TaskRaises(n)
      PROVE  PoolInv'
    <2>1. /\ UNCHANGED <<setup, pc, ctx, done_shards>>
          /\ task[n] # "done" /\ \E s : task' = [task EXCEPT ![n] = s] /\ (pc = "end" => s # "running")
        BY <1>1 DEF StartTask, FinishTask, TaskRaises
    <2>2. task' = [m \in Shards |-> task'[m]]
        BY <2>1 DEF PoolInv
    <2>3. \A m \in Shards : task[m] = "done" => task'[m] = "done"
        BY <2>1 DEF PoolInv
    <2>4. pc = "end" => \A m \in Shards : task'[m] = "running" => task[m] = "running"
        BY <2>1 DEF PoolInv
    <2> QED
        BY <2>1, <2>2, <2>3, <2>4, TasksStep
<1>2. ASSUME NEW n \in Shards, ChunkStep(n)
      PROVE  PoolInv'
    BY <1>2, TasksStep DEF ChunkStep, PoolInv
<1>3. CASE WorkerDies
    <2>1. /\ UNCHANGED <<setup, pc, ctx, done_shards>>
          /\ task' = [n \in Shards |-> IF task[n] \in {"waiting", "running"} THEN "raised" ELSE task[n]]
        BY <1>3 DEF WorkerDies
    <2> QED
        BY <2>1, TasksStep
<1>4. CASE TakeResult
    <2>1. /\ done_shards + 1 \in Shards /\ task[done_shards + 1] = "done"
          /\ done_shards' = done_shards + 1
          /\ UNCHANGED <<shard_list, n_workers, pc, ctx, task>>
        BY <1>4 DEF TakeResult, setup
    <2>2. Shards' = Shards /\ Running' = Running
        BY <2>1 DEF Shards, Running
    <2>3. \A n \in Shards : n <= done_shards' => task'[n] = "done"
        BY <2>1 DEF PoolInv
    <2> QED
        BY <2>1, <2>2, <2>3 DEF PoolInv, UsesPool
<1>5. CASE TakeException
    <2>1. /\ pc = "shards" /\ pc' = "unwind"
          /\ task' = [m \in Shards |-> IF task[m] = "waiting" THEN "cancelled" ELSE task[m]]
          /\ UNCHANGED <<shard_list, n_workers, ctx, done_shards>>
        BY <1>5 DEF TakeException, setup
    <2>2. Shards' = Shards
        BY <2>1 DEF Shards
    <2> QED
        BY <2>1, <2>2 DEF PoolInv, UsesPool
<1>6. CASE AllApplied \/ Unwound
    <2>1. /\ pc' = "end" /\ ctx' = FALSE
          /\ UNCHANGED <<shard_list, n_workers, task, done_shards>>
          /\ done_shards = Len(shard_list) \/ Running = {}
        BY <1>6 DEF AllApplied, Unwound, setup
    <2>2. Shards' = Shards /\ Running' = Running
        BY <2>1 DEF Shards, Running
    <2>3. Running = {}
        BY <2>1 DEF PoolInv, Running
    <2> QED
        BY <2>1, <2>2, <2>3 DEF PoolInv, UsesPool
<1>7. CASE UNCHANGED vars
    BY <1>7, TasksStep DEF vars, PoolInv
<1> QED
    BY <1>1, <1>2, <1>3, <1>4, <1>5, <1>6, <1>7 DEF Next, TaskStep, RunStep

\* Every cell has its parent's shard.
LEMMA ShardsDivide ==
    ASSUME NEW p \in Parents
    PROVE  LET m    == Cardinality({c \in Cells : p[c] = c})
               list == assign_shards(p)
           IN  /\ m \in Nat /\ DOMAIN list = 1 .. m
               /\ \A n \in 1 .. m : list[n] \subseteq Cells
               /\ \A c \in Cells : \E n \in 1 .. m : c \in list[n]
               /\ \A j, n \in 1 .. m : j # n => list[j] \cap list[n] = {}
<1> DEFINE owners == {c \in Cells : p[c] = c}
           m == Cardinality(owners)
           list == assign_shards(p)
           nth == SatIdx(owners)
<1>1. NCell \in Nat
    BY CoverageAssumption
<1>2. IsFiniteSet(owners) /\ owners \in SUBSET Nat
    <2>1. 0 \in Int /\ NCell - 1 \in Int
        BY <1>1
    <2>2. IsFiniteSet(Cells) /\ Cells \subseteq Nat
        BY <2>1, FS_Interval DEF Cells
    <2> QED
        BY <2>2, FS_Subset
<1>3. \A c \in Cells : p[c] \in owners
    BY DEF Parents
<1>4. owners \subseteq Cells
    OBVIOUS
<1>5. DOMAIN list = 1 .. m /\ \A n \in 1 .. m : list[n] =
        {c \in Cells : p[c] = CHOOSE x \in owners : Cardinality({d \in owners : d < x}) = n - 1}
    BY DEF assign_shards
<1> HIDE DEF owners, list
<1>6. /\ m \in Nat /\ nth \in [0 .. m - 1 -> owners]
      /\ \A k, l \in 0 .. m - 1 : k < l => nth[k] < nth[l]
      /\ \A s \in owners : \E l \in 0 .. m - 1 : nth[l] = s
    BY <1>2, SatIdxOf
<1>7. \A l \in 0 .. m - 1 : nth[l] = CHOOSE x \in owners : Cardinality({d \in owners : d < x}) = l
    BY DEF SatIdx
<1>8. \A n \in 1 .. m : list[n] = {c \in Cells : p[c] = nth[n - 1]}
    <2>1. ASSUME NEW n \in 1 .. m
          PROVE  list[n] = {c \in Cells : p[c] = nth[n - 1]}
        <3>1. n - 1 \in 0 .. m - 1
            BY <1>6
        <3>2. nth[n - 1] = CHOOSE x \in owners : Cardinality({d \in owners : d < x}) = n - 1
            BY <1>7, <3>1
        <3> QED
            BY <1>5, <3>2
    <2> QED
        BY <2>1
<1> HIDE DEF m, nth
<1>9. \A x \in owners : x \in Int
    BY <1>2
<1>10. ASSUME NEW c \in Cells
      PROVE  \E n \in 1 .. m : c \in list[n]
    <2>1. PICK l \in 0 .. m - 1 : nth[l] = p[c]
        BY <1>3, <1>6
    <2>2. l + 1 \in 1 .. m /\ (l + 1) - 1 = l
        BY <1>6
    <2>3. c \in list[l + 1]
        BY <1>8, <2>1, <2>2
    <2> QED
        BY <2>2, <2>3
<1>11. ASSUME NEW j \in 1 .. m, NEW n \in 1 .. m, j # n
       PROVE  list[j] \cap list[n] = {}
    <2>1. j - 1 \in 0 .. m - 1 /\ n - 1 \in 0 .. m - 1 /\ (j - 1 < n - 1 \/ n - 1 < j - 1)
        BY <1>6, <1>11
    <2>2. nth[j - 1] \in owners /\ nth[n - 1] \in owners
        BY <1>6, <2>1
    <2>3. nth[j - 1] \in Int /\ nth[n - 1] \in Int
        BY <1>9, <2>2
    <2>4. nth[j - 1] # nth[n - 1]
        BY <1>6, <2>1, <2>3
    <2> QED
        BY <1>8, <2>4
<1> QED
    <2>1. \A n \in 1 .. m : list[n] \subseteq Cells
        BY <1>8
    <2>2. m \in Nat /\ DOMAIN list = 1 .. m
        BY <1>5, <1>6
    <2>3. \A c \in Cells : \E n \in 1 .. m : c \in list[n]
        BY <1>10
    <2>4. \A j, n \in 1 .. m : j # n => list[j] \cap list[n] = {}
        BY <1>11
    <2> QED
        BY <2>1, <2>2, <2>3, <2>4 DEF owners, m, list

\* At the start each part is that of the samples before 0, and out the defaults.
LEMMA InitReport == ASSUME Init PROVE ReportInv
<1>1. Shards = 1 .. Len(shard_list) /\ Len(shard_list) \in Nat
    BY InitPool DEF PoolInv
<1>2. Division
    <2>1. vis \in [Cells -> Views] /\ chunk \in Nat \ {0}
        BY ShardedCoverageAssumption DEF Init
    <2>2. CASE shard_list = <<Cells>> /\ sat_idx = <<Sats>>
        BY <2>1, <2>2 DEF Division, Shards, InViewOf
    <2>3. ASSUME NEW p \in Parents, shard_list = assign_shards(p),
                 sat_idx \in [1 .. Len(shard_list) -> SUBSET Sats],
                 \A n \in 1 .. Len(shard_list) : InViewOf(shard_list[n]) \subseteq sat_idx[n]
          PROVE  Division
        <3> DEFINE m == Cardinality({c \in Cells : p[c] = c})
        <3>1. /\ Shards = 1 .. m
              /\ \A n \in 1 .. m : shard_list[n] \subseteq Cells
              /\ \A c \in Cells : \E n \in 1 .. m : c \in shard_list[n]
              /\ \A j, n \in 1 .. m : j # n => shard_list[j] \cap shard_list[n] = {}
            <4> HIDE DEF m
            <4> QED BY <2>3, ShardsDivide DEF Shards, m
        <3>2. \A n \in Shards : sat_idx[n] \subseteq Sats /\ InViewOf(shard_list[n]) \subseteq sat_idx[n]
            BY <1>1, <2>3
        <3> HIDE DEF m
        <3> QED
            BY <2>1, <3>1, <3>2 DEF Division
    <2> QED
        BY <2>2, <2>3 DEF Init
<1>3. PartsInv
    <2>1. ASSUME NEW n \in Shards
          PROVE  part[n] = PartOf(n, 0) /\ part[n].upto = 0 /\ task[n] = "waiting"
        <3>1. part[n] = EmptyPart(n) /\ task[n] = "waiting"
            BY DEF Init
        <3>2. EmptyPart(n) = PartOf(n, 0)
            BY <1>2, EmptyPartOf
        <3> QED
            BY <3>1, <3>2 DEF PartOf
    <2>2. part = [n \in Shards |-> part[n]]
        BY DEF Init
    <2> QED
        BY <2>1, <2>2, IntervalsAssumption DEF PartsInv
<1>4. OutInv
    <2>1. /\ out = [c \in Cells |-> DefaultReport]
          /\ done_shards = 0 /\ report = NoReport
        BY DEF Init, DefaultReport
    <2>2. \A n \in Shards : ~(n <= done_shards) /\ shard_list[n] \subseteq Cells
        BY <1>1, <1>2, <2>1 DEF Division
    <2> QED
        BY <2>1, <2>2 DEF OutInv
<1> QED
    BY <1>2, <1>3, <1>4 DEF ReportInv

\* The setup does not change.
LEMMA DivisionKept == ASSUME Division, UNCHANGED setup PROVE Division'
BY DEF Division, setup, Shards, InViewOf

\* Steps that leave the parts alone.
LEMMA PartsKept ==
    ASSUME PartsInv, UNCHANGED setup, UNCHANGED part,
           \A n \in Shards : task'[n] = "done" /\ sat_idx[n] # {} =>
                                task[n] = "done" \/ part[n].upto = NTime
    PROVE  PartsInv'
<1>1. Shards' = Shards /\ sat_idx' = sat_idx
    BY DEF Shards, setup
<1>2. ASSUME NEW n \in Shards
      PROVE  /\ part'[n].upto \in 0 .. NTime
             /\ part'[n] = (PartOf(n, part[n].upto))'
             /\ task'[n] = "done" /\ sat_idx'[n] # {} => part'[n].upto = NTime
    <2>1. (PartOf(n, part[n].upto))' = PartOf(n, part[n].upto)
        BY DEF PartOf, CellPart, setup
    <2>2. part[n] = PartOf(n, part[n].upto) /\ part[n].upto \in 0 .. NTime
        BY DEF PartsInv
    <2>3. task[n] = "done" /\ sat_idx[n] # {} => part[n].upto = NTime
        BY DEF PartsInv
    <2> QED
        BY <1>1, <2>1, <2>2, <2>3
<1>3. part' = [n \in Shards' |-> part'[n]]
    BY <1>1 DEF PartsInv
<1> QED
    BY <1>1, <1>2, <1>3 DEF PartsInv

\* A step of task n sets its part to a number of samples.
LEMMA PartSet ==
    ASSUME PartsInv, UNCHANGED setup, NEW n \in Shards, NEW b \in 0 .. NTime,
           part' = [part EXCEPT ![n] = PartOf(n, b)],
           \A m \in Shards : m # n => task'[m] = task[m],
           task'[n] = "done" => sat_idx[n] = {}
    PROVE  PartsInv'
<1>1. Shards' = Shards /\ sat_idx' = sat_idx
    BY DEF Shards, setup
<1>2. ASSUME NEW m \in Shards
      PROVE  /\ part'[m].upto \in 0 .. NTime
             /\ part'[m] = (PartOf(m, part[m].upto))'
             /\ task'[m] = "done" /\ sat_idx'[m] # {} => part'[m].upto = NTime
    <2>1. (PartOf(m, part[m].upto))' = PartOf(m, part'[m].upto)
        BY DEF PartOf, CellPart, setup
    <2>2. CASE m = n
        <3>1. part'[m] = PartOf(n, b)
            BY <2>2 DEF PartsInv
        <3>2. part'[m].upto = b
            BY <3>1 DEF PartOf
        <3> QED
            BY <1>1, <2>1, <2>2, <3>1, <3>2
    <2>3. CASE m # n
        <3>1. part'[m] = part[m]
            BY <2>3 DEF PartsInv
        <3>2. part[m] = PartOf(m, part[m].upto) /\ part[m].upto \in 0 .. NTime
            BY DEF PartsInv
        <3>3. task[m] = "done" /\ sat_idx[m] # {} => part[m].upto = NTime
            BY DEF PartsInv
        <3> QED
            BY <1>1, <2>1, <2>3, <3>1, <3>2, <3>3
    <2> QED
        BY <2>2, <2>3
<1>3. part' = [m \in Shards' |-> part'[m]]
    BY <1>1 DEF PartsInv
<1> QED
    BY <1>1, <1>2, <1>3 DEF PartsInv

\* What TakeResult adds: the cells of the shard get the whole report.
LEMMA ResultTaken ==
    ASSUME PoolInv, ReportInv, TakeResult
    PROVE  OutInv'
<1> DEFINE n == done_shards + 1
<1>1. /\ pc = "shards" /\ n \in Shards /\ task[n] = "done" /\ out' = Apply(n) /\ done_shards' = n
      /\ UNCHANGED <<vis, shard_list, pc, report>>
    BY DEF TakeResult, setup
<1>2. Shards' = Shards /\ done_shards \in Nat /\ Shards \subseteq Nat
    BY <1>1 DEF Shards, PoolInv
<1>3. Division /\ PartsInv /\ OutInv
    BY DEF ReportInv
<1>4. DefaultReport' = DefaultReport /\ \A c \in Cells : (CellReport(vis[c]))' = CellReport(vis[c])
    BY <1>1 DEF DefaultReport, DefaultVerdict
<1>5. ASSUME NEW m \in Shards, NEW c \in shard_list[m]
      PROVE  out'[c] = IF m <= n THEN CellReport(vis[c]) ELSE DefaultReport
    <2>1. c \in Cells
        BY <1>3 DEF Division
    <2>2. out[c] = IF m <= done_shards THEN CellReport(vis[c]) ELSE DefaultReport
        BY <1>3 DEF OutInv
    <2>3. CASE m = n /\ sat_idx[n] # {}
        <3>1. ~(m <= done_shards)
            BY <1>2, <2>3
        <3>2. out[c] = DefaultReport
            BY <2>2, <3>1
        <3>3. part[n].upto = NTime /\ part[n] = PartOf(n, part[n].upto)
            BY <1>1, <1>3, <2>3 DEF PartsInv
        <3>4. Apply(n)[c] = CellReport(vis[c])
            <4> HIDE DEF n
            <4> QED BY <1>1, <1>3, <2>3, <3>2, <3>3, ApplyOf
        <3>5. m <= n
            BY <1>2, <2>3
        <3> QED
            BY <1>1, <3>4, <3>5
    <2>4. CASE m = n /\ sat_idx[n] = {}
        <3>1. ~(m <= done_shards) /\ m <= n
            BY <1>2, <2>4
        <3>2. CellReport(vis[c]) = DefaultReport
            <4> HIDE DEF n
            <4> QED BY <1>1, <1>3, <2>4, NoneInView
        <3>3. Apply(n)[c] = out[c]
            BY <2>1, <2>4 DEF Apply
        <3> QED
            BY <1>1, <2>2, <3>1, <3>2, <3>3
    <2>5. CASE m # n
        <3>1. c \notin shard_list[n]
            BY <1>1, <1>3, <2>5 DEF Division
        <3>2. Apply(n)[c] = out[c]
            BY <2>1, <3>1 DEF Apply
        <3>3. m <= n <=> m <= done_shards
            BY <1>2, <2>5
        <3> QED
            BY <1>1, <2>2, <3>2, <3>3
    <2> QED
        BY <2>3, <2>4, <2>5
<1>6. out' = [c \in Cells |-> out'[c]]
    BY <1>1 DEF Apply
<1>7. pc' # "end" => report' = NoReport
    BY <1>1, <1>3 DEF OutInv
<1>8. \A m \in Shards : \A c \in shard_list[m] : c \in Cells
    BY <1>3 DEF Division
<1>9. \A m \in Shards' : \A c \in shard_list'[m] :
         out'[c] = IF m <= done_shards' THEN (CellReport(vis[c]))' ELSE DefaultReport'
    BY <1>1, <1>2, <1>4, <1>5, <1>8
<1> HIDE DEF n
<1> QED
    BY <1>6, <1>7, <1>9 DEF OutInv

\* Steps that leave the accumulators alone.
LEMMA OutKept ==
    ASSUME Division, OutInv, UNCHANGED <<setup, out, done_shards>>,
           pc' # "end" => pc # "end" /\ report' = report
    PROVE  OutInv'
<1>1. UNCHANGED <<vis, shard_list, out, done_shards>> /\ Shards' = Shards
    BY DEF setup, Shards
<1>2. DefaultReport' = DefaultReport /\ \A c \in Cells : (CellReport(vis[c]))' = CellReport(vis[c])
    BY <1>1 DEF DefaultReport, DefaultVerdict
<1>3. \A m \in Shards : \A c \in shard_list[m] : c \in Cells
    BY DEF Division
<1>4. \A m \in Shards' : \A c \in shard_list'[m] :
         out'[c] = IF m <= done_shards' THEN (CellReport(vis[c]))' ELSE DefaultReport'
    BY <1>1, <1>2, <1>3 DEF OutInv
<1> QED
    BY <1>1, <1>4 DEF OutInv

\* Each step keeps the parts and the accumulators what they claim to be.
LEMMA StepReport == ASSUME PoolInv, ReportInv, [Next]_vars PROVE ReportInv'
<1>1. Division /\ PartsInv /\ OutInv
    BY DEF ReportInv
<1>2. UNCHANGED setup
    BY DEF Next, TaskStep, StartTask, ChunkStep, FinishTask, TaskRaises, WorkerDies, RunStep,
           TakeResult, TakeException, AllApplied, Unwound, vars
<1>3. Division'
    BY <1>1, <1>2, DivisionKept
<1>4. ASSUME NEW n \in Shards, StartTask(n)
      PROVE  PartsInv' /\ OutInv'
    <2>1. part' = [part EXCEPT ![n] = PartOf(n, 0)]
        BY <1>1, <1>4, EmptyPartOf DEF StartTask
    <2>2. /\ \A m \in Shards : m # n => task'[m] = task[m]
          /\ task'[n] = "done" => sat_idx[n] = {}
        BY <1>4 DEF StartTask, PoolInv
    <2>3. 0 \in 0 .. NTime
        BY IntervalsAssumption
    <2>4. PartsInv'
        BY <1>1, <1>2, <2>1, <2>2, <2>3, PartSet
    <2> QED
        BY <1>1, <1>2, <1>4, <2>4, OutKept DEF StartTask
<1>5. ASSUME NEW n \in Shards, ChunkStep(n)
      PROVE  PartsInv' /\ OutInv'
    <2> DEFINE a == part[n].upto
               b == Least(a + chunk, NTime)
    <2>1. /\ a \in Nat /\ a < NTime /\ part[n] = PartOf(n, a)
          /\ b \in 0 .. NTime /\ a <= b
        BY <1>1, <1>5, IntervalsAssumption DEF ChunkStep, PartsInv, Division, Least
    <2>2. part' = [part EXCEPT ![n] = [upto |-> b, cells |-> [c \in shard_list[n] |-> AddChunk(n, c, a, b)]]]
        BY <1>5 DEF ChunkStep
    <2> HIDE DEF a, b
    <2>3. \A c \in shard_list[n] : AddChunk(n, c, a, b) = CellPart(SatIdx(sat_idx[n]), vis[c], b)
        <3>1. b \in Nat
            BY <2>1
        <3> QED
            BY <1>1, <2>1, <3>1, AddChunkOf
    <2>4. part' = [part EXCEPT ![n] = PartOf(n, b)]
        BY <2>2, <2>3 DEF PartOf
    <2>5. task' = task /\ task[n] # "done"
        BY <1>5 DEF ChunkStep
    <2>6. PartsInv'
        BY <1>1, <1>2, <2>1, <2>4, <2>5, PartSet
    <2> QED
        BY <1>1, <1>2, <1>5, <2>6, OutKept DEF ChunkStep
<1>6. ASSUME NEW n \in Shards, FinishTask(n) \/ TaskRaises(n)
      PROVE  PartsInv' /\ OutInv'
    <2>1. \A m \in Shards : task'[m] = "done" => task[m] = "done" \/ part[m].upto = NTime
        BY <1>6 DEF FinishTask, TaskRaises, PoolInv
    <2>2. UNCHANGED <<part, out, done_shards, pc, report>>
        BY <1>6 DEF FinishTask, TaskRaises
    <2> QED
        BY <1>1, <1>2, <2>1, <2>2, PartsKept, OutKept
<1>7. ASSUME UNCHANGED part, \A n \in Shards : task'[n] = "done" => task[n] = "done"
      PROVE  PartsInv'
    <2>1. \A n \in Shards : task'[n] = "done" /\ sat_idx[n] # {} => task[n] = "done" \/ part[n].upto = NTime
        BY <1>7
    <2> QED
        BY <1>1, <1>2, <1>7, <2>1, PartsKept
<1>8. ASSUME WorkerDies \/ TakeException
      PROVE  PartsInv' /\ OutInv'
    <2>1. UNCHANGED part /\ \A n \in Shards : task'[n] = "done" => task[n] = "done"
        BY <1>8 DEF WorkerDies, TakeException
    <2>2. UNCHANGED <<out, done_shards, report>> /\ (pc' # "end" => pc # "end")
        BY <1>8 DEF WorkerDies, TakeException
    <2> QED
        BY <1>1, <1>2, <1>7, <2>1, <2>2, OutKept
<1>9. ASSUME TakeResult
      PROVE  PartsInv' /\ OutInv'
    <2>1. UNCHANGED <<part, task>>
        BY <1>9 DEF TakeResult
    <2> QED
        BY <1>7, <1>9, <2>1, ResultTaken
<1>10. ASSUME AllApplied \/ Unwound
      PROVE  PartsInv' /\ OutInv'
    <2>1. UNCHANGED <<part, task, out, done_shards>> /\ pc' = "end"
        BY <1>10 DEF AllApplied, Unwound
    <2> QED
        BY <1>1, <1>2, <1>7, <2>1, OutKept
<1>11. ASSUME UNCHANGED vars
      PROVE  PartsInv' /\ OutInv'
    <2>1. UNCHANGED <<part, task, out, done_shards, pc, report>>
        BY <1>11 DEF vars
    <2> QED
        BY <1>1, <1>2, <1>7, <2>1, OutKept
<1> QED
    BY <1>3, <1>4, <1>5, <1>6, <1>8, <1>9, <1>10, <1>11 DEF Next, TaskStep, RunStep, ReportInv

\* The report of a run that has applied every shard is the monolithic one.
LEMMA WholeReport ==
    ASSUME PoolInv, ReportInv, done_shards = Len(shard_list)
    PROVE  out = [c \in Cells |-> CellReport(vis[c])]
<1>1. ASSUME NEW c \in Cells
      PROVE  out[c] = CellReport(vis[c])
    <2>1. PICK n \in Shards : c \in shard_list[n]
        BY DEF ReportInv, Division
    <2>2. n <= done_shards
        BY DEF PoolInv
    <2> QED
        BY <2>1, <2>2 DEF ReportInv, OutInv
<1> QED
    BY <1>1 DEF ReportInv, OutInv


-----------------------------------------------------------------------------
(***************************************************************************)
(* Monolithic has definitions of its own, and they say the same.           *)
(***************************************************************************)
LEMMA SameCardinality ==
    ASSUME NEW S
    PROVE  Monolithic!Cardinality(S) = Cardinality(S)
BY DEF Monolithic!Cardinality, Cardinality, Monolithic!IsFiniteSet, IsFiniteSet

\* The intervals, the relaxation, the best goal, the gap, and so the verdict.
LEMMA SameIntervals ==
    ASSUME NEW inview
    PROVE  Monolithic!intervals_from_inview(inview) = intervals_from_inview(inview)
BY DEF Monolithic!intervals_from_inview, intervals_from_inview, Monolithic!Rises, Rises,
       Monolithic!Falls, Falls, Monolithic!Interval, Interval, Monolithic!Sats, Sats,
       Monolithic!Times, Times

LEMMA SameRelaxation ==
    ASSUME NEW ivs, NEW plane_uid, NEW req
    PROVE  Monolithic!Relaxation(ivs, plane_uid, req) = Relaxation(ivs, plane_uid, req)
BY DEF Monolithic!Relaxation, Relaxation, Monolithic!Sources, Sources, Monolithic!RelaxFrom, RelaxFrom,
       Monolithic!InOrder, InOrder, Monolithic!Before, Before, Monolithic!MayHandOver, MayHandOver,
       Monolithic!Overlap, Overlap, Monolithic!PlanesDiffer, PlanesDiffer,
       Monolithic!ThresholdOf, ThresholdOf, Monolithic!Least, Least, Monolithic!Most, Most,
       Monolithic!NoPath, NoPath, Monolithic!INF, INF,
       Monolithic!Cardinality, Cardinality, Monolithic!IsFiniteSet, IsFiniteSet

LEMMA SameBestGoal ==
    ASSUME NEW goals, NEW best
    PROVE  Monolithic!BestGoal(goals, best) = BestGoal(goals, best)
BY DEF Monolithic!BestGoal, BestGoal, Monolithic!Before, Before

LEMMA SameGap ==
    ASSUME NEW ivs
    PROVE  Monolithic!merged_worst_gap_steps(ivs) = merged_worst_gap_steps(ivs)
BY DEF Monolithic!merged_worst_gap_steps, merged_worst_gap_steps, Monolithic!GapLengths, GapLengths,
       Monolithic!Covered, Covered, Monolithic!Times, Times

LEMMA SameVerdict ==
    ASSUME NEW inview, NEW plane_uid, NEW req
    PROVE  Monolithic!mbb_continuity_cell_req(inview, plane_uid, req)
              = mbb_continuity_cell_req(inview, plane_uid, req)
<1> DEFINE ivs == intervals_from_inview(inview)
           relaxed == Relaxation(ivs, plane_uid, req)[Cardinality(ivs)]
           goals == {i \in ivs : relaxed.best[i] # NoPath /\ i.en >= NTime - 1}
           g == BestGoal(goals, relaxed.best)
           ivsM == Monolithic!intervals_from_inview(inview)
           relaxedM == Monolithic!Relaxation(ivsM, plane_uid, req)[Monolithic!Cardinality(ivsM)]
           goalsM == {i \in ivsM : relaxedM.best[i] # Monolithic!NoPath /\ i.en >= NTime - 1}
           gM == Monolithic!BestGoal(goalsM, relaxedM.best)
<1>1. ivsM = ivs
    BY SameIntervals
<1>2. relaxedM = relaxed
    <2> HIDE DEF ivs, ivsM
    <2> QED BY <1>1, SameRelaxation, SameCardinality
<1>3. goalsM = goals
    <2> HIDE DEF ivs, ivsM, relaxed, relaxedM
    <2> QED BY <1>1, <1>2 DEF Monolithic!NoPath, NoPath
<1>4. gM = g
    <2> HIDE DEF ivs, ivsM, relaxed, relaxedM, goals, goalsM
    <2> QED BY <1>2, <1>3, SameBestGoal
<1>5. mbb_continuity_cell_req(inview, plane_uid, req) =
        IF ivs = {} THEN InfeasibleVerdict(NTime)
        ELSE IF goals = {} THEN InfeasibleVerdict(merged_worst_gap_steps(ivs))
        ELSE FeasibleVerdict(relaxed.best[g], relaxed.hops[g])
    BY DEF mbb_continuity_cell_req
<1>6. Monolithic!mbb_continuity_cell_req(inview, plane_uid, req) =
        IF ivsM = {} THEN Monolithic!InfeasibleVerdict(NTime)
        ELSE IF goalsM = {} THEN Monolithic!InfeasibleVerdict(Monolithic!merged_worst_gap_steps(ivsM))
        ELSE Monolithic!FeasibleVerdict(relaxedM.best[gM], relaxedM.hops[gM])
    BY DEF Monolithic!mbb_continuity_cell_req
<1> HIDE DEF ivs, ivsM, relaxed, relaxedM, goals, goalsM, g, gM
<1>7. Monolithic!merged_worst_gap_steps(ivs) = merged_worst_gap_steps(ivs)
    BY SameGap
<1> QED
    BY <1>1, <1>2, <1>3, <1>4, <1>5, <1>6, <1>7
       DEF Monolithic!InfeasibleVerdict, InfeasibleVerdict, Monolithic!FeasibleVerdict, FeasibleVerdict,
           Monolithic!NA, NA, Monolithic!INF, INF

LEMMA SameReport ==
    ASSUME NEW view
    PROVE  Monolithic!CellReport(view) = CellReport(view)
<1>1. \A k : Cardinality({t \in Times : Cardinality({s \in DOMAIN view : t \in view[s]}) >= k})
             = Monolithic!Cardinality({t \in Monolithic!Times :
                                         Monolithic!Cardinality({s \in DOMAIN view : t \in view[s]}) >= k})
    BY DEF Monolithic!Cardinality, Cardinality, Monolithic!IsFiniteSet, IsFiniteSet, Monolithic!Times, Times
<1>2. \A k : Monolithic!Cardinality({t \in Monolithic!Times : Monolithic!NInView(view, t) >= k})
             = Cardinality({t \in Times : NInView(view, t) >= k})
    BY <1>1 DEF Monolithic!NInView, NInView
<1>3. Monolithic!Cardinality(Monolithic!PairsInView(view, Monolithic!Times))
        = Cardinality(PairsInView(view, Times))
    <2>1. Monolithic!PairsInView(view, Monolithic!Times) = PairsInView(view, Times)
        BY DEF Monolithic!PairsInView, PairsInView, Monolithic!Times, Times
    <2> QED
        BY <2>1, SameCardinality
<1>4. Monolithic!mbb_continuity_cell_req(view, PlaneUid, Req) = mbb_continuity_cell_req(view, PlaneUid, Req)
    BY SameVerdict
<1>5. [k \in Ks |-> Monolithic!Cardinality({t \in Monolithic!Times : Monolithic!NInView(view, t) >= k})]
        = [k \in Ks |-> Cardinality({t \in Times : NInView(view, t) >= k})]
    BY <1>2
<1> QED
    BY <1>3, <1>4, <1>5 DEF Monolithic!CellReport, CellReport

-----------------------------------------------------------------------------
\* Whatever the division into shards, the satellites they keep, the chunks, the
\* workers and the failures: a run returns what one pass over all cells,
\* satellites and samples would, or raises.
THEOREM ShardedImplementsMonolithic == Spec => ShardedIsMonolithic
<1>1. Init => PoolInv /\ ReportInv
    BY InitPool, InitReport
<1>2. PoolInv /\ ReportInv /\ [Next]_vars => PoolInv' /\ ReportInv'
    BY StepPool, StepReport
<1>3. Init => Monolithic!Init
    BY DEF Init, Monolithic!Init, Monolithic!Cells, Cells, Monolithic!NoReport, NoReport
<1>4. PoolInv /\ ReportInv /\ [Next]_vars => [Monolithic!Next]_<<vis, report>>
    <2> SUFFICES ASSUME PoolInv, ReportInv, [Next]_vars
                 PROVE  [Monolithic!Next]_<<vis, report>>
        OBVIOUS
    <2>1. pc # "end" => report = Monolithic!NoReport
        BY DEF ReportInv, OutInv, Monolithic!NoReport, NoReport
    <2>2. CASE AllApplied
        <3>1. /\ pc = "shards" /\ done_shards = Len(shard_list)
              /\ report' = Returned(out) /\ vis' = vis
            BY <2>2 DEF AllApplied, setup
        <3>2. out = [c \in Cells |-> CellReport(vis[c])]
            BY <3>1, WholeReport
        <3>3. Monolithic!MonolithicReport = [c \in Cells |-> CellReport(vis[c])]
            <4>1. Monolithic!Cells = Cells
                BY DEF Monolithic!Cells, Cells
            <4>2. \A c \in Cells : Monolithic!CellReport(vis[c]) = CellReport(vis[c])
                BY SameReport
            <4> QED
                BY <4>1, <4>2 DEF Monolithic!MonolithicReport
        <3>4. report' = Monolithic!Returned(Monolithic!MonolithicReport)
            BY <3>1, <3>2, <3>3 DEF Monolithic!Returned, Returned
        <3> QED
            BY <2>1, <3>1, <3>4 DEF Monolithic!Next, Monolithic!Return
    <2>3. CASE Unwound
        BY <2>1, <2>3 DEF Unwound, setup, Monolithic!Next, Monolithic!Raise, Monolithic!Raised, Raised
    <2>4. ASSUME ~AllApplied, ~Unwound
          PROVE  UNCHANGED <<vis, report>>
        BY <2>4 DEF Next, TaskStep, StartTask, ChunkStep, FinishTask, TaskRaises, WorkerDies, RunStep,
                    TakeResult, TakeException, vars, setup
    <2> QED
        BY <2>2, <2>3, <2>4
<1> QED
    BY <1>1, <1>2, <1>3, <1>4, PTL DEF Spec, ShardedIsMonolithic, Monolithic!Spec

\* _SHARD_CTX is set while a task of the pool runs, and reset with nothing running
\* when the run is over: whichever task raises and whichever worker dies.
THEOREM ContextCorrect == Spec => []ContextOutlivesTasks
<1>1. Init => PoolInv
    BY InitPool
<1>2. PoolInv /\ [Next]_vars => PoolInv'
    BY StepPool
<1>3. PoolInv => ContextOutlivesTasks
    BY DEF PoolInv, ContextOutlivesTasks
<1> QED
    BY <1>1, <1>2, <1>3, PTL DEF Spec
=============================================================================
