--------------------------- MODULE ConstellationProofs ---------------------------
(***************************************************************************)
(* Proofs about constellations on their way through the program, for every *)
(* value of the constants.                                                 *)
(***************************************************************************)
EXTENDS MCConstellation, SequenceTheorems, FiniteSetTheorems, TLAPS

-----------------------------------------------------------------------------
(***************************************************************************)
(* Items collected in order                                                *)
(***************************************************************************)
\* The place of position n among those of P.
Rank(P, n) == Cardinality({m \in P : m <= n})

LEMMA RankType ==
    ASSUME NEW P \in SUBSET Int, IsFiniteSet(P), NEW n \in P
    PROVE  Rank(P, n) \in 1 .. Cardinality(P)
<1> DEFINE Below == {m \in P : m <= n}
<1>1. Below \in SUBSET P /\ n \in Below
    OBVIOUS
<1>2. IsFiniteSet(Below) /\ Cardinality(Below) <= Cardinality(P)
    BY <1>1, FS_Subset
<1>3. Cardinality(P) \in Nat /\ Cardinality(Below) \in Nat
    BY <1>2, FS_CardinalityType
<1>4. Cardinality(Below) # 0
    BY <1>1, <1>2, FS_EmptySet
<1> HIDE DEF Below
<1>5. Cardinality(Below) \in 1 .. Cardinality(P)
    BY <1>2, <1>3, <1>4
<1> QED
    BY <1>5 DEF Below, Rank

LEMMA RankGrows ==
    ASSUME NEW P \in SUBSET Int, IsFiniteSet(P), NEW m \in P, NEW n \in P, m < n
    PROVE  Rank(P, m) < Rank(P, n)
<1> DEFINE Low == {q \in P : q <= m}
           High == {q \in P : q <= n}
<1>0. m \in Int /\ n \in Int /\ \A q \in P : q \in Int
    OBVIOUS
<1>1. High \in SUBSET P /\ Low \in SUBSET High /\ n \in High /\ n \notin Low
    <2>1. \A q \in P : q <= m => q <= n
        BY <1>0
    <2>2. ~(n <= m) /\ n <= n
        BY <1>0
    <2> QED
        BY <2>1, <2>2
<1>2. IsFiniteSet(High) /\ IsFiniteSet(Low)
    BY <1>1, FS_Subset
<1>3. Cardinality(Low) <= Cardinality(High) /\ Cardinality(Low) # Cardinality(High)
    BY <1>1, <1>2, FS_Subset
<1>4. Cardinality(Low) \in Nat /\ Cardinality(High) \in Nat
    BY <1>2, FS_CardinalityType
<1> HIDE DEF Low, High
<1>5. Cardinality(Low) < Cardinality(High)
    BY <1>3, <1>4
<1> QED
    BY <1>5 DEF Low, High, Rank

\* Ranks count the positions through: each number up to the last is one's rank.
LEMMA RankOnto ==
    ASSUME NEW P \in SUBSET Int, IsFiniteSet(P), NEW k \in 1 .. Cardinality(P)
    PROVE  \E n \in P : Rank(P, n) = k
<1> DEFINE Ranks == 1 .. Cardinality(P)
           f == [n \in P |-> Rank(P, n)]
<1>1. Cardinality(P) \in Nat
    BY FS_CardinalityType
<1>2. f \in [P -> Ranks]
    BY RankType
<1>3. ASSUME NEW m \in P, NEW n \in P, f[m] = f[n]
      PROVE  m = n
    <2>1. Rank(P, m) = Rank(P, n) /\ Rank(P, m) \in Int
        BY <1>3, RankType
    <2> QED
        BY <2>1, RankGrows
<1>4. f \in Injection(P, Ranks)
    BY <1>2, <1>3 DEF Injection, IsInjective
<1>5. IsFiniteSet(Ranks) /\ Cardinality(Ranks) = Cardinality(P)
    BY <1>1, FS_Interval
<1>6. f \in Surjection(P, Ranks)
    BY <1>4, <1>5, FS_Injection
<1>7. PICK n \in P : f[n] = k
    BY <1>6 DEF Surjection
<1> QED
    BY <1>7

LEMMA PositionFacts ==
    ASSUME NEW P \in SUBSET Int, IsFiniteSet(P), NEW k \in 1 .. Cardinality(P)
    PROVE  Position(P, k) \in P /\ Rank(P, Position(P, k)) = k
  BY RankOnto DEF Position, Rank

\* Positions are counted in ascending order.
LEMMA PositionsGrow ==
    ASSUME NEW P \in SUBSET Int, IsFiniteSet(P),
           NEW j \in 1 .. Cardinality(P), NEW k \in 1 .. Cardinality(P), j < k
    PROVE  Position(P, j) < Position(P, k)
<1>1. Position(P, j) \in P /\ Rank(P, Position(P, j)) = j
    BY PositionFacts
<1>2. Position(P, k) \in P /\ Rank(P, Position(P, k)) = k
    BY PositionFacts
<1>0. \A q \in P : q \in Int
    OBVIOUS
<1>3. j \in Int /\ k \in Int /\ Position(P, j) \in Int /\ Position(P, k) \in Int
    <2>1. Cardinality(P) \in Nat
        BY FS_CardinalityType
    <2>2. j \in Int /\ k \in Int
        BY <2>1
    <2> QED
        BY <1>0, <1>1, <1>2, <2>2
<1>4. CASE Position(P, k) < Position(P, j)
    BY <1>1, <1>2, <1>3, <1>4, RankGrows
<1>5. CASE Position(P, k) = Position(P, j)
    BY <1>1, <1>2, <1>3, <1>5
<1> QED
    BY <1>3, <1>4, <1>5

\* Every position is counted.
LEMMA PositionOfRank ==
    ASSUME NEW P \in SUBSET Int, IsFiniteSet(P), NEW n \in P
    PROVE  Position(P, Rank(P, n)) = n
<1>1. Rank(P, n) \in 1 .. Cardinality(P)
    BY RankType
<1>2. Position(P, Rank(P, n)) \in P /\ Rank(P, Position(P, Rank(P, n))) = Rank(P, n)
    BY <1>1, PositionFacts
<1>0. \A q \in P : q \in Int
    OBVIOUS
<1>3. n \in Int /\ Position(P, Rank(P, n)) \in Int /\ Rank(P, n) \in Int
    <2>1. Cardinality(P) \in Nat
        BY FS_CardinalityType
    <2>2. Rank(P, n) \in Int
        BY <1>1, <2>1
    <2> QED
        BY <1>0, <1>2, <2>2
<1> QED
    BY <1>2, <1>3, RankGrows

\* Whatever lists the positions in ascending order lists them like Position.
LEMMA PositionUnique ==
    ASSUME NEW n \in Nat, NEW f, NEW P \in SUBSET Int, DOMAIN f = 1 .. n,
           P = {f[k] : k \in 1 .. n}, \A j, k \in 1 .. n : j < k => f[j] < f[k]
    PROVE  /\ IsFiniteSet(P) /\ Cardinality(P) = n
           /\ \A k \in 1 .. n : Position(P, k) = f[k]
<1>1. \A j, k \in 1 .. n : f[j] \in Int /\ (f[j] <= f[k] <=> j <= k)
    <2>1. ASSUME NEW j \in 1 .. n, NEW k \in 1 .. n
          PROVE  f[j] \in Int /\ (f[j] <= f[k] <=> j <= k)
        <3>1. f[j] \in Int /\ f[k] \in Int /\ j \in Int /\ k \in Int
            OBVIOUS
        <3>2. (j < k => f[j] < f[k]) /\ (k < j => f[k] < f[j])
            OBVIOUS
        <3> QED
            BY <3>1, <3>2
    <2> QED
        BY <2>1
<1>2. ASSUME NEW k \in 0 .. n
      PROVE  LET T == {f[j] : j \in 1 .. k} IN IsFiniteSet(T) /\ Cardinality(T) = k
    <2> DEFINE T == {f[j] : j \in 1 .. k}
               g == [j \in 1 .. k |-> f[j]]
    <2>1. \A i, j \in 1 .. k : i \in 1 .. n /\ j \in 1 .. n /\ (g[i] = g[j] => i = j)
        <3>1. ASSUME NEW i \in 1 .. k, NEW j \in 1 .. k
              PROVE  i \in 1 .. n /\ j \in 1 .. n /\ (g[i] = g[j] => i = j)
            <4>1. i \in 1 .. n /\ j \in 1 .. n
                OBVIOUS
            <4>2. f[i] \in Int /\ f[j] \in Int /\ (f[i] <= f[j] <=> i <= j) /\ (f[j] <= f[i] <=> j <= i)
                BY <1>1, <4>1
            <4> QED
                BY <4>1, <4>2
        <3> QED
            BY <3>1
    <2>2. g \in Bijection(1 .. k, T)
        BY <2>1 DEF Bijection, Injection, Surjection, IsInjective
    <2>3. IsFiniteSet(1 .. k) /\ Cardinality(1 .. k) = k
        <3>1. k \in Int /\ 1 \in Int /\ k >= 0
            OBVIOUS
        <3>2. IsFiniteSet(1 .. k) /\ Cardinality(1 .. k) = IF 1 > k THEN 0 ELSE k - 1 + 1
            BY <3>1, FS_Interval
        <3> QED
            BY <3>1, <3>2
    <2> QED
        BY <2>2, <2>3, FS_Bijection DEF ExistsBijection
<1>3. IsFiniteSet(P) /\ Cardinality(P) = n
    <2>1. n \in 0 .. n
        OBVIOUS
    <2>2. \A k \in 0 .. n : IsFiniteSet({f[j] : j \in 1 .. k}) /\ Cardinality({f[j] : j \in 1 .. k}) = k
        BY <1>2
    <2> QED
        BY <2>1, <2>2, Zenon
<1>4. ASSUME NEW k \in 1 .. n
      PROVE  Position(P, k) = f[k]
    <2>1. {m \in P : m <= f[k]} = {f[j] : j \in 1 .. k}
        <3>1. ASSUME NEW j \in 1 .. n
              PROVE  f[j] <= f[k] <=> j \in 1 .. k
            BY <1>1
        <3>2. \A j \in 1 .. k : j \in 1 .. n
            OBVIOUS
        <3> QED
            BY <3>1, <3>2
    <2>2. Rank(P, f[k]) = k
        <3>1. k \in 0 .. n
            OBVIOUS
        <3>2. Cardinality({f[j] : j \in 1 .. k}) = k
            BY <1>2, <3>1
        <3> QED
            BY <2>1, <3>2 DEF Rank
    <2> QED
        BY <1>3, <2>2, PositionOfRank
<1> QED
    BY <1>3, <1>4

\* What is collected of a sequence: those entries and no others.
LEMMA AtFacts ==
    ASSUME NEW S, NEW s \in Seq(S), NEW P \in SUBSET (DOMAIN s)
    PROVE  /\ IsFiniteSet(P) /\ Cardinality(P) \in Nat
           /\ At(s, P) \in Seq(S) /\ Len(At(s, P)) = Cardinality(P)
           /\ ToSet(At(s, P)) = {s[n] : n \in P}
           /\ \A k \in 1 .. Cardinality(P) : /\ Position(P, k) \in P
                                            /\ At(s, P)[k] = s[Position(P, k)]
<1>1. DOMAIN s = 1 .. Len(s) /\ Len(s) \in Nat
    OBVIOUS
<1>2. P \in SUBSET Int /\ IsFiniteSet(P)
    <2>1. IsFiniteSet(1 .. Len(s))
        BY <1>1, FS_Interval
    <2> QED
        BY <1>1, <2>1, FS_Subset
<1>3. Cardinality(P) \in Nat
    BY <1>2, FS_CardinalityType
<1>4. \A k \in 1 .. Cardinality(P) : Position(P, k) \in P
    BY <1>2, PositionFacts
<1>5. \A n \in P : \E k \in 1 .. Cardinality(P) : Position(P, k) = n
    BY <1>2, RankType, PositionOfRank
<1>6. /\ DOMAIN At(s, P) = 1 .. Cardinality(P)
      /\ \A k \in 1 .. Cardinality(P) : At(s, P)[k] = s[Position(P, k)] /\ At(s, P)[k] \in S
    BY <1>1, <1>4 DEF At
<1>7. At(s, P) \in Seq(S) /\ Len(At(s, P)) = Cardinality(P)
    BY <1>3, <1>4 DEF At
<1>8. ToSet(At(s, P)) = {s[n] : n \in P}
    BY <1>4, <1>5, <1>6 DEF ToSet
<1> QED
    BY <1>2, <1>3, <1>4, <1>6, <1>7, <1>8

-----------------------------------------------------------------------------
(***************************************************************************)
(* Angles                                                                  *)
(***************************************************************************)
LEMMA RemainderUnique ==
    ASSUME NEW C \in Nat \ {0}, NEW q \in Int, NEW r \in 0 .. C - 1
    PROVE  ((C * q) + r) % C = r
  OBVIOUS

LEMMA Remainder ==
    ASSUME NEW C \in Nat \ {0}, NEW x \in Int
    PROVE  /\ x = (C * (x \div C)) + (x % C)
           /\ x % C \in 0 .. C - 1 /\ x \div C \in Int
  OBVIOUS

\* Reducing before an addition changes nothing.
LEMMA ReduceThenAdd ==
    ASSUME NEW C \in Nat \ {0}, NEW x \in Int, NEW y \in Int
    PROVE  ((x % C) + y) % C = (x + y) % C
<1> DEFINE low == x % C
           high == x \div C
           q == (low + y) \div C
           r == (low + y) % C
<1>1. x = (C * high) + low /\ low \in 0 .. C - 1 /\ high \in Int
    BY Remainder
<1>2. low \in Int
    BY <1>1
<1> HIDE DEF low, high
<1>3. low + y = (C * q) + r /\ r \in 0 .. C - 1 /\ q \in Int
    <2> DEFINE z == low + y
    <2>1. z \in Int
        BY <1>2
    <2> HIDE DEF z
    <2>2. z = (C * (z \div C)) + (z % C) /\ z % C \in 0 .. C - 1 /\ z \div C \in Int
        BY <2>1, Remainder, ZenonT(30)
    <2> QED
        BY <2>2 DEF z
<1> HIDE DEF q, r
<1>4. C \in Int /\ r \in Int /\ high + q \in Int
    BY <1>1, <1>3
<1>5. x + y = (C * (high + q)) + r
    BY <1>1, <1>2, <1>3, <1>4
<1>6. (x + y) % C = r
    BY <1>3, <1>4, <1>5, RemainderUnique
<1> QED
    BY <1>6 DEF r, low

-----------------------------------------------------------------------------
(***************************************************************************)
(* The adapter                                                             *)
(***************************************************************************)
Reprs == {"dict", "proto"}

Entries ==
    [repr : Reprs, arm : {"keplerian_elements"}, kepler : KeplerElements]
        \cup [repr : Reprs, arm : {"geodetic_wgs84", "motion_kind"}, kepler : {None}]

Entities ==
    [id : Ids, kind : {"ek_platform"}, repr : Reprs, external : BOOLEAN, motion : Seq(Entries)]

\* The elements of an entry are there when its arm says so, in both representations.
LEMMA KeplerOfArm ==
    ASSUME NEW entry \in Entries
    PROVE  /\ entry.arm = "keplerian_elements" =>
                 KeplerOf(entry) = entry.kepler /\ entry.kepler \in KeplerElements
           /\ entry.arm # "keplerian_elements" => KeplerOf(entry) = None
  BY DEF Entries, Reprs, KeplerOf, GetKepler

LEMMA FirstKeplerType ==
    ASSUME NEW p \in Entities
    PROVE  FirstKepler(p) \in KeplerElements \cup {None}
<1>1. CASE p.motion = <<>>
    BY <1>1 DEF FirstKepler
<1>2. CASE p.motion # <<>>
    <2>1. p.motion[1] \in Entries
        BY <1>2 DEF Entities
    <2> QED
        BY <1>2, <2>1, KeplerOfArm DEF FirstKepler
<1> QED
    BY <1>1, <1>2

ServedAt(entities, include_external) ==
    {n \in DOMAIN entities : IsPlatform(entities[n]) /\ IsServed(entities[n], include_external)}

LEMMA ServedFacts ==
    ASSUME NEW es \in Seq(Entities), NEW inc \in BOOLEAN
    PROVE  /\ Served(es, inc) \in Seq(Entities)
           /\ Len(Served(es, inc)) = Cardinality(ServedAt(es, inc))
           /\ \A k \in DOMAIN Served(es, inc) :
                 /\ Position(ServedAt(es, inc), k) \in ServedAt(es, inc)
                 /\ Served(es, inc)[k] = es[Position(ServedAt(es, inc), k)]
                 /\ FirstKepler(Served(es, inc)[k]) \in KeplerElements
<1> DEFINE P == ServedAt(es, inc)
<1>1. P \in SUBSET (DOMAIN es) /\ Served(es, inc) = At(es, P)
    BY DEF ServedAt, Served
<1> HIDE DEF P
<1>2. /\ At(es, P) \in Seq(Entities) /\ Len(At(es, P)) = Cardinality(P)
      /\ \A k \in 1 .. Cardinality(P) : Position(P, k) \in P /\ At(es, P)[k] = es[Position(P, k)]
    BY <1>1, AtFacts
<1>3. ASSUME NEW k \in DOMAIN At(es, P)
      PROVE  /\ Position(P, k) \in P
             /\ At(es, P)[k] = es[Position(P, k)]
             /\ FirstKepler(At(es, P)[k]) \in KeplerElements
    <2>1. k \in 1 .. Cardinality(P)
        BY <1>2
    <2>2. Position(P, k) \in P /\ At(es, P)[k] = es[Position(P, k)]
        BY <1>2, <2>1
    <2>3. IsServed(At(es, P)[k], inc) /\ At(es, P)[k] \in Entities
        BY <1>1, <2>2 DEF P, ServedAt
    <2>4. FirstKepler(At(es, P)[k]) # None
        BY <2>3 DEF IsServed
    <2> QED
        BY <2>2, <2>3, <2>4, FirstKeplerType
<1> QED
    BY <1>1, <1>2, <1>3 DEF P

\* Two lists of entities the adapter cannot tell apart.
Alike(es, fs) ==
    /\ Len(es) = Len(fs)
    /\ \A n \in DOMAIN es :
          /\ es[n].id = fs[n].id /\ es[n].kind = fs[n].kind /\ es[n].external = fs[n].external
          /\ FirstKepler(es[n]) = FirstKepler(fs[n])

LEMMA AlikeServed ==
    ASSUME NEW es \in Seq(Entities), NEW fs \in Seq(Entities), Alike(es, fs), NEW inc \in BOOLEAN
    PROVE  /\ ServedAt(es, inc) = ServedAt(fs, inc)
           /\ Alike(Served(es, inc), Served(fs, inc))
<1>1. DOMAIN es = DOMAIN fs
    BY DEF Alike
<1>2. ServedAt(es, inc) = ServedAt(fs, inc)
    BY <1>1 DEF Alike, ServedAt, IsPlatform, IsServed, IsExternal
<1>3. Len(Served(es, inc)) = Len(Served(fs, inc))
    BY <1>2, ServedFacts
<1>4. ASSUME NEW n \in DOMAIN Served(es, inc)
      PROVE  \E m \in DOMAIN es : Served(es, inc)[n] = es[m] /\ Served(fs, inc)[n] = fs[m]
    <2>1. n \in DOMAIN Served(fs, inc)
        BY <1>3, ServedFacts
    <2>2. Position(ServedAt(es, inc), n) \in DOMAIN es
        BY ServedFacts DEF ServedAt
    <2>3. Served(es, inc)[n] = es[Position(ServedAt(es, inc), n)]
        BY ServedFacts
    <2>4. Served(fs, inc)[n] = fs[Position(ServedAt(fs, inc), n)]
        BY <2>1, ServedFacts
    <2> QED
        BY <1>2, <2>2, <2>3, <2>4
<1> QED
    BY <1>2, <1>3, <1>4 DEF Alike

\* What the adapter leaves out, and why.
Skipped(es, inc) ==
    {[sat_id |-> p.id, reason |-> SkipReason(p)] :
        p \in {q \in ToSet(es) : IsPlatform(q) /\ ~IsServed(q, inc)}}

LEMMA AlikeSkipped ==
    ASSUME NEW es \in Seq(Entities), NEW fs \in Seq(Entities), Alike(es, fs), NEW inc \in BOOLEAN
    PROVE  Skipped(es, inc) \subseteq Skipped(fs, inc)
<1>1. SUFFICES ASSUME NEW p \in ToSet(es), IsPlatform(p), ~IsServed(p, inc)
               PROVE  \E q \in ToSet(fs) : /\ IsPlatform(q) /\ ~IsServed(q, inc)
                                           /\ q.id = p.id /\ SkipReason(q) = SkipReason(p)
    BY DEF Skipped
<1>2. PICK n \in DOMAIN es : p = es[n]
    BY DEF ToSet
<1>3. n \in DOMAIN fs /\ fs[n] \in ToSet(fs)
    BY <1>2 DEF Alike, ToSet
<1> QED
    BY <1>1, <1>2, <1>3 DEF Alike, IsPlatform, IsServed, IsExternal, SkipReason

LEMMA AlikeIsSymmetric ==
    ASSUME NEW es \in Seq(Entities), NEW fs \in Seq(Entities), Alike(es, fs)
    PROVE  Alike(fs, es)
  BY DEF Alike

\* The adapter gives the same elements, antennas and skips for both.
LEMMA AlikeElements ==
    ASSUME NEW es \in Seq(Entities), NEW fs \in Seq(Entities), Alike(es, fs), NEW inc \in BOOLEAN,
           NEW relationships, NEW t
    PROVE  platforms_to_elements(es, relationships, t, inc) =
           platforms_to_elements(fs, relationships, t, inc)
<1> DEFINE rows == Served(es, inc)
           rows2 == Served(fs, inc)
<1>1. Alike(rows, rows2) /\ rows \in Seq(Entities) /\ rows2 \in Seq(Entities)
    BY AlikeServed, ServedFacts
<1> HIDE DEF rows, rows2
<1>2. /\ DOMAIN rows = DOMAIN rows2 /\ (rows = <<>> <=> rows2 = <<>>)
      /\ \A n \in DOMAIN rows : rows[n].id = rows2[n].id /\ FirstKepler(rows[n]) = FirstKepler(rows2[n])
    BY <1>1 DEF Alike
<1>3. Epochs(rows) = Epochs(rows2)
    BY <1>2 DEF Epochs, ToSet
<1>4. RefEpoch(rows, t) = RefEpoch(rows2, t)
    BY <1>2, <1>3 DEF RefEpoch
<1> DEFINE u == RefEpoch(rows, t)
           Elem(p) == [a |-> FirstKepler(p).a, ecc |-> FirstKepler(p).ecc,
                       M |-> MeanAnomalyAt(FirstKepler(p), u)]
           Meta(p) == [sat_id |-> p.id, antenna_ids |-> antenna_ids_for(p.id, relationships)]
<1>5. [n \in DOMAIN rows |-> Elem(rows[n])] = [n \in DOMAIN rows2 |-> Elem(rows2[n])]
    BY <1>2
<1>6. [n \in DOMAIN rows |-> Meta(rows[n])] = [n \in DOMAIN rows2 |-> Meta(rows2[n])]
    BY <1>2
<1>7. Skipped(es, inc) = Skipped(fs, inc)
    <2>1. Skipped(es, inc) \subseteq Skipped(fs, inc)
        BY AlikeSkipped
    <2>2. Skipped(fs, inc) \subseteq Skipped(es, inc)
        BY AlikeSkipped, AlikeIsSymmetric
    <2> QED
        BY <2>1, <2>2
<1>8. platforms_to_elements(es, relationships, t, inc) =
        [elems |-> [n \in DOMAIN rows |-> Elem(rows[n])],
         meta |-> [n \in DOMAIN rows |-> Meta(rows[n])],
         skipped |-> Skipped(es, inc), ref_epoch_s |-> u]
    BY DEF platforms_to_elements, rows, Skipped
<1>9. platforms_to_elements(fs, relationships, t, inc) =
        [elems |-> [n \in DOMAIN rows2 |-> Elem(rows2[n])],
         meta |-> [n \in DOMAIN rows2 |-> Meta(rows2[n])],
         skipped |-> Skipped(fs, inc), ref_epoch_s |-> u]
    BY <1>4 DEF platforms_to_elements, rows2, Skipped
<1> QED
    BY <1>5, <1>6, <1>7, <1>8, <1>9

-----------------------------------------------------------------------------
(***************************************************************************)
(* What is read of a store                                                 *)
(***************************************************************************)
LEMMA ListingExists ==
    ASSUME NEW S, IsFiniteSet(S)
    PROVE  /\ Cardinality(S) \in Nat
           /\ SetToSeq(S) \in [1 .. Cardinality(S) -> S]
<1>1. Cardinality(S) \in Nat /\ ExistsBijection(1 .. Cardinality(S), S)
    BY FS_CardinalityType
<1>2. PICK f \in [1 .. Cardinality(S) -> S] : IsInjective(f)
    BY <1>1, Zenon DEF ExistsBijection, Bijection, Injection
<1>3. SetToSeq(S) \in [1 .. Cardinality(S) -> S] /\ IsInjective(SetToSeq(S))
    BY <1>2, Zenon DEF SetToSeq
<1> QED
    BY <1>1, <1>3

Present == {id \in Ids : platforms[id] # None}

PlatformsType == \A id \in Ids : platforms[id] = None \/ platforms[id] \in [motion : Motions, external : BOOLEAN]

\* A platform as it is read, in either representation.
LEMMA StoredType ==
    ASSUME NEW repr \in Reprs, NEW id \in Ids, NEW p \in [motion : Motions, external : BOOLEAN]
    PROVE  /\ AsStored(repr, id, p) \in Entities
           /\ FirstKepler(AsStored(repr, id, p)) =
                 IF p.motion # <<>> /\ p.motion[1].arm = "keplerian_elements"
                 THEN p.motion[1].kepler ELSE None
<1> DEFINE Motion == [arm : {"keplerian_elements"}, kepler : KeplerElements]
                       \cup [arm : {"geodetic_wgs84"}, kepler : {None}]
           stored == [n \in DOMAIN p.motion |->
                        [repr |-> repr, arm |-> p.motion[n].arm, kepler |-> p.motion[n].kepler]]
<1>1. p.motion \in Seq(Motion)
    BY RecordingAssumption
<1>2. \A n \in DOMAIN p.motion : /\ p.motion[n] \in Motion
                                 /\ stored[n] \in Entries
    <2>1. ASSUME NEW n \in DOMAIN p.motion
          PROVE  p.motion[n] \in Motion /\ stored[n] \in Entries
        <3>1. p.motion[n] \in Motion
            BY <1>1
        <3> QED
            BY <3>1 DEF Entries, Reprs
    <2> QED
        BY <2>1
<1>3. stored \in Seq(Entries) /\ DOMAIN stored = DOMAIN p.motion
    BY <1>1, <1>2
<1>4. AsStored(repr, id, p) = [id |-> id, kind |-> "ek_platform", repr |-> repr,
                               external |-> p.external, motion |-> stored]
    BY DEF AsStored
<1>5. AsStored(repr, id, p) \in Entities
    BY <1>3, <1>4 DEF Entities
<1>6. CASE p.motion = <<>>
    <2>1. stored = <<>>
        BY <1>6
    <2> QED
        BY <1>4, <1>5, <1>6, <2>1 DEF FirstKepler
<1>7. CASE p.motion # <<>>
    <2>1. 1 \in DOMAIN p.motion /\ stored # <<>>
        BY <1>1, <1>3, <1>7
    <2>2. stored[1] \in Entries /\ stored[1].arm = p.motion[1].arm /\ stored[1].kepler = p.motion[1].kepler
        BY <1>2, <2>1
    <2> QED
        BY <1>4, <1>5, <1>7, <2>1, <2>2, KeplerOfArm DEF FirstKepler
<1> QED
    BY <1>5, <1>6, <1>7

LEMMA ListedFacts ==
    ASSUME PlatformsType, NEW repr \in Reprs
    PROVE  Listed(repr) \in Seq(Entities)
<1> DEFINE present == SetToSeq(Present)
<1>1. IsFiniteSet(Present)
    BY RecordingAssumption, FS_Subset DEF Present
<1>2. Cardinality(Present) \in Nat /\ present \in [1 .. Cardinality(Present) -> Present]
    BY <1>1, ListingExists
<1>3. Listed(repr) = [n \in DOMAIN present |-> AsStored(repr, present[n], platforms[present[n]])]
    BY DEF Listed, Present
<1> HIDE DEF present
<1>4. \A n \in DOMAIN present : AsStored(repr, present[n], platforms[present[n]]) \in Entities
    BY <1>2, StoredType DEF Present, PlatformsType
<1> QED
    BY <1>2, <1>3, <1>4

\* The adapter reads messages and dictionaries alike.
LEMMA ReprsAlike ==
    ASSUME PlatformsType
    PROVE  Alike(Listed("proto"), Listed("dict"))
<1> DEFINE present == SetToSeq(Present)
<1>1. IsFiniteSet(Present)
    BY RecordingAssumption, FS_Subset DEF Present
<1>2. Cardinality(Present) \in Nat /\ present \in [1 .. Cardinality(Present) -> Present]
    BY <1>1, ListingExists
<1>3. \A repr \in Reprs :
        Listed(repr) = [n \in DOMAIN present |-> AsStored(repr, present[n], platforms[present[n]])]
    BY DEF Listed, Present
<1> HIDE DEF present
<1>4. "proto" \in Reprs /\ "dict" \in Reprs
    BY DEF Reprs
<1>5. DOMAIN Listed("proto") = DOMAIN present /\ Len(Listed("proto")) = Len(Listed("dict"))
    BY <1>2, <1>3, <1>4
<1>6. ASSUME NEW n \in DOMAIN present
      PROVE  LET e == Listed("proto")[n]
                 f == Listed("dict")[n]
             IN  e.id = f.id /\ e.kind = f.kind /\ e.external = f.external /\ FirstKepler(e) = FirstKepler(f)
    <2>1. present[n] \in Ids /\ platforms[present[n]] \in [motion : Motions, external : BOOLEAN]
        BY <1>2 DEF Present, PlatformsType
    <2>2. /\ Listed("proto")[n] = AsStored("proto", present[n], platforms[present[n]])
          /\ Listed("dict")[n] = AsStored("dict", present[n], platforms[present[n]])
        BY <1>3, <1>4
    <2>3. FirstKepler(Listed("proto")[n]) = FirstKepler(Listed("dict")[n])
        BY <1>4, <2>1, <2>2, StoredType
    <2> QED
        BY <2>2, <2>3 DEF AsStored
<1> QED
    BY <1>5, <1>6 DEF Alike

-----------------------------------------------------------------------------
(***************************************************************************)
(* Epochs are reconciled                                                   *)
(***************************************************************************)
\* The mean anomaly at u is that at t, moved on.
LEMMA AnomalyMovesOn ==
    ASSUME NEW kepler \in KeplerElements, NEW t \in Int, NEW u \in Int
    PROVE  MeanAnomalyAt(kepler, u) =
           (MeanAnomalyAt(kepler, t) + (MeanMotion[kepler.a] * (u - t))) % Circle
<1> DEFINE anomaly == MeanAnomaly[kepler.ecc][kepler.nu]
           n == MeanMotion[kepler.a]
           x == anomaly + (n * (t - kepler.epoch))
           y == n * (u - t)
<1>1. Circle \in Nat \ {0} /\ n \in Int /\ anomaly \in Int /\ kepler.epoch \in Int
    <2>1. kepler.a \in DOMAIN MeanMotion /\ kepler.ecc \in DOMAIN MeanAnomaly
          /\ kepler.nu \in 0 .. Circle - 1 /\ kepler.epoch \in Int
        BY DEF KeplerElements
    <2>2. MeanAnomaly[kepler.ecc] \in [0 .. Circle - 1 -> 0 .. Circle - 1]
        BY <2>1, NmtsAdapterAssumption
    <2>3. anomaly \in 0 .. Circle - 1 /\ Circle \in Nat \ {0}
        BY <2>1, <2>2, NmtsAdapterAssumption
    <2>4. n \in Nat
        BY <2>1, NmtsAdapterAssumption
    <2> QED
        BY <2>1, <2>3, <2>4
<1> HIDE DEF anomaly, n
<1>2. x \in Int /\ y \in Int
    BY <1>1
<1>3. x + y = anomaly + (n * (u - kepler.epoch))
    BY <1>1
<1> HIDE DEF x, y
<1>4. ((x % Circle) + y) % Circle = (x + y) % Circle
    BY <1>1, <1>2, ReduceThenAdd
<1> QED
    BY <1>3, <1>4 DEF MeanAnomalyAt, anomaly, n, x, y

LEMMA Reconciled ==
    ASSUME NEW es \in Seq(Entities), NEW relationships, NEW t \in Int, NEW u \in Int
    PROVE  platforms_to_elements(es, relationships, u, FALSE).elems =
           Propagated(platforms_to_elements(es, relationships, t, FALSE).elems, u - t)
<1> DEFINE rows == Served(es, FALSE)
           ElemsAt(w) == [n \in DOMAIN rows |->
                            [a |-> FirstKepler(rows[n]).a, ecc |-> FirstKepler(rows[n]).ecc,
                             M |-> MeanAnomalyAt(FirstKepler(rows[n]), w)]]
<1>1. \A n \in DOMAIN rows : FirstKepler(rows[n]) \in KeplerElements
    BY ServedFacts
<1>2. ASSUME NEW w \in Int
      PROVE  platforms_to_elements(es, relationships, w, FALSE).elems = ElemsAt(w)
    <2>1. RefEpoch(rows, w) = w
        BY NmtsAdapterAssumption DEF RefEpoch
    <2> QED
        BY <2>1 DEF platforms_to_elements
<1> HIDE DEF rows
<1>3. ASSUME NEW n \in DOMAIN rows
      PROVE  ElemsAt(u)[n] = [ElemsAt(t)[n] EXCEPT !.M = (@ + MeanMotion[ElemsAt(t)[n].a] * (u - t)) % Circle]
    BY <1>1, AnomalyMovesOn
<1>4. ElemsAt(u) = Propagated(ElemsAt(t), u - t)
    BY <1>3 DEF Propagated
<1> QED
    BY <1>2, <1>4

\* Platforms, intents and what was read of them are well formed.
HasRead ==
    /\ got = [entities |-> got.entities, relationships |-> got.relationships, states |-> got.states]
    /\ got.entities \in Seq(Entities)

ReadInv ==
    /\ stored_as \in Reprs /\ PlatformsType
    /\ \A n \in DOMAIN intents : intents[n] \in IntentStates
    /\ got # None \/ pc \in {"relationships", "intents"} => HasRead

LEMMA InitRead == ASSUME Init PROVE ReadInv
  BY DEF Init, ReadInv, Reprs, PlatformsType, HasRead

LEMMA StepRead == ASSUME ReadInv, [Next]_vars PROVE ReadInv'
<1>1. CASE ReadEntities
    <2>1. got' = [entities |-> Listed(stored_as), relationships |-> {}, states |-> <<>>]
        BY <1>1 DEF ReadEntities
    <2>2. Listed(stored_as) \in Seq(Entities)
        BY ListedFacts DEF ReadInv
    <2>3. HasRead'
        BY <2>1, <2>2 DEF HasRead
    <2> QED
        BY <1>1, <2>3 DEF ReadInv, ReadEntities, PlatformsType, store
<1>2. CASE StoreChanges
    <2>1. \A id \in Ids : platforms'[id] = None \/ platforms'[id] = platforms[id]
        <3>1. CASE UNCHANGED platforms
            BY <3>1
        <3>2. CASE \E d \in Ids : platforms' = [platforms EXCEPT ![d] = None]
            BY <3>2
        <3> QED
            BY <1>2, <3>1, <3>2 DEF StoreChanges
    <2>2. UNCHANGED <<stored_as, pc, got>>
        BY <1>2 DEF StoreChanges
    <2>3. \A n \in DOMAIN intents' : intents'[n] \in IntentStates
        <3>1. CASE UNCHANGED intents
            BY <3>1 DEF ReadInv
        <3>2. CASE \E i \in DOMAIN intents, s \in IntentStates : intents' = [intents EXCEPT ![i] = s]
            BY <3>2 DEF ReadInv
        <3> QED
            BY <1>2, <3>1, <3>2 DEF StoreChanges
    <2> QED
        BY <2>1, <2>2, <2>3 DEF ReadInv, PlatformsType, HasRead
<1>3. CASE ReadRelationships
    <2>1. HasRead /\ got' = [got EXCEPT !.relationships = rels]
        BY <1>3 DEF ReadInv, ReadRelationships
    <2>2. got' = [entities |-> got.entities, relationships |-> rels, states |-> got.states]
        BY <2>1 DEF HasRead
    <2>3. HasRead'
        BY <2>1, <2>2 DEF HasRead
    <2> QED
        BY <1>3, <2>3 DEF ReadInv, ReadRelationships, PlatformsType, store
<1>4. CASE ReadIntents
    <2>1. HasRead /\ got' = [got EXCEPT !.states = intents]
        BY <1>4 DEF ReadInv, ReadIntents
    <2>2. got' = [entities |-> got.entities, relationships |-> got.relationships, states |-> intents]
        BY <2>1 DEF HasRead
    <2>3. HasRead'
        BY <2>1, <2>2 DEF HasRead
    <2> QED
        BY <1>4, <2>3 DEF ReadInv, ReadIntents, PlatformsType, store
<1>5. CASE ReadFails \/ Open \/ Dump \/ DumpFails \/ UNCHANGED vars
    <2>1. UNCHANGED <<stored_as, platforms, intents, got>> /\ (pc' \in {"relationships", "intents"} => pc' = pc)
        BY <1>5 DEF ReadFails, Open, Dump, DumpFails, store, vars
    <2> QED
        BY <2>1 DEF ReadInv, PlatformsType, HasRead
<1> QED
    BY <1>1, <1>2, <1>3, <1>4, <1>5 DEF Next

LEMMA EpochsFollow == ASSUME ReadInv PROVE EpochsReconciled
<1>1. ASSUME got # None, NEW t \in 0 .. 2, NEW u \in 0 .. 2
      PROVE  platforms_to_elements(got.entities, got.relationships, u, FALSE).elems =
             Propagated(platforms_to_elements(got.entities, got.relationships, t, FALSE).elems, u - t)
    <2>1. got.entities \in Seq(Entities) /\ t \in Int /\ u \in Int
        BY <1>1 DEF ReadInv, HasRead
    <2> QED
        BY <2>1, Reconciled
<1>2. ASSUME NEW t
      PROVE  platforms_to_elements(Listed("proto"), rels, t, FALSE) =
             platforms_to_elements(Listed("dict"), rels, t, FALSE)
    <2> DEFINE es == Listed("proto")
               fs == Listed("dict")
    <2>1. es \in Seq(Entities) /\ fs \in Seq(Entities)
        BY ListedFacts DEF ReadInv, Reprs
    <2>2. Alike(es, fs)
        BY ReprsAlike DEF ReadInv
    <2> HIDE DEF es, fs
    <2>3. platforms_to_elements(es, rels, t, FALSE) = platforms_to_elements(fs, rels, t, FALSE)
        BY <2>1, <2>2, AlikeElements, ZenonT(60)
    <2> QED
        BY <2>3 DEF es, fs
<1> QED
    BY <1>1, <1>2 DEF EpochsReconciled

\* The elements describe one constellation whatever epoch they are asked for, from
\* messages as from dictionaries: for every store, anomaly table and motion.
THEOREM EpochsCorrect == Spec => []EpochsReconciled
<1>1. Init => ReadInv
    BY InitRead
<1>2. ReadInv /\ [Next]_vars => ReadInv'
    BY StepRead
<1>3. ReadInv => EpochsReconciled
    BY EpochsFollow
<1> QED
    BY <1>1, <1>2, <1>3, PTL DEF Spec

-----------------------------------------------------------------------------
(***************************************************************************)
(* A replay is the store that was recorded                                 *)
(***************************************************************************)
\* The representation of what was read.
ReadAs(repr, es) ==
    \A n \in DOMAIN es : /\ es[n].repr = repr
                         /\ \A m \in DOMAIN es[n].motion : es[n].motion[m].repr = repr

Projected(es) == [n \in DOMAIN es |-> ProjectEntity(es[n])]

LEMMA ProjectedEntry ==
    ASSUME NEW entry \in Entries, entry.repr = "dict"
    PROVE  /\ ProjectEntry(entry) \in Entries
           /\ KeplerOf(ProjectEntry(entry)) = KeplerOf(entry)
<1>1. CASE entry.arm = "keplerian_elements"
    <2>1. GetKepler(entry) = entry.kepler /\ entry.kepler \in KeplerElements
        BY <1>1 DEF GetKepler, Entries
    <2>2. GetKepler(entry) # None
        BY <2>1, RecordingAssumption
    <2>3. ProjectEntry(entry) = [repr |-> "dict", arm |-> "keplerian_elements", kepler |-> entry.kepler]
        BY <2>1, <2>2 DEF ProjectEntry
    <2>4. ProjectEntry(entry) \in Entries
        BY <2>1, <2>3 DEF Entries, Reprs
    <2> QED
        BY <1>1, <2>3, <2>4, KeplerOfArm
<1>2. CASE entry.arm # "keplerian_elements"
    <2>1. GetKepler(entry) = None
        BY <1>2 DEF GetKepler
    <2>2. ProjectEntry(entry) = [repr |-> "dict", arm |-> "motion_kind", kepler |-> None]
        BY <2>1 DEF ProjectEntry
    <2>3. ProjectEntry(entry) \in Entries
        BY <2>2 DEF Entries, Reprs
    <2> QED
        BY <1>2, <2>2, <2>3, KeplerOfArm
<1> QED
    BY <1>1, <1>2

\* The projection of a dictionary is one the adapter cannot tell from it.
LEMMA ProjectedEntity ==
    ASSUME NEW e \in Entities, e.repr = "dict", \A m \in DOMAIN e.motion : e.motion[m].repr = "dict"
    PROVE  LET p == ProjectEntity(e)
           IN  /\ p \in Entities /\ p.repr = "dict"
               /\ p.id = e.id /\ p.kind = e.kind /\ p.external = e.external
               /\ FirstKepler(p) = FirstKepler(e)
<1> DEFINE motion == [m \in DOMAIN e.motion |-> ProjectEntry(e.motion[m])]
<1>1. e.motion \in Seq(Entries) /\ e.external \in BOOLEAN
    BY DEF Entities
<1>2. \A m \in DOMAIN e.motion : /\ motion[m] \in Entries
                                 /\ KeplerOf(motion[m]) = KeplerOf(e.motion[m])
    BY <1>1, ProjectedEntry
<1>3. motion \in Seq(Entries) /\ DOMAIN motion = DOMAIN e.motion /\ (motion = <<>> <=> e.motion = <<>>)
    <2>1. DOMAIN motion = DOMAIN e.motion
        OBVIOUS
    <2>2. DOMAIN e.motion = 1 .. Len(e.motion) /\ Len(e.motion) \in Nat
        BY <1>1
    <2> HIDE DEF motion
    <2>3. motion \in Seq(Entries)
        <3>1. motion \in [1 .. Len(e.motion) -> Entries]
            <4>1. \A m \in DOMAIN e.motion : motion[m] \in Entries
                BY <1>2
            <4> QED
                BY <2>1, <2>2, <4>1 DEF motion
        <3> QED
            BY <2>2, <3>1
    <2>4. Len(motion) = Len(e.motion)
        BY <2>1, <2>2, <2>3
    <2> QED
        BY <1>1, <2>1, <2>3, <2>4
<1> HIDE DEF motion
<1>4. TruthyExternal(e) = e.external
    BY <1>1 DEF TruthyExternal
<1>5. ProjectEntity(e) = [id |-> e.id, kind |-> e.kind, repr |-> "dict", external |-> e.external,
                          motion |-> motion]
    BY <1>4 DEF ProjectEntity, motion
<1>6. FirstKepler(ProjectEntity(e)) = FirstKepler(e)
    <2>1. CASE e.motion = <<>>
        BY <1>3, <1>5, <2>1 DEF FirstKepler
    <2>2. CASE e.motion # <<>>
        <3>1. 1 \in DOMAIN e.motion /\ motion # <<>>
            BY <1>1, <1>3, <2>2
        <3> QED
            BY <1>2, <1>5, <2>2, <3>1 DEF FirstKepler
    <2> QED
        BY <2>1, <2>2
<1> QED
    BY <1>3, <1>5, <1>6 DEF Entities, Reprs

LEMMA ProjectedAlike ==
    ASSUME NEW es \in Seq(Entities), ReadAs("dict", es)
    PROVE  /\ Projected(es) \in Seq(Entities) /\ Alike(Projected(es), es)
           /\ \A n \in DOMAIN Projected(es) : Projected(es)[n].repr = "dict"
<1>1. ASSUME NEW n \in DOMAIN es
      PROVE  LET p == Projected(es)[n]
             IN  /\ p \in Entities /\ p.repr = "dict"
                 /\ p.id = es[n].id /\ p.kind = es[n].kind /\ p.external = es[n].external
                 /\ FirstKepler(p) = FirstKepler(es[n])
    <2>1. es[n] \in Entities
        OBVIOUS
    <2> QED
        BY <2>1, ProjectedEntity DEF ReadAs, Projected
<1>2. DOMAIN Projected(es) = DOMAIN es /\ Projected(es) \in Seq(Entities)
    BY <1>1 DEF Projected
<1> QED
    BY <1>1, <1>2 DEF Alike

LEMMA ListedReadAs == ASSUME PlatformsType, NEW repr PROVE ReadAs(repr, Listed(repr))
  BY DEF ReadAs, Listed, AsStored

\* A Keplerian first entry is kept in either representation; a message is external.
LEMMA FirstKept ==
    ASSUME NEW e \in Entities
    PROVE  LET p == ProjectEntity(e)
           IN  /\ p.id = e.id /\ p.kind = e.kind /\ p.repr = "dict"
               /\ e.repr = "proto" => p.external = TRUE
               /\ FirstKepler(e) # None => FirstKepler(p) = FirstKepler(e)
<1> DEFINE motion == [m \in DOMAIN e.motion |-> ProjectEntry(e.motion[m])]
<1>1. ProjectEntity(e) = [id |-> e.id, kind |-> e.kind, repr |-> "dict",
                          external |-> TruthyExternal(e), motion |-> motion]
    BY DEF ProjectEntity
<1>2. e.repr = "proto" => TruthyExternal(e) = TRUE
    BY DEF TruthyExternal
<1>3. ASSUME FirstKepler(e) # None
      PROVE  FirstKepler(ProjectEntity(e)) = FirstKepler(e)
    <2> DEFINE entry == e.motion[1]
    <2>1. e.motion # <<>> /\ KeplerOf(entry) = FirstKepler(e)
        BY <1>3 DEF FirstKepler
    <2>2. e.motion \in Seq(Entries)
        BY DEF Entities
    <2>3. 1 \in DOMAIN e.motion /\ entry \in Entries
        BY <2>1, <2>2
    <2> HIDE DEF entry
    <2>4. entry.arm = "keplerian_elements"
        BY <1>3, <2>1, <2>3, KeplerOfArm
    <2>5. entry.kepler = FirstKepler(e) /\ GetKepler(entry) = entry.kepler
        BY <2>1, <2>3, <2>4, KeplerOfArm DEF GetKepler
    <2>6. ProjectEntry(entry) = [repr |-> "dict", arm |-> "keplerian_elements", kepler |-> entry.kepler]
        BY <1>3, <2>5 DEF ProjectEntry
    <2>7. KeplerOf(ProjectEntry(entry)) = entry.kepler
        BY <2>6 DEF KeplerOf, GetKepler
    <2>8. motion[1] = ProjectEntry(entry) /\ motion # <<>>
        BY <2>3 DEF entry
    <2> HIDE DEF motion
    <2> QED
        BY <1>1, <2>5, <2>7, <2>8 DEF FirstKepler
<1> HIDE DEF motion
<1> QED
    BY <1>1, <1>2, <1>3

\* A Keplerian platform asked for by itself is served, as what its first entry says.
LEMMA OneServed ==
    ASSUME NEW e, e.kind = "ek_platform", FirstKepler(e) # None
    PROVE  Served(<<e>>, TRUE) = <<e>> /\ Skipped(<<e>>, TRUE) = {}
<1> DEFINE s == <<e>>
           P == {n \in DOMAIN s : IsPlatform(s[n]) /\ IsServed(s[n], TRUE)}
<1>1. s \in Seq({e}) /\ Len(s) = 1 /\ s[1] = e
    OBVIOUS
<1>2. IsPlatform(e) /\ IsServed(e, TRUE)
    BY DEF IsPlatform, IsServed
<1>3. Served(s, TRUE) = At(s, P)
    BY DEF Served
<1> HIDE DEF s
<1>4. DOMAIN s = {1}
    BY <1>1
<1>5. P = {1}
    BY <1>1, <1>2, <1>4
<1>6. Cardinality({1}) = 1
    BY FS_Singleton
<1>7. At(s, {1}) \in Seq({e}) /\ Len(At(s, {1})) = 1
    BY <1>1, <1>4, <1>6, AtFacts
<1>8. At(s, {1}) = s
    <2> DEFINE f == At(s, {1})
    <2>1. f \in Seq({e}) /\ Len(f) = 1
        BY <1>7
    <2> HIDE DEF f
    <2>2. f = s
        BY <1>1, <2>1
    <2> QED
        BY <2>2 DEF f
<1>9. Skipped(s, TRUE) = {}
    <2>1. \A q \in ToSet(s) : q = e
        BY <1>1, <1>4 DEF ToSet
    <2> QED
        BY <1>2, <2>1 DEF Skipped
<1> QED
    BY <1>3, <1>5, <1>8, <1>9 DEF s

LEMMA OneAlike ==
    ASSUME NEW e, e.kind = "ek_platform", FirstKepler(e) # None,
           NEW p, p.kind = e.kind, p.id = e.id, FirstKepler(p) = FirstKepler(e),
           NEW relationships, NEW t
    PROVE  platforms_to_elements(<<p>>, relationships, t, TRUE) =
           platforms_to_elements(<<e>>, relationships, t, TRUE)
<1> DEFINE k == FirstKepler(e)
           u == IF t # None THEN t ELSE Min({k.epoch})
           result ==
               [elems |-> <<[a |-> k.a, ecc |-> k.ecc, M |-> MeanAnomalyAt(k, u)]>>,
                meta |-> <<[sat_id |-> e.id, antenna_ids |-> antenna_ids_for(e.id, relationships)]>>,
                skipped |-> {}, ref_epoch_s |-> u]
<1>1. ASSUME NEW x, x.kind = "ek_platform", x.id = e.id, FirstKepler(x) = k
      PROVE  platforms_to_elements(<<x>>, relationships, t, TRUE) = result
    <2> DEFINE rows == Served(<<x>>, TRUE)
    <2>1. rows = <<x>> /\ Skipped(<<x>>, TRUE) = {}
        BY <1>1, OneServed
    <2>2. \A n \in DOMAIN <<x>> : <<x>>[n] = x
        OBVIOUS
    <2>3. Epochs(<<x>>) = {k.epoch}
        <3>1. ToSet(<<x>>) = {x}
            BY <2>2 DEF ToSet
        <3> QED
            BY <1>1, <3>1 DEF Epochs
    <2>4. RefEpoch(<<x>>, t) = u
        <3>1. <<x>> # <<>>
            OBVIOUS
        <3> QED
            BY <2>3, <3>1 DEF RefEpoch
    <2>5. platforms_to_elements(<<x>>, relationships, t, TRUE) =
            [elems |-> [n \in DOMAIN rows |->
                          [a |-> FirstKepler(rows[n]).a, ecc |-> FirstKepler(rows[n]).ecc,
                           M |-> MeanAnomalyAt(FirstKepler(rows[n]), RefEpoch(rows, t))]],
             meta |-> [n \in DOMAIN rows |->
                         [sat_id |-> rows[n].id,
                          antenna_ids |-> antenna_ids_for(rows[n].id, relationships)]],
             skipped |-> Skipped(<<x>>, TRUE), ref_epoch_s |-> RefEpoch(rows, t)]
        BY DEF platforms_to_elements, Skipped
    <2> HIDE DEF rows, u, k
    <2>6. [n \in DOMAIN <<x>> |->
             [a |-> FirstKepler(<<x>>[n]).a, ecc |-> FirstKepler(<<x>>[n]).ecc,
              M |-> MeanAnomalyAt(FirstKepler(<<x>>[n]), u)]] =
          <<[a |-> k.a, ecc |-> k.ecc, M |-> MeanAnomalyAt(k, u)]>>
        BY <1>1, <2>2 DEF k
    <2>7. [n \in DOMAIN <<x>> |->
             [sat_id |-> <<x>>[n].id, antenna_ids |-> antenna_ids_for(<<x>>[n].id, relationships)]] =
          <<[sat_id |-> e.id, antenna_ids |-> antenna_ids_for(e.id, relationships)]>>
        BY <1>1, <2>2
    <2> QED
        BY <2>1, <2>4, <2>5, <2>6, <2>7
<1> HIDE DEF result
<1>2. platforms_to_elements(<<e>>, relationships, t, TRUE) = result
    BY <1>1
<1>3. platforms_to_elements(<<p>>, relationships, t, TRUE) = result
    BY <1>1
<1> QED
    BY <1>2, <1>3

\* What record() holds is the projection of what the same reads gave.
ReplayInv ==
    /\ ReadInv
    /\ pc \in {"relationships", "intents", "open"} =>
          HasRead /\ ReadAs(stored_as, got.entities)
    /\ pc = "relationships" =>
          data = [entities |-> Projected(got.entities), relationships |-> {}, intents |-> <<>>]
    /\ pc = "intents" =>
          data = [entities |-> Projected(got.entities), relationships |-> got.relationships,
                  intents |-> <<>>]
    /\ pc = "open" =>
          data = [entities |-> Projected(got.entities), relationships |-> got.relationships,
                  intents |-> IntentsAsStored(got.states)]
    /\ pc = "open" => \A n \in DOMAIN got.states : got.states[n] \in IntentStates

LEMMA StepReplay == ASSUME ReplayInv, [Next]_vars PROVE ReplayInv'
<1>0. ReadInv /\ ReadInv'
    BY StepRead DEF ReplayInv
<1>1. CASE ReadEntities
    <2>1. /\ got' = [entities |-> Listed(stored_as), relationships |-> {}, states |-> <<>>]
          /\ data' = [entities |-> Projected(Listed(stored_as)), relationships |-> {}, intents |-> <<>>]
          /\ pc' = "relationships" /\ UNCHANGED stored_as
        BY <1>1 DEF ReadEntities, Projected, store
    <2>2. Listed(stored_as) \in Seq(Entities) /\ ReadAs(stored_as, Listed(stored_as))
        BY <1>0, ListedFacts, ListedReadAs DEF ReadInv
    <2>3. HasRead' /\ ReadAs(stored_as, got'.entities)
        BY <2>1, <2>2 DEF HasRead
    <2> QED
        BY <1>0, <2>1, <2>3 DEF ReplayInv
<1>2. CASE ReadRelationships
    <2>1. /\ HasRead /\ ReadAs(stored_as, got.entities)
          /\ data = [entities |-> Projected(got.entities), relationships |-> {}, intents |-> <<>>]
          /\ got' = [got EXCEPT !.relationships = rels]
          /\ data' = [data EXCEPT !.relationships = rels]
          /\ pc' = "intents" /\ UNCHANGED stored_as
        BY <1>2 DEF ReplayInv, ReadRelationships, store
    <2>2. got' = [entities |-> got.entities, relationships |-> rels, states |-> got.states]
        BY <2>1 DEF HasRead
    <2>3. data' = [entities |-> Projected(got.entities), relationships |-> rels, intents |-> <<>>]
        BY <2>1
    <2>4. HasRead' /\ ReadAs(stored_as, got'.entities)
        BY <2>1, <2>2 DEF HasRead
    <2> QED
        BY <1>0, <2>1, <2>2, <2>3, <2>4 DEF ReplayInv
<1>3. CASE ReadIntents
    <2>1. /\ HasRead /\ ReadAs(stored_as, got.entities)
          /\ data = [entities |-> Projected(got.entities), relationships |-> got.relationships,
                     intents |-> <<>>]
          /\ got' = [got EXCEPT !.states = intents]
          /\ data' = [data EXCEPT !.intents = IntentsAsStored(intents)]
          /\ pc' = "open" /\ UNCHANGED <<stored_as, intents>>
        BY <1>3 DEF ReplayInv, ReadIntents, store
    <2>2. got' = [entities |-> got.entities, relationships |-> got.relationships, states |-> intents]
        BY <2>1 DEF HasRead
    <2>3. data' = [entities |-> Projected(got.entities), relationships |-> got.relationships,
                   intents |-> IntentsAsStored(intents)]
        BY <2>1
    <2>4. HasRead' /\ ReadAs(stored_as, got'.entities)
        BY <2>1, <2>2 DEF HasRead
    <2>5. IntentsAsStored(got.states)' = IntentsAsStored(intents)
        BY <2>1, <2>2 DEF IntentsAsStored, StateAsStored
    <2>6. \A n \in DOMAIN got'.states : got'.states[n] \in IntentStates
        BY <1>0, <2>2 DEF ReadInv
    <2> QED
        BY <1>0, <2>1, <2>2, <2>3, <2>4, <2>5, <2>6 DEF ReplayInv
<1>4. CASE ReadFails \/ Open \/ Dump \/ DumpFails
    <2>1. pc' \in {"idle", "write"}
        BY <1>4 DEF ReadFails, Open, Dump, DumpFails
    <2> QED
        BY <1>0, <2>1 DEF ReplayInv
<1>5. CASE StoreChanges \/ UNCHANGED vars
    <2>1. UNCHANGED <<stored_as, pc, data, got>>
        BY <1>5 DEF StoreChanges, vars, store
    <2> QED
        BY <1>0, <2>1 DEF ReplayInv, HasRead, ReadAs, Projected, IntentsAsStored, StateAsStored
<1> QED
    BY <1>1, <1>2, <1>3, <1>4, <1>5 DEF Next

\* Of messages a replay serves nothing: each platform is projected as external.
LEMMA NothingServed ==
    ASSUME NEW es \in Seq(Entities), ReadAs("proto", es), NEW relationships
    PROVE  /\ platforms_to_elements(Projected(es), relationships, None, FALSE).elems = <<>>
           /\ platforms_to_elements(Projected(es), relationships, None, FALSE).meta = <<>>
           /\ probe_served(Projected(es)) = 0
<1> DEFINE fs == Projected(es)
           Seen == {n \in DOMAIN fs : /\ IsPlatform(fs[n]) /\ FirstKepler(fs[n]) # None
                                     /\ ~TruthyExternal(fs[n])}
<1>1. \A n \in DOMAIN fs : fs[n].external = TRUE
    <2>1. ASSUME NEW n \in DOMAIN es
          PROVE  ProjectEntity(es[n]).external = TRUE
        <3>1. es[n] \in Entities /\ es[n].repr = "proto"
            BY DEF ReadAs
        <3> QED
            BY <3>1, FirstKept
    <2> QED
        BY <2>1 DEF Projected
<1> HIDE DEF fs
<1>2. {n \in DOMAIN fs : IsPlatform(fs[n]) /\ IsServed(fs[n], FALSE)} = {} /\ Seen = {}
    BY <1>1 DEF IsServed, IsExternal, TruthyExternal
<1>3. Cardinality({}) = 0
    BY FS_EmptySet
<1>4. At(fs, {}) = <<>>
    BY <1>3 DEF At
<1>5. Served(fs, FALSE) = <<>>
    BY <1>2, <1>4 DEF Served
<1>6. probe_served(fs) = 0
    BY <1>2, <1>3 DEF probe_served
<1>7. /\ platforms_to_elements(fs, relationships, None, FALSE).elems = <<>>
      /\ platforms_to_elements(fs, relationships, None, FALSE).meta = <<>>
    <2> DEFINE rows == Served(fs, FALSE)
               u == RefEpoch(rows, None)
               elements == [n \in DOMAIN rows |->
                              [a |-> FirstKepler(rows[n]).a, ecc |-> FirstKepler(rows[n]).ecc,
                               M |-> MeanAnomalyAt(FirstKepler(rows[n]), u)]]
               meta == [n \in DOMAIN rows |->
                          [sat_id |-> rows[n].id,
                           antenna_ids |-> antenna_ids_for(rows[n].id, relationships)]]
    <2>1. /\ platforms_to_elements(fs, relationships, None, FALSE).elems = elements
          /\ platforms_to_elements(fs, relationships, None, FALSE).meta = meta
        BY DEF platforms_to_elements
    <2>2. rows = <<>>
        BY <1>5
    <2> HIDE DEF rows, u
    <2>3. elements = <<>> /\ meta = <<>>
        BY <2>2
    <2> QED
        BY <2>1, <2>3
<1> QED
    BY <1>6, <1>7 DEF fs

\* Of dictionaries it serves what the store served.
LEMMA ServedAlike ==
    ASSUME NEW es \in Seq(Entities), ReadAs("dict", es), NEW relationships
    PROVE  LET replay == platforms_to_elements(Projected(es), relationships, None, FALSE)
           IN  /\ replay = platforms_to_elements(es, relationships, None, FALSE)
               /\ probe_served(Projected(es)) = Len(replay.elems)
<1> DEFINE fs == Projected(es)
<1>1. /\ fs \in Seq(Entities) /\ Alike(fs, es)
      /\ \A n \in DOMAIN fs : fs[n].repr = "dict"
    BY ProjectedAlike
<1> HIDE DEF fs
<1>2. platforms_to_elements(fs, relationships, None, FALSE) =
      platforms_to_elements(es, relationships, None, FALSE)
    <2>1. FALSE \in BOOLEAN
        OBVIOUS
    <2> QED
        BY <1>1, <2>1, AlikeElements, ZenonT(60)
<1>3. probe_served(fs) = Cardinality(ServedAt(fs, FALSE))
    <2>1. \A n \in DOMAIN fs : fs[n].external \in BOOLEAN
        <3>1. \A n \in DOMAIN fs : fs[n] \in Entities
            BY <1>1
        <3> QED
            BY <3>1 DEF Entities
    <2>2. \A n \in DOMAIN fs : ~TruthyExternal(fs[n]) <=> ~IsExternal(fs[n])
        BY <1>1, <2>1 DEF TruthyExternal, IsExternal
    <2>3. ServedAt(fs, FALSE) =
            {n \in DOMAIN fs : IsPlatform(fs[n]) /\ FirstKepler(fs[n]) # None /\ ~TruthyExternal(fs[n])}
        BY <2>2 DEF ServedAt, IsServed
    <2> QED
        BY <2>3 DEF probe_served
<1>4. Len(platforms_to_elements(fs, relationships, None, FALSE).elems) = Len(Served(fs, FALSE))
    <2> DEFINE rows == Served(fs, FALSE)
               u == RefEpoch(rows, None)
               elements == [n \in DOMAIN rows |->
                              [a |-> FirstKepler(rows[n]).a, ecc |-> FirstKepler(rows[n]).ecc,
                               M |-> MeanAnomalyAt(FirstKepler(rows[n]), u)]]
    <2>1. rows \in Seq(Entities)
        BY <1>1, ServedFacts
    <2>2. platforms_to_elements(fs, relationships, None, FALSE).elems = elements
        BY DEF platforms_to_elements
    <2> HIDE DEF rows, u
    <2>3. Len(elements) = Len(rows)
        BY <2>1
    <2> QED
        BY <2>2, <2>3 DEF rows
<1>5. Len(Served(fs, FALSE)) = Cardinality(ServedAt(fs, FALSE))
    BY <1>1, ServedFacts
<1> QED
    BY <1>2, <1>3, <1>4, <1>5 DEF fs

LEMMA ReplayFollows == ASSUME ReplayInv PROVE ReplayIsLive
<1>1. SUFFICES ASSUME pc = "open"
               PROVE  /\ DOMAIN data.entities = DOMAIN got.entities
                      /\ \A n \in DOMAIN got.entities, t \in {None} \cup 0 .. 2 :
                            FirstKepler(got.entities[n]) # None =>
                               OnePlatform(data, n, t) = OnePlatform(got, n, t)
                      /\ ToSet(Replayed(data).meta) \subseteq ToSet(Live.meta)
                      /\ probe_served(data.entities) = Len(Replayed(data).elems)
                      /\ \A s \in IntentStates :
                            MemoryWithState(data.intents, StateAsStored(s)) = WithState(got.states, s)
                      /\ stored_as = "dict" => Replayed(data) = Live
    BY DEF ReplayIsLive
<1> DEFINE es == got.entities
           fs == Projected(es)
<1>2. /\ es \in Seq(Entities) /\ ReadAs(stored_as, es)
      /\ data.entities = fs /\ data.relationships = got.relationships
      /\ data.intents = IntentsAsStored(got.states)
      /\ \A n \in DOMAIN got.states : got.states[n] \in IntentStates
    BY <1>1 DEF ReplayInv, HasRead
<1>3. DOMAIN fs = DOMAIN es
    BY DEF Projected
<1>4. ASSUME NEW n \in DOMAIN es, NEW t, FirstKepler(es[n]) # None
      PROVE  OnePlatform(data, n, t) = OnePlatform(got, n, t)
    <2>1. es[n] \in Entities
        BY <1>2
    <2>2. fs[n] = ProjectEntity(es[n])
        BY DEF Projected
    <2>3. /\ es[n].kind = "ek_platform"
          /\ fs[n].kind = es[n].kind /\ fs[n].id = es[n].id /\ FirstKepler(fs[n]) = FirstKepler(es[n])
        BY <1>4, <2>1, <2>2, FirstKept DEF Entities
    <2>4. platforms_to_elements(<<fs[n]>>, got.relationships, t, TRUE) =
          platforms_to_elements(<<es[n]>>, got.relationships, t, TRUE)
        <3> DEFINE e == es[n]
                   p == fs[n]
        <3>1. /\ e.kind = "ek_platform" /\ FirstKepler(e) # None
              /\ p.kind = e.kind /\ p.id = e.id /\ FirstKepler(p) = FirstKepler(e)
            BY <1>4, <2>3
        <3> HIDE DEF e, p
        <3>2. platforms_to_elements(<<p>>, got.relationships, t, TRUE) =
              platforms_to_elements(<<e>>, got.relationships, t, TRUE)
            BY <3>1, OneAlike, ZenonT(120)
        <3> QED
            BY <3>2 DEF e, p
    <2> QED
        BY <1>2, <2>4 DEF OnePlatform
<1>5. ASSUME NEW s \in IntentStates
      PROVE  MemoryWithState(data.intents, StateAsStored(s)) = WithState(got.states, s)
    <2>1. \A n \in DOMAIN got.states : StateAsStored(got.states[n]) = StateAsStored(s) <=> got.states[n] = s
        BY <1>2, RecordingAssumption DEF StateAsStored
    <2> QED
        BY <1>2, <2>1 DEF MemoryWithState, WithState, IntentsAsStored
<1> HIDE DEF es, fs
<1>6. /\ Replayed(data) = platforms_to_elements(fs, got.relationships, None, FALSE)
      /\ Live = platforms_to_elements(es, got.relationships, None, FALSE)
    BY <1>2 DEF Replayed, Live, es
<1>7. CASE stored_as = "dict"
    <2>1. Replayed(data) = Live /\ probe_served(fs) = Len(Replayed(data).elems)
        BY <1>2, <1>6, <1>7, ServedAlike DEF fs
    <2> QED
        BY <1>2, <1>3, <1>4, <1>5, <2>1 DEF es
<1>8. CASE stored_as = "proto"
    <2>1. Replayed(data).elems = <<>> /\ Replayed(data).meta = <<>> /\ probe_served(fs) = 0
        BY <1>2, <1>6, <1>8, NothingServed DEF fs
    <2>2. ToSet(<<>>) = {} /\ Len(<<>>) = 0
        BY DEF ToSet
    <2> QED
        BY <1>2, <1>3, <1>4, <1>5, <1>8, <2>1, <2>2 DEF es
<1>9. stored_as \in {"dict", "proto"}
    BY DEF ReplayInv, ReadInv, Reprs
<1> QED
    BY <1>7, <1>8, <1>9

\* What "identical read surface, offline" comes to, for every store however it changes
\* between the reads.  Of dictionaries a recording replays all its reads gave.  Of
\* messages it keeps each Keplerian platform's elements and antennas and the numbers
\* of the intents' states, and serves nothing that was not served.
THEOREM ReplayCorrect == Spec => []ReplayIsLive
<1>1. Init => ReplayInv
    BY InitRead DEF Init, ReplayInv
<1>2. ReplayInv /\ [Next]_vars => ReplayInv'
    BY StepReplay
<1>3. ReplayInv => ReplayIsLive
    BY ReplayFollows
<1> QED
    BY <1>1, <1>2, <1>3, PTL DEF Spec

-----------------------------------------------------------------------------
(***************************************************************************)
(* The rows of a generated model                                           *)
(***************************************************************************)
Blocks == [id : Gen!IdRecords, grid : {None} \cup (Nat \X Nat), kepler : KeplerElements \cup {None}]

Distinct(bs) == \A b, c \in DOMAIN bs : bs[b].id = bs[c].id => b = c

IdsOf(bs) == {bs[b].id : b \in DOMAIN bs}

\* Blocks with new ids put behind others.
LEMMA BlocksAppended ==
    ASSUME NEW bs \in Seq(Blocks), NEW new \in Seq(Blocks), Distinct(bs), Distinct(new),
           IdsOf(bs) \cap IdsOf(new) = {}
    PROVE  /\ bs \o new \in Seq(Blocks) /\ Distinct(bs \o new)
           /\ IdsOf(bs \o new) = IdsOf(bs) \cup IdsOf(new)
<1> DEFINE both == bs \o new
<1>1. /\ both \in Seq(Blocks) /\ Len(both) = Len(bs) + Len(new)
      /\ DOMAIN both = 1 .. Len(bs) + Len(new)
      /\ \A b \in DOMAIN both : both[b] = IF b <= Len(bs) THEN bs[b] ELSE new[b - Len(bs)]
    OBVIOUS
<1>2. Len(bs) \in Nat /\ Len(new) \in Nat /\ DOMAIN bs = 1 .. Len(bs) /\ DOMAIN new = 1 .. Len(new)
    OBVIOUS
<1> HIDE DEF both
<1>3. \A b \in DOMAIN both : \/ b \in DOMAIN bs /\ both[b] = bs[b]
                             \/ b - Len(bs) \in DOMAIN new /\ both[b] = new[b - Len(bs)]
    BY <1>1, <1>2
<1>4. \A b \in DOMAIN bs : b \in DOMAIN both /\ both[b] = bs[b]
    BY <1>1, <1>2
<1>5. \A b \in DOMAIN new : b + Len(bs) \in DOMAIN both /\ both[b + Len(bs)] = new[b]
    BY <1>1, <1>2
<1>6. IdsOf(both) = IdsOf(bs) \cup IdsOf(new)
    BY <1>3, <1>4, <1>5 DEF IdsOf
<1>7. ASSUME NEW b \in DOMAIN both, NEW c \in DOMAIN both, both[b].id = both[c].id
      PROVE  b = c
    <2>1. CASE b \in DOMAIN bs /\ both[b] = bs[b]
        <3>1. bs[b].id \in IdsOf(bs)
            BY <2>1 DEF IdsOf
        <3>2. ~(c - Len(bs) \in DOMAIN new /\ both[c] = new[c - Len(bs)])
            BY <1>7, <2>1, <3>1 DEF IdsOf
        <3>3. c \in DOMAIN bs /\ both[c] = bs[c]
            BY <1>3, <3>2
        <3> QED
            BY <1>7, <2>1, <3>3 DEF Distinct
    <2>2. CASE b - Len(bs) \in DOMAIN new /\ both[b] = new[b - Len(bs)]
        <3>1. new[b - Len(bs)].id \in IdsOf(new)
            BY <2>2 DEF IdsOf
        <3>2. ~(c \in DOMAIN bs /\ both[c] = bs[c])
            BY <1>7, <2>2, <3>1 DEF IdsOf
        <3>3. c - Len(bs) \in DOMAIN new /\ both[c] = new[c - Len(bs)]
            BY <1>3, <3>2
        <3>4. b - Len(bs) = c - Len(bs)
            BY <1>7, <2>2, <3>3 DEF Distinct
        <3> QED
            BY <1>1, <1>2, <3>4
    <2> QED
        BY <1>3, <2>1, <2>2
<1> QED
    BY <1>1, <1>6, <1>7 DEF both, Distinct

\* The generator's copies of operators are those of this module.
LEMMA GenCardinality == ASSUME NEW S PROVE Gen!Cardinality(S) = Cardinality(S)
  BY Zenon DEF Gen!Cardinality, Cardinality

LEMMA GenAt == ASSUME NEW s, NEW P PROVE Gen!At(s, P) = At(s, P)
  BY Zenon DEF Gen!At, Gen!Position, At, Position, Gen!Cardinality, Cardinality

LEMMA GenToSet == ASSUME NEW s PROVE Gen!ToSet(s) = ToSet(s)
  BY Zenon DEF Gen!ToSet, ToSet

\* Collecting entries of a sequence without repetitions repeats none.
LEMMA AtInjective ==
    ASSUME NEW S, NEW s \in Seq(S), IsInjective(s), NEW P \in SUBSET (DOMAIN s),
           NEW j \in DOMAIN At(s, P), NEW k \in DOMAIN At(s, P), At(s, P)[j] = At(s, P)[k]
    PROVE  j = k
<1>1. /\ IsFiniteSet(P) /\ Cardinality(P) \in Nat /\ DOMAIN At(s, P) = 1 .. Cardinality(P)
      /\ At(s, P)[j] = s[Position(P, j)] /\ At(s, P)[k] = s[Position(P, k)]
      /\ Position(P, j) \in P /\ Position(P, k) \in P
    BY AtFacts DEF At
<1>2. Position(P, j) = Position(P, k)
    BY <1>1 DEF IsInjective
<1>3. P \in SUBSET Int
    OBVIOUS
<1>4. j \in 1 .. Cardinality(P) /\ k \in 1 .. Cardinality(P) /\ j \in Int /\ k \in Int
    BY <1>1
<1>5. ~(j < k) /\ ~(k < j)
    <2>1. Position(P, j) \in Int
        BY <1>1, <1>3
    <2>2. ~(Position(P, j) < Position(P, k)) /\ ~(Position(P, k) < Position(P, j))
        BY <1>2, <2>1
    <2> QED
        BY <1>1, <1>3, <1>4, <2>2, PositionsGrow
<1> QED
    BY <1>4, <1>5

-----------------------------------------------------------------------------
(***************************************************************************)
(* What build_model has generated so far                                   *)
(***************************************************************************)
Ents == ToSet(template.ents)

Kept == {x \in Ents : Gen!PassesThrough(x)}

\* The ids of the k-th clone of a subtree, and of the first n.
Clone(family, k) == {Gen!Renumbered(x, k) : x \in {y \in Ents : Gen!IsTemplate(y, family)}}
ClonesUpTo(family, n) == UNION {Clone(family, k) : k \in 1 .. n}

\* Satellites and terminals cloned so far.
SatsDone == CASE gen = "sort" -> 0 [] gen = "satellites" -> cloned [] OTHER -> Len(elems)
UtsDone == IF gen \in {"sort", "satellites"} THEN 0 ELSE cloned

ElementRows == [a : DOMAIN MeanMotion, ecc : DOMAIN MeanAnomaly, M : 0 .. Circle - 1]

ArgumentsType ==
    /\ template \in Templates /\ n_sites \in Nat /\ ref_epoch_s \in Int
    /\ elems \in Seq(ElementRows) /\ plane_uid \in Seq(Int) /\ Len(plane_uid) = Len(elems)

LoopType ==
    /\ gen \in {"sort", "satellites", "terminals", "done"} /\ cloned \in Nat
    /\ gen \in {"sort", "satellites"} => cloned <= Len(elems)
    /\ gen \in {"terminals", "done"} => cloned <= n_sites
    /\ gen = "done" => cloned = n_sites
    /\ slot_count \in [0 .. Cardinality(ToSet(plane_uid)) - 1 -> Nat]

\* The blocks are the kept ones and the clones, each once.
BlocksBuilt ==
    /\ out \in Seq(Blocks) /\ Distinct(out)
    /\ gen = "sort" => out = <<>>
    /\ gen # "sort" =>
          IdsOf(out) = Kept \cup ClonesUpTo("satellite", SatsDone) \cup ClonesUpTo("user-terminal", UtsDone)

\* Ends of relationships and of demands are among them.
EndsBuilt ==
    /\ out_rels \in Seq([a : Gen!IdRecords, z : Gen!IdRecords])
    /\ prov \in Seq([head : Gen!IdRecords, end : Gen!IdRecords])
    /\ gen = "sort" => out_rels = <<>> /\ prov = <<>>
    /\ \A r \in ToSet(out_rels) : r.a \in IdsOf(out) /\ r.z \in IdsOf(out)
    /\ \A d \in ToSet(prov) : d.head \in IdsOf(out) /\ d.end \in IdsOf(out)

GenInv == ArgumentsType /\ LoopType /\ BlocksBuilt /\ EndsBuilt

LEMMA TemplateFacts ==
    ASSUME ArgumentsType
    PROVE  /\ template.ents \in Seq(Gen!IdRecords) /\ IsInjective(template.ents)
           /\ template.rels \in Seq([a : Ents, z : Ents])
           /\ {Gen!PopRoute, Gen!Id("user-terminal", 1, "route-fn"), Gen!Id("satellite", 1, "platform")}
                 \subseteq Ents
           /\ \A x \in Ents : x \in Gen!IdRecords
<1>1. /\ template.ents \in Seq(Gen!IdRecords) /\ Gen!IsInjective(template.ents)
      /\ template.rels \in Seq([a : Gen!ToSet(template.ents), z : Gen!ToSet(template.ents)])
      /\ {Gen!PopRoute, Gen!Id("user-terminal", 1, "route-fn"), Gen!Id("satellite", 1, "platform")}
            \subseteq Gen!ToSet(template.ents)
    BY ConstellationAssumption DEF ArgumentsType, Gen!ModelGenAssumption
<1>2. Gen!ToSet(template.ents) = Ents
    BY GenToSet DEF Ents
<1>3. IsInjective(template.ents)
    BY <1>1, Zenon DEF IsInjective, Gen!IsInjective
<1>4. \A x \in Ents : x \in Gen!IdRecords
    BY <1>1 DEF Ents, ToSet
<1> QED
    BY <1>1, <1>2, <1>3, <1>4

\* The template of a family, in the order of the file.
LEMMA TemplateOfFacts ==
    ASSUME ArgumentsType, NEW family
    PROVE  LET tpl == Gen!TemplateOf(family)
           IN  /\ tpl \in Seq(Gen!IdRecords) /\ ToSet(tpl) = {y \in Ents : Gen!IsTemplate(y, family)}
               /\ \A b, c \in DOMAIN tpl : tpl[b] = tpl[c] => b = c
<1> DEFINE s == template.ents
           P == {n \in DOMAIN s : Gen!IsTemplate(s[n], family)}
<1>1. Gen!TemplateOf(family) = At(s, P)
    BY GenAt DEF Gen!TemplateOf
<1>2. s \in Seq(Gen!IdRecords) /\ IsInjective(s) /\ P \in SUBSET (DOMAIN s) /\ Ents = {s[n] : n \in DOMAIN s}
    BY TemplateFacts DEF Ents, ToSet
<1>3. {s[n] : n \in P} = {y \in Ents : Gen!IsTemplate(y, family)}
    BY <1>2
<1> HIDE DEF s, P
<1>4. At(s, P) \in Seq(Gen!IdRecords) /\ ToSet(At(s, P)) = {s[n] : n \in P}
    BY <1>2, AtFacts
<1>5. \A b, c \in DOMAIN At(s, P) : At(s, P)[b] = At(s, P)[c] => b = c
    BY <1>2, AtInjective
<1> QED
    BY <1>1, <1>3, <1>4, <1>5

LEMMA RenumberedId ==
    ASSUME NEW x \in Gen!IdRecords, NEW k \in Nat
    PROVE  /\ Gen!Renumbered(x, k) = [family |-> x.family, number |-> k, part |-> x.part]
           /\ Gen!Renumbered(x, k) \in Gen!IdRecords
  BY DEF Gen!IdRecords, Gen!Renumbered

\* Renumbering tells ids of one number apart.
LEMMA RenumberedApart ==
    ASSUME NEW x \in Gen!IdRecords, NEW y \in Gen!IdRecords, x.number = y.number, NEW k \in Nat,
           Gen!Renumbered(x, k) = Gen!Renumbered(y, k)
    PROVE  x = y
<1>1. Gen!Renumbered(x, k).family = x.family /\ Gen!Renumbered(x, k).part = x.part
    BY RenumberedId
<1>2. Gen!Renumbered(y, k).family = y.family /\ Gen!Renumbered(y, k).part = y.part
    BY RenumberedId
<1>3. x = [family |-> x.family, number |-> x.number, part |-> x.part]
    BY DEF Gen!IdRecords
<1>4. y = [family |-> y.family, number |-> y.number, part |-> y.part]
    BY DEF Gen!IdRecords
<1>5. x.family = y.family /\ x.part = y.part
    BY <1>1, <1>2
<1> QED
    BY <1>3, <1>4, <1>5

\* Blocks made of a template for number k have the ids of the k-th clone, each once.
LEMMA CloneBlocks ==
    ASSUME ArgumentsType, NEW family, NEW k \in Nat,
           NEW bs \in [DOMAIN Gen!TemplateOf(family) -> Blocks],
           \A b \in DOMAIN bs : bs[b].id = Gen!Renumbered(Gen!TemplateOf(family)[b], k)
    PROVE  bs \in Seq(Blocks) /\ Distinct(bs) /\ IdsOf(bs) = Clone(family, k)
<1> DEFINE tpl == Gen!TemplateOf(family)
<1>1. /\ tpl \in Seq(Gen!IdRecords) /\ ToSet(tpl) = {y \in Ents : Gen!IsTemplate(y, family)}
      /\ \A b, c \in DOMAIN tpl : tpl[b] = tpl[c] => b = c
    BY TemplateOfFacts
<1>2. \A b \in DOMAIN tpl : tpl[b] \in Gen!IdRecords /\ tpl[b].number = 1 /\ bs[b].id = Gen!Renumbered(tpl[b], k)
    BY <1>1 DEF ToSet, Gen!IsTemplate
<1> HIDE DEF tpl
<1>3. DOMAIN bs = DOMAIN tpl
    BY DEF tpl
<1>4. bs \in Seq(Blocks)
    <2>1. DOMAIN tpl = 1 .. Len(tpl) /\ Len(tpl) \in Nat
        BY <1>1
    <2>2. bs \in [1 .. Len(tpl) -> Blocks]
        BY <1>3, <2>1
    <2> QED
        BY <2>1, <2>2
<1>5. ASSUME NEW b \in DOMAIN tpl, NEW c \in DOMAIN tpl, bs[b].id = bs[c].id
      PROVE  b = c
    <2>1. Gen!Renumbered(tpl[b], k) = Gen!Renumbered(tpl[c], k)
        BY <1>2, <1>5
    <2>2. tpl[b] = tpl[c]
        BY <1>2, <2>1, RenumberedApart
    <2> QED
        BY <1>1, <2>2
<1>6. IdsOf(bs) = {Gen!Renumbered(x, k) : x \in ToSet(tpl)}
    BY <1>2, <1>3 DEF IdsOf, ToSet
<1> QED
    BY <1>1, <1>3, <1>4, <1>5, <1>6 DEF Distinct, Clone

\* Ids of clones have the family and the number they were made for; kept ids none
\* of the families that are cloned.
LEMMA CloneIds ==
    ASSUME ArgumentsType
    PROVE  /\ \A family : \A k \in Nat : \A x \in Clone(family, k) : x.family = family /\ x.number = k
           /\ \A x \in Kept : x.family \notin {"satellite", "user-terminal"}
<1>1. ASSUME NEW family, NEW k \in Nat, NEW x \in Clone(family, k)
      PROVE  x.family = family /\ x.number = k
    <2>1. PICK y \in Ents : Gen!IsTemplate(y, family) /\ x = Gen!Renumbered(y, k)
        BY DEF Clone
    <2>2. y \in Gen!IdRecords
        BY TemplateFacts
    <2> QED
        BY <2>1, <2>2 DEF Gen!IdRecords, Gen!Renumbered, Gen!IsTemplate
<1>2. \A x \in Kept : x.family \notin {"satellite", "user-terminal"}
    BY DEF Kept, Gen!PassesThrough, Gen!Clones
<1> QED
    BY <1>1, <1>2

\* The relationships kept of a template renumber to pairs of the k-th clone.
LEMMA CloneRels ==
    ASSUME ArgumentsType, NEW family, NEW k \in Nat
    PROVE  LET new == Gen!RenumberedRels(Gen!KeptRels(family), k)
           IN  /\ new \in Seq([a : Gen!IdRecords, z : Gen!IdRecords])
               /\ \A r \in ToSet(new) : r.a \in Clone(family, k) /\ r.z \in Clone(family, k)
<1> DEFINE s == template.rels
           P == {n \in DOMAIN s : Gen!IsTemplate(s[n].a, family) /\ Gen!IsTemplate(s[n].z, family)}
           kept == At(s, P)
           new == [r \in DOMAIN kept |-> [a |-> Gen!Renumbered(kept[r].a, k), z |-> Gen!Renumbered(kept[r].z, k)]]
<1>1. Gen!KeptRels(family) = kept
    BY GenAt DEF Gen!KeptRels
<1>2. s \in Seq([a : Ents, z : Ents]) /\ P \in SUBSET (DOMAIN s)
    BY TemplateFacts
<1>3. kept \in Seq([a : Ents, z : Ents]) /\ ToSet(kept) = {s[n] : n \in P}
    BY <1>2, AtFacts
<1> HIDE DEF kept
<1>4. ASSUME NEW r \in DOMAIN kept
      PROVE  /\ new[r].a \in Clone(family, k) /\ new[r].z \in Clone(family, k)
             /\ new[r] \in [a : Gen!IdRecords, z : Gen!IdRecords]
    <2>1. kept[r] \in [a : Ents, z : Ents] /\ kept[r] \in {s[n] : n \in P}
        <3>1. kept[r] \in ToSet(kept)
            BY DEF ToSet
        <3> HIDE DEF P, s
        <3>2. kept[r] \in {s[n] : n \in P}
            BY <1>3, <3>1
        <3>3. kept[r] \in [a : Ents, z : Ents]
            <4> DEFINE Pairs == [a : Ents, z : Ents]
            <4>1. kept \in Seq(Pairs)
                BY <1>3
            <4> HIDE DEF Pairs
            <4>2. kept[r] \in Pairs
                BY <4>1
            <4> QED
                BY <4>2 DEF Pairs
        <3> QED
            BY <3>2, <3>3
    <2>2. Gen!IsTemplate(kept[r].a, family) /\ Gen!IsTemplate(kept[r].z, family)
        BY <2>1
    <2>3. kept[r].a \in Gen!IdRecords /\ kept[r].z \in Gen!IdRecords
        BY <2>1, TemplateFacts
    <2> QED
        BY <2>1, <2>2, <2>3, RenumberedId DEF Clone
<1> HIDE DEF kept, P, s
<1>5. new \in Seq([a : Gen!IdRecords, z : Gen!IdRecords])
    <2>1. DOMAIN kept = 1 .. Len(kept) /\ Len(kept) \in Nat
        BY <1>3
    <2>2. new \in [1 .. Len(kept) -> [a : Gen!IdRecords, z : Gen!IdRecords]]
        BY <1>4, <2>1
    <2> QED
        BY <2>1, <2>2
<1>6. \A r \in ToSet(new) : r.a \in Clone(family, k) /\ r.z \in Clone(family, k)
    BY <1>4 DEF ToSet
<1>7. Gen!RenumberedRels(Gen!KeptRels(family), k) = new
    BY <1>1 DEF Gen!RenumberedRels
<1> QED
    BY <1>5, <1>6, <1>7

LEMMA ToSetConcat ==
    ASSUME NEW S, NEW s \in Seq(S), NEW t \in Seq(S)
    PROVE  s \o t \in Seq(S) /\ ToSet(s \o t) = ToSet(s) \cup ToSet(t)
<1> DEFINE both == s \o t
<1>1. /\ both \in Seq(S) /\ DOMAIN both = 1 .. Len(s) + Len(t)
      /\ \A b \in DOMAIN both : both[b] = IF b <= Len(s) THEN s[b] ELSE t[b - Len(s)]
      /\ Len(s) \in Nat /\ Len(t) \in Nat /\ DOMAIN s = 1 .. Len(s) /\ DOMAIN t = 1 .. Len(t)
    OBVIOUS
<1> HIDE DEF both
<1>2. \A b \in DOMAIN both : both[b] \in ToSet(s) \cup ToSet(t)
    <2>1. \A b \in DOMAIN both : \/ b \in DOMAIN s /\ both[b] = s[b]
                                 \/ b - Len(s) \in DOMAIN t /\ both[b] = t[b - Len(s)]
        BY <1>1
    <2> QED
        BY <2>1 DEF ToSet
<1>3. \A b \in DOMAIN s : b \in DOMAIN both /\ both[b] = s[b]
    BY <1>1
<1>4. \A b \in DOMAIN t : b + Len(s) \in DOMAIN both /\ both[b + Len(s)] = t[b]
    BY <1>1
<1>5. ToSet(both) = ToSet(s) \cup ToSet(t)
    BY <1>2, <1>3, <1>4 DEF ToSet
<1> QED
    BY <1>1, <1>5 DEF both

LEMMA ClonesUpToNext ==
    ASSUME NEW family, NEW n \in Nat
    PROVE  /\ ClonesUpTo(family, n + 1) = ClonesUpTo(family, n) \cup Clone(family, n + 1)
           /\ ClonesUpTo(family, 0) = {}
<1>1. 1 .. n + 1 = (1 .. n) \cup {n + 1} /\ 1 .. 0 = {}
    OBVIOUS
<1>2. \A x : x \in ClonesUpTo(family, n + 1) <=> x \in ClonesUpTo(family, n) \/ x \in Clone(family, n + 1)
    BY <1>1 DEF ClonesUpTo
<1>3. ClonesUpTo(family, 0) = {}
    BY <1>1 DEF ClonesUpTo
<1> QED
    BY <1>2, <1>3

\* The slots are counted per plane in use.
LEMMA PlaneInUse ==
    ASSUME ArgumentsType, NEW s \in 1 .. Len(elems)
    PROVE  Gen!PlaneRank(plane_uid[s]) \in 0 .. Cardinality(ToSet(plane_uid)) - 1
<1> DEFINE uids == ToSet(plane_uid)
           lower == {q \in uids : q < plane_uid[s]}
<1>1. DOMAIN plane_uid = 1 .. Len(elems) /\ Len(elems) \in Nat
    BY DEF ArgumentsType
<1>2. IsFiniteSet(uids)
    <2>1. IsFiniteSet(1 .. Len(elems))
        BY <1>1, FS_Interval
    <2>2. [n \in 1 .. Len(elems) |-> plane_uid[n]] \in Surjection(1 .. Len(elems), uids)
        BY <1>1 DEF Surjection, ToSet
    <2> QED
        BY <2>1, <2>2, FS_Surjection
<1>3. plane_uid[s] \in uids /\ lower \in SUBSET uids /\ plane_uid[s] \notin lower
    <2>1. plane_uid[s] \in Int
        BY <1>1 DEF ArgumentsType
    <2> QED
        BY <1>1, <2>1 DEF ToSet
<1> HIDE DEF uids, lower
<1>4. /\ IsFiniteSet(lower) /\ Cardinality(lower) <= Cardinality(uids)
      /\ Cardinality(lower) # Cardinality(uids)
    BY <1>2, <1>3, FS_Subset
<1>5. Cardinality(lower) \in Nat /\ Cardinality(uids) \in Nat
    BY <1>2, <1>4, FS_CardinalityType
<1>6. Gen!PlaneRank(plane_uid[s]) = Cardinality(lower)
    BY GenToSet, GenCardinality DEF Gen!PlaneRank, lower, uids
<1> QED
    BY <1>4, <1>5, <1>6 DEF uids

LEMMA InitGen == ASSUME Gen!Init PROVE GenInv
<1>1. PICK c \in Constellations : elems = c.elems /\ plane_uid = c.plane_uid
    BY DEF Gen!Init
<1>2. /\ plane_uid \in Seq(Int) /\ Len(plane_uid) = Len(elems) /\ elems \in Seq(ElementRows)
      /\ n_sites \in Nat /\ ref_epoch_s \in Int
    <2>1. /\ c.plane_uid \in Seq(Int) /\ Len(c.plane_uid) = Len(c.elems) /\ c.elems \in Seq(ElementRows)
          /\ Sites \subseteq Nat /\ RefEpochs \subseteq Int
        BY ConstellationAssumption DEF Gen!ModelGenAssumption, ElementRows
    <2> QED
        BY <1>1, <2>1 DEF Gen!Init
<1>3. ArgumentsType
    BY <1>2 DEF ArgumentsType, Gen!Init
<1>4. slot_count \in [0 .. Cardinality(ToSet(plane_uid)) - 1 -> Nat]
    BY GenCardinality, GenToSet DEF Gen!Init
<1>5. Len(elems) \in Nat
    BY <1>2
<1>6. LoopType
    BY <1>4, <1>5 DEF LoopType, Gen!Init
<1>7. BlocksBuilt
    BY DEF BlocksBuilt, Distinct, Gen!Init
<1>8. EndsBuilt
    <2>1. ToSet(out_rels) = {} /\ ToSet(prov) = {}
        BY DEF ToSet, Gen!Init
    <2> QED
        BY <2>1 DEF EndsBuilt, Gen!Init
<1> QED
    BY <1>3, <1>6, <1>7, <1>8 DEF GenInv

\* The entities and relationships that pass through.
LEMMA KeptBlocks ==
    ASSUME ArgumentsType
    PROVE  LET kept == Gen!At(template.ents, {n \in DOMAIN template.ents : Gen!PassesThrough(template.ents[n])})
               bs == [b \in DOMAIN kept |-> Gen!Block(kept[b])]
           IN  bs \in Seq(Blocks) /\ Distinct(bs) /\ IdsOf(bs) = Kept
<1> DEFINE s == template.ents
           P == {n \in DOMAIN s : Gen!PassesThrough(s[n])}
           kept == At(s, P)
           bs == [b \in DOMAIN kept |-> Gen!Block(kept[b])]
<1>1. s \in Seq(Gen!IdRecords) /\ IsInjective(s) /\ P \in SUBSET (DOMAIN s) /\ Ents = {s[n] : n \in DOMAIN s}
    BY TemplateFacts DEF Ents, ToSet
<1>2. {s[n] : n \in P} = Kept
    BY <1>1 DEF Kept
<1>3. kept \in Seq(Gen!IdRecords) /\ ToSet(kept) = Kept
    <2> HIDE DEF s, P
    <2> QED
        BY <1>1, <1>2, AtFacts, ZenonT(60)
<1>4. \A b, c \in DOMAIN kept : kept[b] = kept[c] => b = c
    <2> HIDE DEF s, P
    <2> QED
        BY <1>1, AtInjective
<1>5. Gen!At(s, P) = kept
    BY GenAt
<1> HIDE DEF kept
<1>6. \A b \in DOMAIN kept : bs[b] = [id |-> kept[b], grid |-> None, kepler |-> None]
    BY DEF Gen!Block
<1>7. \A b \in DOMAIN kept : kept[b] \in Gen!IdRecords
    BY <1>3
<1>8. bs \in Seq(Blocks)
    <2>1. DOMAIN kept = 1 .. Len(kept) /\ Len(kept) \in Nat
        BY <1>3
    <2>2. \A b \in DOMAIN kept : bs[b] \in Blocks
        BY <1>6, <1>7 DEF Blocks
    <2>3. bs \in [1 .. Len(kept) -> Blocks]
        BY <2>1, <2>2
    <2> QED
        BY <2>1, <2>3
<1>9. Distinct(bs)
    BY <1>4, <1>6 DEF Distinct
<1>10. IdsOf(bs) = Kept
    BY <1>3, <1>6 DEF IdsOf, ToSet
<1> QED
    BY <1>5, <1>8, <1>9, <1>10

LEMMA KeptRelationships ==
    ASSUME ArgumentsType
    PROVE  LET rs == Gen!At(template.rels, {n \in DOMAIN template.rels :
                                               /\ Gen!PassesThrough(template.rels[n].a)
                                               /\ Gen!PassesThrough(template.rels[n].z)})
           IN  /\ rs \in Seq([a : Gen!IdRecords, z : Gen!IdRecords])
               /\ \A r \in ToSet(rs) : r.a \in Kept /\ r.z \in Kept
<1> DEFINE s == template.rels
           P == {n \in DOMAIN s : Gen!PassesThrough(s[n].a) /\ Gen!PassesThrough(s[n].z)}
           Pairs == [a : Ents, z : Ents]
<1>1. s \in Seq(Pairs) /\ P \in SUBSET (DOMAIN s)
    BY TemplateFacts
<1>2. Pairs \subseteq [a : Gen!IdRecords, z : Gen!IdRecords]
    BY TemplateFacts
<1>3. \A n \in P : s[n] \in Pairs /\ Gen!PassesThrough(s[n].a) /\ Gen!PassesThrough(s[n].z)
    <2>1. \A n \in DOMAIN s : s[n] \in Pairs
        <3> HIDE DEF Pairs
        <3> QED
            BY <1>1
    <2> QED
        BY <2>1
<1>4. \A n \in P : s[n].a \in Kept /\ s[n].z \in Kept
    BY <1>3 DEF Kept
<1>5. Gen!At(s, P) = At(s, P)
    BY GenAt
<1> HIDE DEF s, P, Pairs
<1>6. At(s, P) \in Seq(Pairs) /\ ToSet(At(s, P)) = {s[n] : n \in P}
    BY <1>1, AtFacts
<1>7. At(s, P) \in Seq([a : Gen!IdRecords, z : Gen!IdRecords])
    <2> DEFINE Ends == [a : Gen!IdRecords, z : Gen!IdRecords]
    <2>1. Pairs \subseteq Ends
        BY <1>2
    <2> HIDE DEF Ends
    <2>2. At(s, P) \in Seq(Ends)
        BY <1>6, <2>1
    <2> QED
        BY <2>2 DEF Ends
<1>8. \A r \in ToSet(At(s, P)) : r.a \in Kept /\ r.z \in Kept
    BY <1>4, <1>6
<1> QED
    BY <1>5, <1>7, <1>8 DEF s, P


LEMMA StepSort == ASSUME GenInv, Gen!Sort PROVE GenInv'
<1> DEFINE kept == Gen!At(template.ents, {n \in DOMAIN template.ents : Gen!PassesThrough(template.ents[n])})
           bs == [b \in DOMAIN kept |-> Gen!Block(kept[b])]
           rs == Gen!At(template.rels, {n \in DOMAIN template.rels :
                                           /\ Gen!PassesThrough(template.rels[n].a)
                                           /\ Gen!PassesThrough(template.rels[n].z)})
<1>1. /\ gen = "sort" /\ gen' = "satellites" /\ cloned' = 0 /\ out' = bs /\ out_rels' = rs
      /\ UNCHANGED <<template, elems, plane_uid, n_sites, ref_epoch_s, slot_count, prov>>
    BY DEF Gen!Sort, Gen!arguments
<1>2. ArgumentsType /\ bs \in Seq(Blocks) /\ Distinct(bs) /\ IdsOf(bs) = Kept
    BY KeptBlocks DEF GenInv
<1>3. /\ rs \in Seq([a : Gen!IdRecords, z : Gen!IdRecords])
      /\ \A r \in ToSet(rs) : r.a \in Kept /\ r.z \in Kept
    BY <1>2, KeptRelationships
<1> HIDE DEF kept, bs, rs
<1>4. ArgumentsType'
    BY <1>1, <1>2 DEF ArgumentsType
<1>5. LoopType'
    <2>1. Len(elems) \in Nat
        BY <1>2 DEF ArgumentsType
    <2> QED
        BY <1>1, <2>1 DEF LoopType, GenInv
<1>6. BlocksBuilt'
    <2>1. Kept' = Kept
        BY <1>1 DEF Kept, Ents
    <2>2. SatsDone' = 0 /\ UtsDone' = 0
        BY <1>1 DEF SatsDone, UtsDone
    <2>3. ClonesUpTo("satellite", 0) = {} /\ ClonesUpTo("user-terminal", 0) = {}
        BY ClonesUpToNext
    <2>4. ClonesUpTo("satellite", SatsDone)' = {} /\ ClonesUpTo("user-terminal", UtsDone)' = {}
        BY <2>2 DEF ClonesUpTo
    <2>5. (Distinct(out))' /\ (IdsOf(out))' = Kept
        BY <1>1, <1>2 DEF Distinct, IdsOf
    <2> QED
        BY <1>1, <1>2, <2>1, <2>4, <2>5 DEF BlocksBuilt
<1>7. EndsBuilt'
    <2>1. prov = <<>>
        BY <1>1 DEF GenInv, EndsBuilt
    <2>2. (IdsOf(out))' = Kept /\ ToSet(out_rels)' = ToSet(rs) /\ ToSet(prov)' = {}
        BY <1>1, <1>2, <2>1 DEF IdsOf, ToSet
    <2> QED
        BY <1>1, <1>3, <2>1, <2>2 DEF EndsBuilt
<1> QED
    BY <1>4, <1>5, <1>6, <1>7 DEF GenInv

\* Numbers not cloned yet are in no id of the family.
LEMMA NotYetCloned ==
    ASSUME GenInv, gen # "sort", NEW k \in Nat, NEW family \in {"satellite", "user-terminal"},
           k > IF family = "satellite" THEN SatsDone ELSE UtsDone
    PROVE  IdsOf(out) \cap Clone(family, k) = {}
<1>1. IdsOf(out) = Kept \cup ClonesUpTo("satellite", SatsDone) \cup ClonesUpTo("user-terminal", UtsDone)
    BY DEF GenInv, BlocksBuilt
<1>2. SatsDone \in Nat /\ UtsDone \in Nat
    BY DEF GenInv, ArgumentsType, LoopType, SatsDone, UtsDone
<1>3. \A f : \A j \in Nat : \A x \in Clone(f, j) : x.family = f /\ x.number = j
    BY CloneIds DEF GenInv
<1>4. \A x \in Kept : x.family \notin {"satellite", "user-terminal"}
    BY CloneIds DEF GenInv
<1>5. ASSUME NEW x \in IdsOf(out), x.family = family
      PROVE  x.number < k
    <2>1. PICK f \in {"satellite", "user-terminal"} :
              x \in ClonesUpTo(f, IF f = "satellite" THEN SatsDone ELSE UtsDone)
        BY <1>1, <1>4, <1>5
    <2>2. PICK j \in 1 .. (IF f = "satellite" THEN SatsDone ELSE UtsDone) : x \in Clone(f, j)
        BY <2>1 DEF ClonesUpTo
    <2>3. x.family = f /\ x.number = j /\ j \in Nat
        BY <1>2, <1>3, <2>2
    <2> QED
        BY <1>2, <1>5, <2>2, <2>3
<1>6. ASSUME NEW x \in IdsOf(out) \cap Clone(family, k)
      PROVE  FALSE
    <2>1. x.family = family /\ x.number = k
        BY <1>3
    <2> QED
        BY <1>5, <2>1
<1> QED
    BY <1>6

LEMMA CloneAppended ==
    ASSUME GenInv, gen # "sort", NEW k \in Nat, NEW family \in {"satellite", "user-terminal"},
           k > IF family = "satellite" THEN SatsDone ELSE UtsDone,
           NEW bs \in [DOMAIN Gen!TemplateOf(family) -> Blocks],
           \A b \in DOMAIN bs : bs[b].id = Gen!Renumbered(Gen!TemplateOf(family)[b], k)
    PROVE  /\ out \o bs \in Seq(Blocks) /\ Distinct(out \o bs)
           /\ IdsOf(out \o bs) = IdsOf(out) \cup Clone(family, k)
<1>1. bs \in Seq(Blocks) /\ Distinct(bs) /\ IdsOf(bs) = Clone(family, k)
    BY CloneBlocks DEF GenInv
<1>2. out \in Seq(Blocks) /\ Distinct(out)
    BY DEF GenInv, BlocksBuilt
<1>3. IdsOf(out) \cap IdsOf(bs) = {}
    BY <1>1, NotYetCloned
<1> QED
    BY <1>1, <1>2, <1>3, BlocksAppended

LEMMA RelsAppended ==
    ASSUME GenInv, NEW k \in Nat, NEW family
    PROVE  LET rs == out_rels \o Gen!RenumberedRels(Gen!KeptRels(family), k)
           IN  /\ rs \in Seq([a : Gen!IdRecords, z : Gen!IdRecords])
               /\ \A r \in ToSet(rs) : r \in ToSet(out_rels) \/ (r.a \in Clone(family, k) /\ r.z \in Clone(family, k))
<1> DEFINE Ends == [a : Gen!IdRecords, z : Gen!IdRecords]
           new == Gen!RenumberedRels(Gen!KeptRels(family), k)
<1>1. new \in Seq(Ends) /\ \A r \in ToSet(new) : r.a \in Clone(family, k) /\ r.z \in Clone(family, k)
    BY CloneRels DEF GenInv
<1>2. out_rels \in Seq(Ends)
    BY DEF GenInv, EndsBuilt
<1> HIDE DEF Ends, new
<1>3. out_rels \o new \in Seq(Ends) /\ ToSet(out_rels \o new) = ToSet(out_rels) \cup ToSet(new)
    BY <1>1, <1>2, ToSetConcat
<1> QED
    BY <1>1, <1>3 DEF Ends, new

LEMMA BlockType ==
    ASSUME NEW id \in Gen!IdRecords
    PROVE  Gen!Block(id) \in Blocks /\ Gen!Block(id).id = id /\ Gen!Block(id).kepler = None
  BY DEF Gen!Block, Blocks

LEMMA PatchedType ==
    ASSUME GenInv, NEW s \in 1 .. Len(elems)
    PROVE  Gen!PatchedKepler(s) \in KeplerElements /\ Gen!PatchedKepler(s) # None
<1>1. elems \in Seq(ElementRows) /\ ref_epoch_s \in Int
    BY DEF GenInv, ArgumentsType
<1>2. elems[s] \in ElementRows
    <2> HIDE DEF ElementRows
    <2> QED
        BY <1>1
<1>3. Gen!PatchedKepler(s) \in KeplerElements
    BY <1>1, <1>2 DEF Gen!PatchedKepler, KeplerElements, ElementRows
<1> QED
    BY <1>3, RecordingAssumption

LEMMA SatelliteBlockType ==
    ASSUME GenInv, NEW s \in 1 .. Len(elems), NEW id \in Gen!IdRecords
    PROVE  Gen!SatelliteBlock(id, s) \in Blocks
<1>1. /\ Gen!SatelliteBlock(id, s) =
            [id |-> Gen!Renumbered(id, s),
             grid |-> <<Gen!PlaneRank(plane_uid[s]) + 1, Gen!SlotOf(s)>>,
             kepler |-> IF id.part = "platform" THEN Gen!PatchedKepler(s) ELSE None]
    BY DEF Gen!SatelliteBlock
<1>2. s \in Nat /\ Gen!Renumbered(id, s) \in Gen!IdRecords
    BY RenumberedId DEF GenInv, ArgumentsType
<1>3. Gen!PlaneRank(plane_uid[s]) \in 0 .. Cardinality(ToSet(plane_uid)) - 1
    BY PlaneInUse DEF GenInv
<1>4. slot_count \in [0 .. Cardinality(ToSet(plane_uid)) - 1 -> Nat]
    BY DEF GenInv, LoopType
<1>5. Gen!SlotOf(s) \in Nat
    BY <1>3, <1>4 DEF Gen!SlotOf
<1>6. <<Gen!PlaneRank(plane_uid[s]) + 1, Gen!SlotOf(s)>> \in Nat \X Nat
    BY <1>3, <1>5
<1>7. Gen!PatchedKepler(s) \in KeplerElements
    BY PatchedType
<1> QED
    BY <1>1, <1>2, <1>6, <1>7 DEF Blocks

LEMMA StepSatellite == ASSUME GenInv, Gen!Satellite PROVE GenInv'
<1> DEFINE k == cloned + 1
           tpl == Gen!TemplateOf("satellite")
           bs == [b \in DOMAIN tpl |-> Gen!SatelliteBlock(tpl[b], k)]
           new == Gen!RenumberedRels(Gen!KeptRels("satellite"), k)
<1>1. /\ gen = "satellites" /\ cloned < Len(elems) /\ cloned' = k /\ gen' = gen
      /\ slot_count' = [slot_count EXCEPT ![Gen!PlaneRank(plane_uid[k])] = @ + 1]
      /\ out' = out \o bs /\ out_rels' = out_rels \o new
      /\ UNCHANGED <<template, elems, plane_uid, n_sites, ref_epoch_s, prov>>
    BY DEF Gen!Satellite, Gen!arguments
<1>2. /\ Len(elems) \in Nat /\ cloned \in Nat /\ k \in Nat /\ k \in 1 .. Len(elems)
      /\ SatsDone = cloned /\ UtsDone = 0
    BY <1>1 DEF GenInv, ArgumentsType, LoopType, SatsDone, UtsDone
<1>3. /\ tpl \in Seq(Gen!IdRecords)
      /\ \A b \in DOMAIN tpl : tpl[b] \in Gen!IdRecords
    BY TemplateOfFacts DEF GenInv
<1>4. /\ bs \in [DOMAIN tpl -> Blocks] /\ DOMAIN bs = DOMAIN tpl
      /\ \A b \in DOMAIN bs : bs[b].id = Gen!Renumbered(tpl[b], k)
    <2>1. \A b \in DOMAIN tpl : Gen!SatelliteBlock(tpl[b], k) \in Blocks
        BY <1>2, <1>3, SatelliteBlockType
    <2>2. \A b \in DOMAIN tpl : Gen!SatelliteBlock(tpl[b], k).id = Gen!Renumbered(tpl[b], k)
        BY DEF Gen!SatelliteBlock
    <2> HIDE DEF tpl
    <2> QED
        BY <2>1, <2>2
<1> HIDE DEF bs, new
<1>5. /\ out' \in Seq(Blocks) /\ (Distinct(out))'
      /\ (IdsOf(out))' = IdsOf(out) \cup Clone("satellite", k)
    <2>1. gen # "sort" /\ k > SatsDone
        BY <1>1, <1>2
    <2>2. /\ out \o bs \in Seq(Blocks) /\ Distinct(out \o bs)
          /\ IdsOf(out \o bs) = IdsOf(out) \cup Clone("satellite", k)
        BY <1>2, <1>4, <2>1, CloneAppended
    <2> QED
        BY <1>1, <2>2 DEF Distinct, IdsOf
<1> HIDE DEF tpl
<1>6. ArgumentsType'
    BY <1>1 DEF ArgumentsType, GenInv
<1>7. LoopType'
    <2>1. slot_count' \in [0 .. Cardinality(ToSet(plane_uid)) - 1 -> Nat]
        <3> DEFINE Planes == 0 .. Cardinality(ToSet(plane_uid)) - 1
                   p == Gen!PlaneRank(plane_uid[k])
        <3>1. slot_count \in [Planes -> Nat]
            BY DEF GenInv, LoopType
        <3>2. p \in Planes
            BY <1>2, PlaneInUse DEF GenInv
        <3> HIDE DEF Planes, p
        <3>3. slot_count[p] + 1 \in Nat
            BY <3>1, <3>2
        <3>4. [slot_count EXCEPT ![p] = @ + 1] \in [Planes -> Nat]
            BY <3>1, <3>3
        <3>5. slot_count' = [slot_count EXCEPT ![p] = @ + 1]
            BY <1>1 DEF p
        <3> QED
            BY <3>4, <3>5 DEF Planes
    <2> QED
        BY <1>1, <1>2, <2>1 DEF LoopType
<1>8. BlocksBuilt'
    <2>1. SatsDone' = k /\ UtsDone' = 0
        BY <1>1 DEF SatsDone, UtsDone
    <2>2. IdsOf(out) = Kept \cup ClonesUpTo("satellite", cloned) \cup ClonesUpTo("user-terminal", 0)
        BY <1>1, <1>2 DEF GenInv, BlocksBuilt
    <2>3. ClonesUpTo("satellite", k) = ClonesUpTo("satellite", cloned) \cup Clone("satellite", k)
        BY <1>2, ClonesUpToNext
    <2>4. /\ Kept' = Kept /\ ClonesUpTo("satellite", SatsDone)' = ClonesUpTo("satellite", k)
          /\ ClonesUpTo("user-terminal", UtsDone)' = ClonesUpTo("user-terminal", 0)
        BY <1>1, <2>1 DEF Kept, Ents, ClonesUpTo, Clone
    <2>5. (IdsOf(out))' = Kept \cup ClonesUpTo("satellite", k) \cup ClonesUpTo("user-terminal", 0)
        BY <1>5, <2>2, <2>3
    <2> QED
        BY <1>1, <1>5, <2>4, <2>5 DEF BlocksBuilt
<1>9. EndsBuilt'
    <2>1. /\ out_rels' \in Seq([a : Gen!IdRecords, z : Gen!IdRecords])
          /\ \A r \in ToSet(out_rels)' : r \in ToSet(out_rels)
                \/ (r.a \in Clone("satellite", k) /\ r.z \in Clone("satellite", k))
        <3>1. ToSet(out_rels)' = ToSet(out_rels \o new)
            BY <1>1 DEF ToSet
        <3> QED
            BY <1>1, <1>2, <3>1, RelsAppended DEF new
    <2>2. ToSet(prov)' = ToSet(prov)
        BY <1>1 DEF ToSet
    <2> QED
        BY <1>1, <1>5, <2>1, <2>2 DEF EndsBuilt, GenInv
<1> QED
    BY <1>6, <1>7, <1>8, <1>9 DEF GenInv

LEMMA StepTerminal == ASSUME GenInv, Gen!Terminal PROVE GenInv'
<1> DEFINE k == cloned + 1
           tpl == Gen!TemplateOf("user-terminal")
           bs == [b \in DOMAIN tpl |-> Gen!Block(Gen!Renumbered(tpl[b], k))]
           new == Gen!RenumberedRels(Gen!KeptRels("user-terminal"), k)
           demands == <<[head |-> Gen!PopRoute, end |-> Gen!TerminalRoute(k)],
                        [head |-> Gen!TerminalRoute(k), end |-> Gen!PopRoute]>>
<1>1. /\ gen = "terminals" /\ cloned < n_sites /\ cloned' = k /\ gen' = gen
      /\ out' = out \o bs /\ out_rels' = out_rels \o new /\ prov' = prov \o demands
      /\ UNCHANGED <<template, elems, plane_uid, n_sites, ref_epoch_s, slot_count>>
    BY DEF Gen!Terminal, Gen!arguments
<1>2. /\ Len(elems) \in Nat /\ n_sites \in Nat /\ cloned \in Nat /\ k \in Nat /\ k <= n_sites
      /\ SatsDone = Len(elems) /\ UtsDone = cloned
    BY <1>1 DEF GenInv, ArgumentsType, LoopType, SatsDone, UtsDone
<1>3. /\ tpl \in Seq(Gen!IdRecords)
      /\ \A b \in DOMAIN tpl : tpl[b] \in Gen!IdRecords
    BY TemplateOfFacts DEF GenInv
<1>4. /\ bs \in [DOMAIN tpl -> Blocks] /\ DOMAIN bs = DOMAIN tpl
      /\ \A b \in DOMAIN bs : bs[b].id = Gen!Renumbered(tpl[b], k)
    <2>1. \A b \in DOMAIN tpl : Gen!Renumbered(tpl[b], k) \in Gen!IdRecords
        BY <1>2, <1>3, RenumberedId
    <2>2. \A b \in DOMAIN tpl : /\ Gen!Block(Gen!Renumbered(tpl[b], k)) \in Blocks
                                /\ Gen!Block(Gen!Renumbered(tpl[b], k)).id = Gen!Renumbered(tpl[b], k)
        BY <2>1, BlockType
    <2> HIDE DEF tpl
    <2> QED
        BY <2>2
<1> HIDE DEF bs, new
<1>5. /\ out' \in Seq(Blocks) /\ (Distinct(out))'
      /\ (IdsOf(out))' = IdsOf(out) \cup Clone("user-terminal", k)
    <2>1. gen # "sort" /\ k > UtsDone
        BY <1>1, <1>2
    <2>2. /\ out \o bs \in Seq(Blocks) /\ Distinct(out \o bs)
          /\ IdsOf(out \o bs) = IdsOf(out) \cup Clone("user-terminal", k)
        BY <1>2, <1>4, <2>1, CloneAppended
    <2> QED
        BY <1>1, <2>2 DEF Distinct, IdsOf
<1> HIDE DEF tpl
<1>6. ArgumentsType'
    BY <1>1 DEF ArgumentsType, GenInv
<1>7. LoopType'
    <2>1. slot_count' \in [0 .. Cardinality(ToSet(plane_uid)) - 1 -> Nat]'
        BY <1>1 DEF GenInv, LoopType
    <2> QED
        BY <1>1, <1>2, <2>1 DEF LoopType
<1>8. BlocksBuilt'
    <2>1. SatsDone' = Len(elems) /\ UtsDone' = k
        BY <1>1 DEF SatsDone, UtsDone
    <2>2. IdsOf(out) = Kept \cup ClonesUpTo("satellite", Len(elems)) \cup ClonesUpTo("user-terminal", cloned)
        BY <1>1, <1>2 DEF GenInv, BlocksBuilt
    <2>3. ClonesUpTo("user-terminal", k) = ClonesUpTo("user-terminal", cloned) \cup Clone("user-terminal", k)
        BY <1>2, ClonesUpToNext
    <2>4. /\ Kept' = Kept /\ ClonesUpTo("satellite", SatsDone)' = ClonesUpTo("satellite", Len(elems))
          /\ ClonesUpTo("user-terminal", UtsDone)' = ClonesUpTo("user-terminal", k)
        BY <1>1, <2>1 DEF Kept, Ents, ClonesUpTo, Clone
    <2>5. (IdsOf(out))' = Kept \cup ClonesUpTo("satellite", Len(elems)) \cup ClonesUpTo("user-terminal", k)
        BY <1>5, <2>2, <2>3
    <2> QED
        BY <1>1, <1>5, <2>4, <2>5 DEF BlocksBuilt
<1>9. Gen!PopRoute \in IdsOf(out) /\ Gen!TerminalRoute(k) \in Clone("user-terminal", k)
    <2>1. /\ {Gen!PopRoute, Gen!Id("user-terminal", 1, "route-fn")} \subseteq Ents
          /\ Gen!PopRoute \in Gen!IdRecords
        BY TemplateFacts DEF GenInv
    <2>2. Gen!PopRoute \in Kept
        BY <2>1 DEF Kept, Gen!PassesThrough, Gen!Clones, Gen!PopRoute, Gen!Id
    <2>3. Gen!IsTemplate(Gen!Id("user-terminal", 1, "route-fn"), "user-terminal")
        BY DEF Gen!IsTemplate, Gen!Id
    <2>4. Gen!TerminalRoute(k) = Gen!Renumbered(Gen!Id("user-terminal", 1, "route-fn"), k)
        BY DEF Gen!TerminalRoute, Gen!Renumbered, Gen!Id
    <2>5. Gen!TerminalRoute(k) \in Clone("user-terminal", k)
        BY <2>1, <2>3, <2>4 DEF Clone
    <2> QED
        BY <1>1, <2>2, <2>5 DEF GenInv, BlocksBuilt
<1>10. EndsBuilt'
    <2> DEFINE Routes == [head : Gen!IdRecords, end : Gen!IdRecords]
    <2>1. /\ out_rels' \in Seq([a : Gen!IdRecords, z : Gen!IdRecords])
          /\ \A r \in ToSet(out_rels)' : r \in ToSet(out_rels)
                \/ (r.a \in Clone("user-terminal", k) /\ r.z \in Clone("user-terminal", k))
        <3>1. ToSet(out_rels)' = ToSet(out_rels \o new)
            BY <1>1 DEF ToSet
        <3> QED
            BY <1>1, <1>2, <3>1, RelsAppended DEF new
    <2>2. /\ demands \in Seq(Routes)
          /\ \A d \in ToSet(demands) : d.head \in (IdsOf(out))' /\ d.end \in (IdsOf(out))'
        <3>1. Gen!PopRoute \in Gen!IdRecords /\ Gen!TerminalRoute(k) \in Gen!IdRecords
            <4>1. Gen!PopRoute \in Ents /\ Gen!Id("user-terminal", 1, "route-fn") \in Ents
                BY TemplateFacts DEF GenInv
            <4>2. Gen!PopRoute \in Gen!IdRecords /\ Gen!Id("user-terminal", 1, "route-fn") \in Gen!IdRecords
                BY <4>1, TemplateFacts DEF GenInv
            <4>3. Gen!TerminalRoute(k) = Gen!Renumbered(Gen!Id("user-terminal", 1, "route-fn"), k)
                BY DEF Gen!TerminalRoute, Gen!Renumbered, Gen!Id
            <4>4. Gen!TerminalRoute(k) \in Gen!IdRecords
                BY <1>2, <4>2, <4>3, RenumberedId
            <4> QED
                BY <4>2, <4>4
        <3>2. Gen!PopRoute \in (IdsOf(out))' /\ Gen!TerminalRoute(k) \in (IdsOf(out))'
            BY <1>5, <1>9
        <3>3. ToSet(demands) = {[head |-> Gen!PopRoute, end |-> Gen!TerminalRoute(k)],
                                [head |-> Gen!TerminalRoute(k), end |-> Gen!PopRoute]}
            BY DEF ToSet
        <3> QED
            BY <3>1, <3>2, <3>3
    <2>3. prov \in Seq(Routes)
        BY DEF GenInv, EndsBuilt
    <2> HIDE DEF demands, Routes
    <2>4. prov \o demands \in Seq(Routes) /\ ToSet(prov \o demands) = ToSet(prov) \cup ToSet(demands)
        BY <2>2, <2>3, ToSetConcat
    <2>5. prov' \in Seq(Routes) /\ ToSet(prov)' = ToSet(prov) \cup ToSet(demands)
        BY <1>1, <2>4 DEF ToSet
    <2>6. prov' \in Seq([head : Gen!IdRecords, end : Gen!IdRecords])
        BY <2>5 DEF Routes
    <2>7. \A d \in ToSet(prov)' : d.head \in (IdsOf(out))' /\ d.end \in (IdsOf(out))'
        BY <1>5, <2>2, <2>5 DEF EndsBuilt, GenInv
    <2>8. \A r \in ToSet(out_rels)' : r.a \in (IdsOf(out))' /\ r.z \in (IdsOf(out))'
        BY <1>5, <2>1 DEF EndsBuilt, GenInv
    <2> QED
        BY <1>1, <2>1, <2>6, <2>7, <2>8 DEF EndsBuilt
<1> QED
    BY <1>6, <1>7, <1>8, <1>10 DEF GenInv

LEMMA StepGen == ASSUME GenInv, [Gen!Next]_(Gen!vars) PROVE GenInv'
<1>1. CASE Gen!Sort
    BY <1>1, StepSort
<1>2. CASE Gen!Satellite
    BY <1>2, StepSatellite
<1>3. CASE Gen!Terminal
    BY <1>3, StepTerminal
<1>4. CASE Gen!SatellitesDone \/ Gen!Return \/ Gen!Stop \/ UNCHANGED Gen!vars
    <2>1. UNCHANGED <<template, elems, plane_uid, n_sites, ref_epoch_s, slot_count, out, out_rels, prov>>
        BY <1>4 DEF Gen!SatellitesDone, Gen!Return, Gen!Stop, Gen!vars, Gen!arguments
    <2>2. ArgumentsType' /\ LoopType'
        <3>1. ArgumentsType'
            BY <2>1 DEF GenInv, ArgumentsType
        <3>2. Len(elems) \in Nat
            BY DEF GenInv, ArgumentsType
        <3>3. LoopType'
            BY <1>4, <2>1, <3>2 DEF GenInv, ArgumentsType, LoopType, Gen!SatellitesDone, Gen!Return, Gen!Stop,
                                    Gen!vars, Gen!arguments
        <3> QED
            BY <3>1, <3>3
    <2>3. /\ gen' = "sort" <=> gen = "sort"
          /\ gen # "sort" => SatsDone' = SatsDone /\ UtsDone' = UtsDone
        BY <1>4, <2>1 DEF SatsDone, UtsDone, GenInv, LoopType, Gen!SatellitesDone, Gen!Return, Gen!Stop,
                          Gen!vars, Gen!arguments
    <2>4. BlocksBuilt'
        BY <2>1, <2>3 DEF GenInv, BlocksBuilt, Distinct, IdsOf, Kept, Ents, ClonesUpTo, Clone
    <2>5. EndsBuilt'
        BY <2>1, <2>3 DEF GenInv, EndsBuilt, IdsOf, ToSet
    <2> QED
        BY <2>2, <2>4, <2>5 DEF GenInv
<1> QED
    BY <1>1, <1>2, <1>3, <1>4 DEF Gen!Next

LEMMA ConsistencyFollows == ASSUME GenInv PROVE ModelIsConsistent
<1>1. out \in Seq(Blocks) /\ Distinct(out)
    BY DEF GenInv, BlocksBuilt
<1>2. Gen!BlockIds = IdsOf(out)
    BY DEF Gen!BlockIds, IdsOf
<1>3. Cardinality(IdsOf(out)) = Len(out)
    <2> DEFINE D == 1 .. Len(out)
    <2>1. Len(out) \in Nat /\ DOMAIN out = D
        BY <1>1
    <2>2. IsFiniteSet(D) /\ Cardinality(D) = Len(out)
        <3>1. ASSUME NEW n \in Nat PROVE IsFiniteSet(1 .. n) /\ Cardinality(1 .. n) = n
            <4>1. Cardinality(1 .. n) = (IF 1 > n THEN 0 ELSE n - 1 + 1) /\ IsFiniteSet(1 .. n)
                BY FS_Interval
            <4> QED
                BY <4>1
        <3> QED
            BY <2>1, <3>1
    <2>3. [b \in D |-> out[b].id] \in Bijection(D, IdsOf(out))
        <3> DEFINE f == [b \in D |-> out[b].id]
                   T == IdsOf(out)
        <3>1. T = {out[b].id : b \in D} /\ \A b, c \in D : out[b].id = out[c].id => b = c
            BY <1>1, <2>1 DEF Distinct, IdsOf
        <3> HIDE DEF D, T
        <3>2. f \in [D -> T] /\ \A t \in T : \E b \in D : f[b] = t
            BY <3>1
        <3>3. \A b, c \in DOMAIN f : f[b] = f[c] => b = c
            BY <3>1
        <3> HIDE DEF f
        <3>4. f \in Injection(D, T) /\ f \in Surjection(D, T)
            BY <3>2, <3>3 DEF Injection, Surjection, IsInjective
        <3> QED
            BY <3>4 DEF Bijection, f, T
    <2>4. ExistsBijection(D, IdsOf(out))
        BY <2>3 DEF ExistsBijection
    <2> QED
        BY <2>2, <2>4, FS_Bijection
<1>4. /\ \A r \in ToSet(out_rels) : r.a \in IdsOf(out) /\ r.z \in IdsOf(out)
      /\ \A d \in ToSet(prov) : d.head \in IdsOf(out) /\ d.end \in IdsOf(out)
    BY DEF GenInv, EndsBuilt
<1>5. Gen!Cardinality(Gen!BlockIds) = Len(out) /\ Gen!ToSet(out_rels) = ToSet(out_rels) /\ Gen!ToSet(prov) = ToSet(prov)
    BY <1>2, <1>3, GenCardinality, GenToSet
<1> QED
    BY <1>2, <1>4, <1>5 DEF ModelIsConsistent, Gen!ModelIsConsistent

\* The finished model can be inserted: whatever the template, the constellation and
\* the number of sites, no id is generated twice, and every end of a relationship or of
\* a demand is an id of the model.
THEOREM ModelCorrect == Gen!Spec => []ModelIsConsistent
<1>1. Gen!Init => GenInv
    BY InitGen
<1>2. GenInv /\ [Gen!Next]_(Gen!vars) => GenInv'
    BY StepGen
<1>3. GenInv => ModelIsConsistent
    BY ConsistencyFollows
<1> QED
    BY <1>1, <1>2, <1>3, PTL DEF Gen!Spec

-----------------------------------------------------------------------------
(***************************************************************************)
(* A generated constellation comes back                                    *)
(***************************************************************************)
IsSatellite(b) == out[b].id.family = "satellite"

\* The elements are in the platforms of satellites, each in its own.
ElementsPatched ==
    \A b \in DOMAIN out :
        out[b].kepler = IF IsSatellite(b) /\ out[b].id.part = "platform"
                        THEN Gen!PatchedKepler(out[b].id.number) ELSE None

\* Satellites are generated in the order of their numbers.
SatellitesInOrder ==
    \A b, c \in DOMAIN out :
        b < c /\ IsSatellite(b) /\ IsSatellite(c) => out[b].id.number <= out[c].id.number

ContentInv == GenInv /\ ElementsPatched /\ SatellitesInOrder

\* An entry of two sequences put behind one another is one of the one or of the other.
LEMMA AppendedAt ==
    ASSUME NEW S, NEW s \in Seq(S), NEW t \in Seq(S), NEW b \in DOMAIN (s \o t)
    PROVE  /\ b \in Int
           /\ \/ b \in DOMAIN s /\ b <= Len(s) /\ (s \o t)[b] = s[b]
              \/ b - Len(s) \in DOMAIN t /\ b > Len(s) /\ (s \o t)[b] = t[b - Len(s)]
<1>1. /\ DOMAIN (s \o t) = 1 .. Len(s) + Len(t)
      /\ (s \o t)[b] = IF b <= Len(s) THEN s[b] ELSE t[b - Len(s)]
      /\ Len(s) \in Nat /\ Len(t) \in Nat /\ DOMAIN s = 1 .. Len(s) /\ DOMAIN t = 1 .. Len(t)
    OBVIOUS
<1>2. b \in 1 .. Len(s) + Len(t)
    BY <1>1
<1> QED
    BY <1>1, <1>2

\* Of satellites there are those cloned so far.
LEMMA SatelliteNumbers ==
    ASSUME GenInv, gen # "sort", NEW b \in DOMAIN out, IsSatellite(b)
    PROVE  out[b].id.number \in 1 .. SatsDone
<1>1. IdsOf(out) = Kept \cup ClonesUpTo("satellite", SatsDone) \cup ClonesUpTo("user-terminal", UtsDone)
    BY DEF GenInv, BlocksBuilt
<1>2. SatsDone \in Nat /\ UtsDone \in Nat
    BY DEF GenInv, ArgumentsType, LoopType, SatsDone, UtsDone
<1>3. out[b].id \in IdsOf(out) /\ out[b].id.family = "satellite"
    BY DEF IdsOf, IsSatellite
<1>4. /\ \A f : \A j \in Nat : \A x \in Clone(f, j) : x.family = f /\ x.number = j
      /\ \A x \in Kept : x.family \notin {"satellite", "user-terminal"}
    BY CloneIds DEF GenInv
<1>5. out[b].id \notin ClonesUpTo("user-terminal", UtsDone)
    BY <1>2, <1>3, <1>4 DEF ClonesUpTo
<1>6. PICK j \in 1 .. SatsDone : out[b].id \in Clone("satellite", j)
    BY <1>1, <1>3, <1>4, <1>5 DEF ClonesUpTo
<1>7. j \in Nat
    BY <1>2
<1> QED
    BY <1>4, <1>6, <1>7

LEMMA KeptContent == ASSUME ContentInv, Gen!Sort PROVE ContentInv'
<1> DEFINE kept == Gen!At(template.ents, {n \in DOMAIN template.ents : Gen!PassesThrough(template.ents[n])})
<1>1. out' = [b \in DOMAIN kept |-> Gen!Block(kept[b])]
    BY DEF Gen!Sort
<1>2. GenInv' /\ (IdsOf(out))' = Kept
    <2>1. ArgumentsType /\ IdsOf([b \in DOMAIN kept |-> Gen!Block(kept[b])]) = Kept
        BY KeptBlocks DEF ContentInv, GenInv
    <2> HIDE DEF kept
    <2> QED
        BY <1>1, <2>1, StepSort DEF ContentInv, IdsOf
<1>3. \A b \in DOMAIN out' : out'[b].kepler = None /\ out'[b].id \in Kept
    <2>1. \A b \in DOMAIN out' : out'[b].id \in Kept
        BY <1>2 DEF IdsOf
    <2> HIDE DEF kept
    <2> QED
        BY <1>1, <2>1 DEF Gen!Block
<1>4. \A b \in DOMAIN out' : ~IsSatellite(b)'
    BY <1>3, CloneIds DEF ContentInv, GenInv, IsSatellite
<1> QED
    BY <1>2, <1>3, <1>4 DEF ContentInv, ElementsPatched, SatellitesInOrder

\* A clone put behind what was generated so far.
LEMMA ClonedContent ==
    ASSUME ContentInv, GenInv', gen # "sort", UNCHANGED <<elems, ref_epoch_s>>, NEW k \in Nat, k > SatsDone,
           NEW bs \in Seq(Blocks), out' = out \o bs,
           \A b \in DOMAIN bs :
               /\ bs[b].id.family = "satellite" => bs[b].id.number = k
               /\ bs[b].kepler = IF bs[b].id.family = "satellite" /\ bs[b].id.part = "platform"
                                 THEN Gen!PatchedKepler(k) ELSE None
    PROVE  ContentInv'
<1>1. out \in Seq(Blocks)
    BY DEF ContentInv, GenInv, BlocksBuilt
<1>2. \A b \in DOMAIN out' :
         /\ b \in Int
         /\ \/ b \in DOMAIN out /\ b <= Len(out) /\ out'[b] = out[b]
            \/ b - Len(out) \in DOMAIN bs /\ b > Len(out) /\ out'[b] = bs[b - Len(out)]
    BY <1>1, AppendedAt
<1>3. Len(out) \in Nat
    BY <1>1
<1>4. \A b \in DOMAIN out : out[b].id.family = "satellite" => out[b].id.number \in Int /\ out[b].id.number <= k
    <2>1. ASSUME NEW b \in DOMAIN out, out[b].id.family = "satellite"
          PROVE  out[b].id.number \in Int /\ out[b].id.number <= k
        <3>1. out[b].id \in Gen!IdRecords
            <4>1. out[b] \in Blocks
                <5> HIDE DEF Blocks
                <5> QED
                    BY <1>1
            <4> QED
                BY <4>1 DEF Blocks
        <3>2. out[b].id.number \in 1 .. SatsDone
            BY <2>1, SatelliteNumbers DEF ContentInv, IsSatellite
        <3>3. SatsDone \in Nat
            BY DEF ContentInv, GenInv, ArgumentsType, LoopType, SatsDone
        <3> QED
            BY <3>2, <3>3
    <2> QED
        BY <2>1
<1>5. ElementsPatched'
    <2>1. \A j : (Gen!PatchedKepler(j))' = Gen!PatchedKepler(j)
        BY DEF Gen!PatchedKepler
    <2> QED
        BY <1>2, <2>1 DEF ContentInv, ElementsPatched, IsSatellite
<1>6. SatellitesInOrder'
    <2>1. ASSUME NEW b \in DOMAIN out', NEW c \in DOMAIN out', b < c,
                 out'[b].id.family = "satellite", out'[c].id.family = "satellite"
          PROVE  out'[b].id.number <= out'[c].id.number
        <3>1. CASE c \in DOMAIN out /\ c <= Len(out) /\ out'[c] = out[c]
            <4>1. b \in DOMAIN out /\ out'[b] = out[b]
                BY <1>2, <1>3, <2>1, <3>1
            <4> QED
                BY <2>1, <3>1, <4>1 DEF ContentInv, SatellitesInOrder, IsSatellite
        <3>2. CASE c - Len(out) \in DOMAIN bs /\ out'[c] = bs[c - Len(out)]
            BY <1>2, <1>4, <2>1, <3>2
        <3> QED
            BY <1>2, <3>1, <3>2
    <2> QED
        BY <2>1 DEF SatellitesInOrder, IsSatellite
<1> QED
    BY <1>5, <1>6 DEF ContentInv

LEMMA StepContent == ASSUME ContentInv, [Gen!Next]_(Gen!vars) PROVE ContentInv'
<1>0. GenInv /\ GenInv'
    BY StepGen DEF ContentInv
<1>1. CASE Gen!Sort
    BY <1>1, KeptContent
<1>2. CASE Gen!Satellite
    <2> DEFINE k == cloned + 1
               tpl == Gen!TemplateOf("satellite")
               bs == [b \in DOMAIN tpl |-> Gen!SatelliteBlock(tpl[b], k)]
    <2>1. /\ gen = "satellites" /\ cloned < Len(elems) /\ out' = out \o bs
          /\ UNCHANGED <<elems, ref_epoch_s>>
        BY <1>2 DEF Gen!Satellite, Gen!arguments
    <2>2. k \in Nat /\ k \in 1 .. Len(elems) /\ k > SatsDone
        BY <1>0, <2>1 DEF GenInv, ArgumentsType, LoopType, SatsDone
    <2>3. /\ tpl \in Seq(Gen!IdRecords) /\ ToSet(tpl) = {y \in Ents : Gen!IsTemplate(y, "satellite")}
        BY <1>0, TemplateOfFacts DEF GenInv
    <2>4. \A b \in DOMAIN tpl : tpl[b] \in Gen!IdRecords /\ tpl[b].family = "satellite"
        BY <2>3 DEF ToSet, Gen!IsTemplate
    <2> HIDE DEF tpl
    <2>5. ASSUME NEW b \in DOMAIN tpl
          PROVE  /\ bs[b] \in Blocks
                 /\ bs[b].id.family = "satellite" /\ bs[b].id.number = k
                 /\ bs[b].kepler = IF bs[b].id.part = "platform" THEN Gen!PatchedKepler(k) ELSE None
        <3>1. bs[b] = Gen!SatelliteBlock(tpl[b], k) /\ bs[b] \in Blocks
            BY <1>0, <2>2, <2>4, SatelliteBlockType
        <3>2. /\ Gen!SatelliteBlock(tpl[b], k).id = [family |-> "satellite", number |-> k, part |-> tpl[b].part]
              /\ Gen!SatelliteBlock(tpl[b], k).kepler =
                    IF tpl[b].part = "platform" THEN Gen!PatchedKepler(k) ELSE None
            <4>1. Gen!Renumbered(tpl[b], k) = [family |-> "satellite", number |-> k, part |-> tpl[b].part]
                BY <2>2, <2>4, RenumberedId
            <4> QED
                BY <4>1 DEF Gen!SatelliteBlock
        <3> HIDE DEF bs
        <3> QED
            BY <3>1, <3>2
    <2>6. bs \in Seq(Blocks) /\ DOMAIN bs = DOMAIN tpl
        <3>1. DOMAIN tpl = 1 .. Len(tpl) /\ Len(tpl) \in Nat
            BY <2>3
        <3>2. bs \in [1 .. Len(tpl) -> Blocks]
            BY <2>5, <3>1
        <3> QED
            BY <3>1, <3>2
    <2> HIDE DEF bs
    <2> QED
        BY <1>0, <2>1, <2>2, <2>5, <2>6, ClonedContent
<1>3. CASE Gen!Terminal
    <2> DEFINE k == cloned + 1
               tpl == Gen!TemplateOf("user-terminal")
               bs == [b \in DOMAIN tpl |-> Gen!Block(Gen!Renumbered(tpl[b], k))]
    <2>1. /\ gen = "terminals" /\ out' = out \o bs
          /\ UNCHANGED <<elems, ref_epoch_s>>
        BY <1>3 DEF Gen!Terminal, Gen!arguments
    <2>2. k \in Nat /\ SatsDone \in Nat /\ SatsDone + 1 \in Nat /\ SatsDone + 1 > SatsDone
        BY <1>0, <2>1 DEF GenInv, ArgumentsType, LoopType, SatsDone
    <2>3. /\ tpl \in Seq(Gen!IdRecords) /\ ToSet(tpl) = {y \in Ents : Gen!IsTemplate(y, "user-terminal")}
        BY <1>0, TemplateOfFacts DEF GenInv
    <2>4. \A b \in DOMAIN tpl : tpl[b] \in Gen!IdRecords /\ tpl[b].family = "user-terminal"
        BY <2>3 DEF ToSet, Gen!IsTemplate
    <2> HIDE DEF tpl
    <2>5. ASSUME NEW b \in DOMAIN tpl
          PROVE  bs[b] \in Blocks /\ bs[b].id.family = "user-terminal" /\ bs[b].kepler = None
        <3>1. /\ Gen!Renumbered(tpl[b], k) = [family |-> "user-terminal", number |-> k, part |-> tpl[b].part]
              /\ Gen!Renumbered(tpl[b], k) \in Gen!IdRecords
            BY <2>2, <2>4, RenumberedId
        <3>2. bs[b] = Gen!Block(Gen!Renumbered(tpl[b], k))
            OBVIOUS
        <3> HIDE DEF bs
        <3> QED
            BY <3>1, <3>2, BlockType
    <2>6. bs \in Seq(Blocks) /\ DOMAIN bs = DOMAIN tpl
        <3>1. DOMAIN tpl = 1 .. Len(tpl) /\ Len(tpl) \in Nat
            BY <2>3
        <3>2. bs \in [1 .. Len(tpl) -> Blocks]
            BY <2>5, <3>1
        <3> QED
            BY <3>1, <3>2
    <2> HIDE DEF bs
    <2>7. \A b \in DOMAIN bs :
             /\ bs[b].id.family = "satellite" => bs[b].id.number = SatsDone + 1
             /\ bs[b].kepler = IF bs[b].id.family = "satellite" /\ bs[b].id.part = "platform"
                               THEN Gen!PatchedKepler(SatsDone + 1) ELSE None
        BY <2>5, <2>6
    <2> QED
        BY <1>0, <2>1, <2>2, <2>6, <2>7, ClonedContent
<1>4. CASE Gen!SatellitesDone \/ Gen!Return \/ Gen!Stop \/ UNCHANGED Gen!vars
    <2>1. UNCHANGED <<elems, ref_epoch_s, out>>
        BY <1>4 DEF Gen!SatellitesDone, Gen!Return, Gen!Stop, Gen!vars, Gen!arguments
    <2> QED
        BY <1>0, <2>1 DEF ContentInv, ElementsPatched, SatellitesInOrder, IsSatellite, Gen!PatchedKepler
<1> QED
    BY <1>1, <1>2, <1>3, <1>4 DEF Gen!Next

\* Where satellite k's platform is.
PlatformAt(k) == CHOOSE b \in DOMAIN out : out[b].id = Gen!Id("satellite", k, "platform")

LEMMA PlatformFacts ==
    ASSUME ContentInv, gen = "done", NEW k \in 1 .. Len(elems)
    PROVE  /\ PlatformAt(k) \in DOMAIN out
           /\ out[PlatformAt(k)].id = Gen!Id("satellite", k, "platform")
           /\ out[PlatformAt(k)].id.part = "platform"
           /\ out[PlatformAt(k)].kepler = Gen!PatchedKepler(k)
           /\ \A j \in 1 .. Len(elems) : j < k => PlatformAt(j) < PlatformAt(k)
<1>1. out \in Seq(Blocks) /\ DOMAIN out = 1 .. Len(out) /\ Len(out) \in Nat /\ Len(elems) \in Nat
    BY DEF ContentInv, GenInv, BlocksBuilt, ArgumentsType
<1>2. ASSUME NEW j \in 1 .. Len(elems)
      PROVE  PlatformAt(j) \in DOMAIN out /\ out[PlatformAt(j)].id = Gen!Id("satellite", j, "platform")
    <2>1. Gen!Id("satellite", 1, "platform") \in Ents
        BY TemplateFacts DEF ContentInv, GenInv
    <2>2. Gen!IsTemplate(Gen!Id("satellite", 1, "platform"), "satellite")
        BY DEF Gen!IsTemplate, Gen!Id
    <2>3. Gen!Id("satellite", j, "platform") = Gen!Renumbered(Gen!Id("satellite", 1, "platform"), j)
        BY DEF Gen!Renumbered, Gen!Id
    <2>4. Gen!Id("satellite", j, "platform") \in Clone("satellite", j)
        BY <2>1, <2>2, <2>3 DEF Clone
    <2>5. Gen!Id("satellite", j, "platform") \in ClonesUpTo("satellite", SatsDone)
        BY <2>4 DEF ClonesUpTo, SatsDone
    <2>6. Gen!Id("satellite", j, "platform") \in IdsOf(out)
        BY <2>5 DEF ContentInv, GenInv, BlocksBuilt
    <2> QED
        BY <2>6 DEF IdsOf, PlatformAt
<1>3. \A j \in 1 .. Len(elems) : /\ IsSatellite(PlatformAt(j)) /\ out[PlatformAt(j)].id.number = j
                                  /\ out[PlatformAt(j)].id.part = "platform"
    <2>1. ASSUME NEW j
          PROVE  LET id == Gen!Id("satellite", j, "platform")
                 IN  id.family = "satellite" /\ id.number = j /\ id.part = "platform"
        BY DEF Gen!Id
    <2> QED
        BY <1>2, <2>1 DEF IsSatellite
<1>4. out[PlatformAt(k)].kepler = Gen!PatchedKepler(k)
    BY <1>2, <1>3 DEF ContentInv, ElementsPatched
<1>5. ASSUME NEW j \in 1 .. Len(elems), j < k
      PROVE  PlatformAt(j) < PlatformAt(k)
    <2>1. /\ PlatformAt(j) \in DOMAIN out /\ PlatformAt(k) \in DOMAIN out
          /\ IsSatellite(PlatformAt(j)) /\ out[PlatformAt(j)].id.number = j
          /\ IsSatellite(PlatformAt(k)) /\ out[PlatformAt(k)].id.number = k
        BY <1>2, <1>3
    <2>2. j \in Int /\ k \in Int /\ PlatformAt(j) \in Int /\ PlatformAt(k) \in Int
        BY <1>1, <2>1
    <2>3. ~(PlatformAt(k) < PlatformAt(j))
        <3>1. ~(k <= j)
            BY <1>5, <2>2
        <3> QED
            BY <2>1, <3>1 DEF ContentInv, SatellitesInOrder
    <2>4. PlatformAt(j) # PlatformAt(k)
        BY <1>5, <2>1, <2>2
    <2> QED
        BY <2>2, <2>3, <2>4
<1> QED
    BY <1>2, <1>3, <1>4, <1>5

\* The platforms of a finished model that the adapter serves, in its order: the
\* satellites in theirs.
LEMMA PlatformsServed ==
    ASSUME ContentInv, gen = "done"
    PROVE  LET rows == Gen!Served(Gen!Platforms, FALSE)
           IN  /\ Len(elems) \in Nat /\ DOMAIN rows = 1 .. Len(elems)
               /\ \A k \in 1 .. Len(elems) : Gen!FirstKepler(rows[k]) = Gen!PatchedKepler(k)
<1> DEFINE n == Len(elems)
           PP == {b \in DOMAIN out : out[b].id.part = "platform"}
           blocks == At(out, PP)
           plats == Gen!Platforms
           place == [k \in 1 .. n |-> Rank(PP, PlatformAt(k))]
           Q == {b \in DOMAIN plats : Gen!IsPlatform(plats[b]) /\ Gen!IsServed(plats[b], FALSE)}
<1>1. n \in Nat /\ out \in Seq(Blocks) /\ PP \in SUBSET (DOMAIN out) /\ PP \in SUBSET Int
    BY DEF ContentInv, GenInv, BlocksBuilt, ArgumentsType
<1>2. /\ IsFiniteSet(PP) /\ Cardinality(PP) \in Nat
      /\ DOMAIN blocks = 1 .. Cardinality(PP)
      /\ \A b \in 1 .. Cardinality(PP) : Position(PP, b) \in PP /\ blocks[b] = out[Position(PP, b)]
    <2> HIDE DEF PP
    <2> QED
        BY <1>1, AtFacts DEF At
<1>3. ASSUME NEW k \in 1 .. n
      PROVE  /\ PlatformAt(k) \in PP /\ place[k] \in 1 .. Cardinality(PP)
             /\ blocks[place[k]] = out[PlatformAt(k)]
    <2>1. PlatformAt(k) \in PP
        BY PlatformFacts
    <2> HIDE DEF PP, blocks
    <2>2. place[k] \in 1 .. Cardinality(PP) /\ Position(PP, place[k]) = PlatformAt(k)
        BY <1>1, <1>2, <2>1, RankType, PositionOfRank
    <2> QED
        BY <1>2, <2>1, <2>2
<1>4. \A j, k \in 1 .. n : j < k => place[j] < place[k]
    <2> SUFFICES ASSUME NEW j \in 1 .. n, NEW k \in 1 .. n, j < k
                 PROVE  Rank(PP, PlatformAt(j)) < Rank(PP, PlatformAt(k))
        OBVIOUS
    <2>1. PlatformAt(j) < PlatformAt(k)
        BY PlatformFacts
    <2>2. PlatformAt(j) \in PP /\ PlatformAt(k) \in PP
        BY <1>3
    <2> HIDE DEF PP
    <2> QED
        BY <1>1, <1>2, <2>1, <2>2, RankGrows
<1>5. /\ DOMAIN plats = DOMAIN blocks
      /\ \A b \in DOMAIN blocks : plats[b] =
            [id |-> blocks[b].id, kind |-> "ek_platform", repr |-> "proto", external |-> FALSE,
             motion |-> <<[repr |-> "proto", kepler |-> blocks[b].kepler,
                           arm |-> IF blocks[b].kepler = None THEN "geodetic_wgs84"
                                   ELSE "keplerian_elements"]>>]
    <2>1. Gen!At(out, PP) = blocks
        BY GenAt
    <2> HIDE DEF blocks
    <2> QED
        BY <2>1 DEF Gen!Platforms
<1> HIDE DEF plats, blocks
<1>6. \A b \in DOMAIN plats : /\ Gen!FirstKepler(plats[b]) = blocks[b].kepler
                              /\ Gen!IsPlatform(plats[b])
                              /\ Gen!IsServed(plats[b], FALSE) <=> blocks[b].kepler # None
    <2> SUFFICES ASSUME NEW b \in DOMAIN plats
                 PROVE  /\ Gen!FirstKepler(plats[b]) = blocks[b].kepler
                        /\ Gen!IsPlatform(plats[b])
                        /\ Gen!IsServed(plats[b], FALSE) <=> blocks[b].kepler # None
        OBVIOUS
    <2> DEFINE arm == IF blocks[b].kepler = None THEN "geodetic_wgs84" ELSE "keplerian_elements"
               entry == [repr |-> "proto", kepler |-> blocks[b].kepler, arm |-> arm]
    <2>1. /\ plats[b].motion = <<entry>> /\ plats[b].kind = "ek_platform" /\ ~plats[b].external
        BY <1>5
    <2>2. Gen!KeplerOf(entry) = blocks[b].kepler
        BY DEF Gen!KeplerOf, Gen!GetKepler
    <2> HIDE DEF entry
    <2>3. Gen!FirstKepler(plats[b]) = blocks[b].kepler
        BY <2>1, <2>2 DEF Gen!FirstKepler
    <2> QED
        BY <2>1, <2>3 DEF Gen!IsPlatform, Gen!IsServed, Gen!IsExternal
<1>7. Q = {place[k] : k \in 1 .. n}
    <2>1. ASSUME NEW k \in 1 .. n
          PROVE  place[k] \in Q
        <3>1. place[k] \in DOMAIN plats /\ blocks[place[k]].kepler = Gen!PatchedKepler(k)
            BY <1>2, <1>3, <1>5, PlatformFacts
        <3>2. Gen!PatchedKepler(k) # None
            BY PatchedType DEF ContentInv
        <3> HIDE DEF place
        <3> QED
            BY <1>6, <3>1, <3>2
    <2>2. ASSUME NEW b \in Q
          PROVE  \E k \in 1 .. n : b = place[k]
        <3>1. b \in 1 .. Cardinality(PP) /\ blocks[b].kepler # None
            BY <1>2, <1>5, <1>6
        <3>2. /\ Position(PP, b) \in DOMAIN out /\ out[Position(PP, b)].kepler # None
              /\ out[Position(PP, b)].id.part = "platform"
            BY <1>2, <3>1
        <3>3. IsSatellite(Position(PP, b))
            BY <3>2 DEF ContentInv, ElementsPatched
        <3> DEFINE k == out[Position(PP, b)].id.number
        <3>4. k \in 1 .. n
            BY <3>2, <3>3, SatelliteNumbers DEF ContentInv, SatsDone
        <3>5. out[Position(PP, b)].id = Gen!Id("satellite", k, "platform")
            <4>1. out[Position(PP, b)].id \in Gen!IdRecords
                <5>1. out[Position(PP, b)] \in Blocks
                    <6> HIDE DEF Blocks
                    <6> QED
                        BY <1>1, <3>2
                <5> QED
                    BY <5>1 DEF Blocks
            <4> QED
                BY <3>2, <3>3, <4>1 DEF Gen!IdRecords, Gen!Id, IsSatellite
        <3> HIDE DEF k
        <3>6. Position(PP, b) = PlatformAt(k)
            BY <3>2, <3>4, <3>5, PlatformFacts DEF ContentInv, GenInv, BlocksBuilt, Distinct
        <3>7. Rank(PP, Position(PP, b)) = b
            <4> HIDE DEF PP
            <4> QED
                BY <1>1, <1>2, <3>1, PositionFacts
        <3>8. b = place[k]
            BY <3>4, <3>6, <3>7
        <3> QED
            BY <3>4, <3>8
    <2> HIDE DEF Q, place
    <2> QED
        BY <2>1, <2>2
<1>8. Cardinality(Q) = n /\ \A k \in 1 .. n : Position(Q, k) = place[k]
    <2>1. Q \in SUBSET Int
        <3>1. Q \subseteq 1 .. Cardinality(PP)
            BY <1>2, <1>5
        <3> HIDE DEF Q, PP
        <3> QED
            BY <1>2, <3>1
    <2>2. DOMAIN place = 1 .. n
        OBVIOUS
    <2> HIDE DEF Q, place, n
    <2> QED
        BY <1>1, <1>4, <1>7, <2>1, <2>2, PositionUnique
<1>9. Gen!Served(plats, FALSE) = At(plats, Q)
    BY GenAt DEF Gen!Served
<1>10. \A k \in 1 .. n : /\ Gen!FirstKepler(plats[place[k]]) = Gen!PatchedKepler(k)
                         /\ At(plats, Q)[k] = plats[place[k]]
    <2>1. ASSUME NEW k \in 1 .. n
          PROVE  /\ Gen!FirstKepler(plats[place[k]]) = Gen!PatchedKepler(k)
                 /\ At(plats, Q)[k] = plats[place[k]]
        <3>1. blocks[place[k]].kepler = Gen!PatchedKepler(k) /\ place[k] \in DOMAIN plats
            BY <1>2, <1>3, <1>5, PlatformFacts
        <3> HIDE DEF place, Q
        <3>2. Gen!FirstKepler(plats[place[k]]) = Gen!PatchedKepler(k)
            BY <1>6, <3>1
        <3>3. At(plats, Q)[k] = plats[place[k]]
            BY <1>8 DEF At
        <3> QED
            BY <3>2, <3>3
    <2> QED
        BY <2>1
<1>11. DOMAIN At(plats, Q) = 1 .. n
    <2> HIDE DEF Q
    <2> QED
        BY <1>8 DEF At
<1> HIDE DEF Q, place
<1> QED
    BY <1>1, <1>9, <1>10, <1>11 DEF plats

LEMMA CircularFollows == ASSUME ContentInv PROVE CircularComesBack
<1> SUFFICES ASSUME gen = "done", elems # <<>>, \A s \in DOMAIN elems : elems[s].ecc = 0
             PROVE  Gen!PulledBack.elems = elems /\ Gen!PulledBack.ref_epoch_s = ref_epoch_s
    BY DEF CircularComesBack, Gen!CircularComesBack
<1> DEFINE rows == Gen!Served(Gen!Platforms, FALSE)
           t == Gen!RefEpoch(rows, None)
           back == [k \in DOMAIN rows |->
                      [a |-> Gen!FirstKepler(rows[k]).a, ecc |-> Gen!FirstKepler(rows[k]).ecc,
                       M |-> Gen!MeanAnomalyAt(Gen!FirstKepler(rows[k]), t)]]
<1>1. Gen!PulledBack.elems = back /\ Gen!PulledBack.ref_epoch_s = t
    BY DEF Gen!PulledBack, Gen!platforms_to_elements
<1>2. /\ Len(elems) \in Nat /\ DOMAIN rows = 1 .. Len(elems)
      /\ \A k \in 1 .. Len(elems) : Gen!FirstKepler(rows[k]) = Gen!PatchedKepler(k)
    BY PlatformsServed
<1>3. /\ elems \in Seq(ElementRows) /\ DOMAIN elems = 1 .. Len(elems) /\ ref_epoch_s \in Int
      /\ 1 \in DOMAIN elems
    BY DEF ContentInv, GenInv, ArgumentsType
<1>4. \A k \in 1 .. Len(elems) :
         Gen!PatchedKepler(k) = [a |-> elems[k].a, ecc |-> elems[k].ecc, nu |-> elems[k].M, epoch |-> ref_epoch_s]
    BY DEF Gen!PatchedKepler
<1> HIDE DEF rows
<1>5. t = ref_epoch_s
    <2>1. Gen!Epochs(rows) = {Gen!FirstKepler(rows[k]).epoch : k \in 1 .. Len(elems)}
        <3>1. Gen!ToSet(rows) = {rows[k] : k \in 1 .. Len(elems)}
            BY <1>2, GenToSet DEF ToSet
        <3> QED
            BY <3>1 DEF Gen!Epochs
    <2>2. Gen!Epochs(rows) = {ref_epoch_s}
        BY <1>2, <1>3, <1>4, <2>1
    <2>3. rows # <<>>
        BY <1>2, <1>3
    <2>4. Gen!Min({ref_epoch_s}) = ref_epoch_s
        BY <1>3 DEF Gen!Min
    <2> QED
        BY <2>2, <2>3, <2>4 DEF Gen!RefEpoch
<1> HIDE DEF t
<1>6. ASSUME NEW k \in 1 .. Len(elems)
      PROVE  back[k] = elems[k]
    <2>1. elems[k] \in ElementRows
        <3> HIDE DEF ElementRows
        <3> QED
            BY <1>3
    <2>2. /\ elems[k].a \in DOMAIN MeanMotion /\ elems[k].ecc = 0 /\ elems[k].M \in 0 .. Circle - 1
          /\ elems[k] = [a |-> elems[k].a, ecc |-> elems[k].ecc, M |-> elems[k].M]
        BY <1>3, <2>1 DEF ElementRows
    <2>3. Gen!MeanAnomalyAt(Gen!PatchedKepler(k), ref_epoch_s) = elems[k].M
        <3> DEFINE n == MeanMotion[elems[k].a]
        <3>1. MeanAnomaly[0][elems[k].M] = elems[k].M /\ n \in Nat /\ Circle \in Nat \ {0}
            BY <2>2, NmtsAdapterAssumption
        <3>2. Gen!MeanAnomalyAt(Gen!PatchedKepler(k), ref_epoch_s) =
                (elems[k].M + (n * (ref_epoch_s - ref_epoch_s))) % Circle
            BY <1>4, <2>2, <3>1 DEF Gen!MeanAnomalyAt
        <3> HIDE DEF n
        <3>3. elems[k].M + (n * (ref_epoch_s - ref_epoch_s)) = elems[k].M
            BY <1>3, <2>2, <3>1
        <3>4. elems[k].M % Circle = elems[k].M
            BY <2>2, <3>1
        <3> QED
            BY <3>2, <3>3, <3>4
    <2>4. back[k] = [a |-> Gen!PatchedKepler(k).a, ecc |-> Gen!PatchedKepler(k).ecc,
                     M |-> Gen!MeanAnomalyAt(Gen!PatchedKepler(k), ref_epoch_s)]
        BY <1>2, <1>5
    <2> HIDE DEF back
    <2> QED
        BY <1>4, <2>2, <2>3, <2>4
<1>7. DOMAIN back = DOMAIN elems
    BY <1>2, <1>3
<1>8. back = elems
    <2> HIDE DEF back
    <2>1. back = [k \in DOMAIN back |-> back[k]]
        BY DEF back
    <2>2. elems = [k \in DOMAIN elems |-> elems[k]]
        BY <1>3
    <2> QED
        BY <1>3, <1>6, <1>7, <2>1, <2>2
<1> QED
    BY <1>1, <1>5, <1>8

\* A constellation of circular orbits is pulled back as it was generated, satellite
\* by satellite and at its epoch, for every template and any number of satellites,
\* planes and sites.
THEOREM ConstellationComesBack == Gen!Spec => []CircularComesBack
<1>1. Gen!Init => ContentInv
    BY InitGen DEF ContentInv, ElementsPatched, SatellitesInOrder, Gen!Init
<1>2. ContentInv /\ [Gen!Next]_(Gen!vars) => ContentInv'
    BY StepContent
<1>3. ContentInv => CircularComesBack
    BY CircularFollows
<1> QED
    BY <1>1, <1>2, <1>3, PTL DEF Gen!Spec

-----------------------------------------------------------------------------
(***************************************************************************)
(* Shells put behind one another: concat, for any number of models of any  *)
(* size, keeps planes of different shells apart and every shell's planes   *)
(* as they were                                                            *)
(***************************************************************************)
\* Renumbering adds the offset to known ids only, and keeps them known.
LEMMA ShiftedType ==
    ASSUME NEW S, NEW pu \in [S -> Int], NEW by \in Nat
    PROVE  Concat!Shifted(pu, by) \in [S -> Int]
  BY DEF Concat!Shifted, Concat!Known

LEMMA ShiftedFacts ==
    ASSUME NEW S, NEW pu \in [S -> Int], NEW by \in Nat, NEW s \in S
    PROVE  /\ Concat!Known(Concat!Shifted(pu, by)[s]) <=> Concat!Known(pu[s])
           /\ Concat!Known(pu[s]) => Concat!Shifted(pu, by)[s] = pu[s] + by
           /\ ~Concat!Known(pu[s]) => Concat!Shifted(pu, by)[s] = pu[s]
  BY DEF Concat!Shifted, Concat!Known

\* What the type invariant says of the model of an index.
LEMMA PartModelType ==
    ASSUME Concat!ConcatAssumption, Concat!TypeOK, NEW m \in Concat!Models
    PROVE  models[m] \in [Concat!SatsOf(m) -> Int]
  BY DEF Concat!ConcatAssumption, Concat!TypeOK

\* The offset never falls, and lies above all ids of the model just numbered.
LEMMA OffsetFacts ==
    ASSUME NEW S, NEW own \in [S -> Int], NEW before \in Nat, NEW after,
           Concat!OffsetAfter(Concat!Shifted(own, before), before, after)
    PROVE  /\ after \in Nat
           /\ after >= before
           /\ \A s \in S : Concat!Shifted(own, before)[s] < after
<1> DEFINE pu == Concat!Shifted(own, before)
<1>1. pu \in [S -> Int] /\ DOMAIN pu = S
  BY DEF Concat!Shifted
<1>2. CASE \E s \in S : Concat!Known(pu[s]) /\ (\A t \in S : pu[t] <= pu[s]) /\ after = pu[s] + 1
  <2>1. PICK s \in S : Concat!Known(pu[s]) /\ (\A t \in S : pu[t] <= pu[s]) /\ after = pu[s] + 1
    BY <1>2
  <2>2. pu[s] \in Int /\ pu[s] >= before
    <3>1. Concat!Known(own[s]) /\ pu[s] = own[s] + before
      BY <2>1, ShiftedFacts
    <3> QED
      BY <3>1 DEF Concat!Known
  <2>3. \A t \in S : pu[t] \in Int
    BY <1>1
  <2> HIDE DEF pu
  <2> QED
    BY <2>1, <2>2, <2>3 DEF pu
<1>3. CASE (\A s \in S : ~Concat!Known(pu[s])) /\ after = before
  BY <1>1, <1>3 DEF Concat!Known
<1> QED
  BY <1>1, <1>2, <1>3 DEF Concat!OffsetAfter

LEMMA InitConcat == ASSUME Concat!ConcatAssumption PROVE Concat!Init => Concat!IInv
<1> SUFFICES ASSUME Concat!Init PROVE Concat!IInv
  OBVIOUS
<1>1. next = 0 /\ offset = 0 /\ DOMAIN plane_parts = {}
  BY DEF Concat!Init
<1>2. 0 .. next - 1 = {}
  BY <1>1
<1>3. Concat!TypeOK
  BY <1>1, <1>2 DEF Concat!ConcatAssumption, Concat!Init, Concat!TypeOK
<1> QED
  BY <1>1, <1>2, <1>3 DEF Concat!IInv, Concat!BelowOffset, Concat!ShiftedBy, Concat!PlanesStayApart

\* One iteration preserves the invariant.
LEMMA ConcatAppend == ASSUME Concat!ConcatAssumption PROVE Concat!IInv /\ Concat!Append => Concat!IInv'
<1> SUFFICES ASSUME Concat!IInv, Concat!Append PROVE Concat!IInv'
  OBVIOUS
<1> DEFINE pu == Concat!Shifted(models[next], offset)
<1>0. /\ next \in 0 .. NModels - 1 /\ next \in Concat!Models
      /\ next' = next + 1 /\ 0 .. next' - 1 = 0 .. next
      /\ offset \in Nat /\ models' = models
      /\ DOMAIN plane_parts = 0 .. next - 1
  BY DEF Concat!ConcatAssumption, Concat!IInv, Concat!TypeOK, Concat!Append, Concat!Models
<1>1. models[next] \in [Concat!SatsOf(next) -> Int]
  BY <1>0, PartModelType DEF Concat!IInv
<1>2. pu \in [Concat!SatsOf(next) -> Int]
  BY <1>0, <1>1, ShiftedType
<1>3. /\ offset' \in Nat /\ offset' >= offset
      /\ \A s \in Concat!SatsOf(next) : pu[s] < offset'
  BY <1>0, <1>1, OffsetFacts DEF Concat!Append
<1>4. /\ plane_parts' = [m \in 0 .. next |-> IF m = next THEN pu ELSE plane_parts[m]]
      /\ plane_parts'[next] = pu
      /\ \A m \in 0 .. next - 1 : plane_parts'[m] = plane_parts[m]
  BY <1>0 DEF Concat!Append
<1>5. \A m \in 0 .. next : m = next \/ m \in 0 .. next - 1
  BY <1>0
<1> HIDE DEF pu
<1>6. Concat!TypeOK'
  <2>1. \A m \in 0 .. next : plane_parts'[m] \in [Concat!SatsOf(m) -> Int]
    BY <1>2, <1>4, <1>5 DEF Concat!IInv, Concat!TypeOK
  <2>2. next' \in 0 .. NModels
    BY <1>0 DEF Concat!ConcatAssumption
  <2> QED
    BY <1>0, <1>3, <1>4, <2>1, <2>2 DEF Concat!IInv, Concat!TypeOK
<1>7. Concat!BelowOffset'
  <2> SUFFICES ASSUME NEW m \in 0 .. next, NEW s \in Concat!SatsOf(m)
               PROVE  plane_parts'[m][s] < offset'
    BY <1>0 DEF Concat!BelowOffset
  <2>1. CASE m = next
    BY <1>3, <1>4, <2>1
  <2>2. CASE m \in 0 .. next - 1
    <3>1. plane_parts[m][s] < offset /\ plane_parts[m][s] \in Int
      BY <2>2 DEF Concat!IInv, Concat!BelowOffset, Concat!TypeOK
    <3> QED
      BY <1>0, <1>3, <1>4, <2>2, <3>1
  <2> QED
    BY <1>5, <2>1, <2>2
<1>8. Concat!ShiftedBy'
  <2> SUFFICES ASSUME NEW m \in 0 .. next
               PROVE  \E by \in 0 .. offset' : plane_parts'[m] = Concat!Shifted(models[m], by)
    BY <1>0 DEF Concat!ShiftedBy
  <2>1. CASE m = next
    BY <1>0, <1>3, <1>4, <2>1 DEF pu
  <2>2. CASE m \in 0 .. next - 1
    <3>1. PICK by \in 0 .. offset : plane_parts[m] = Concat!Shifted(models[m], by)
      BY <2>2 DEF Concat!IInv, Concat!ShiftedBy
    <3>2. by \in 0 .. offset'
      BY <1>0, <1>3
    <3> QED
      BY <1>4, <2>2, <3>1, <3>2
  <2> QED
    BY <1>5, <2>1, <2>2
<1>9. Concat!PlanesStayApart'
  \* the new model's known ids are at least the offset the older ones stay below
  <2>1. \A s \in Concat!SatsOf(next) : Concat!Known(pu[s]) => pu[s] >= offset
    <3> SUFFICES ASSUME NEW s \in Concat!SatsOf(next), Concat!Known(pu[s]) PROVE pu[s] >= offset
      OBVIOUS
    <3>1. Concat!Known(models[next][s]) /\ pu[s] = models[next][s] + offset
      BY <1>0, <1>1, ShiftedFacts DEF pu
    <3>2. models[next][s] \in Int /\ models[next][s] >= 0
      BY <1>1, <3>1 DEF Concat!Known
    <3> QED
      BY <1>0, <3>1, <3>2
  <2>2. \A m \in 0 .. next - 1 : \A s \in Concat!SatsOf(m) :
           plane_parts[m][s] < offset /\ plane_parts[m][s] \in Int
    BY DEF Concat!IInv, Concat!BelowOffset, Concat!TypeOK
  <2>3. \A t \in Concat!SatsOf(next) : pu[t] \in Int
    BY <1>2
  <2> SUFFICES ASSUME NEW m \in 0 .. next, NEW n \in 0 .. next, m # n,
                      NEW s \in Concat!SatsOf(m), NEW t \in Concat!SatsOf(n),
                      Concat!Known(plane_parts'[m][s])
               PROVE  plane_parts'[m][s] # plane_parts'[n][t]
    BY <1>4 DEF Concat!PlanesStayApart
  <2>4. CASE m = next /\ n \in 0 .. next - 1
    BY <1>0, <1>4, <2>1, <2>2, <2>3, <2>4
  <2>5. CASE n = next /\ m \in 0 .. next - 1
    <3>1. plane_parts[m][s] < offset /\ plane_parts[m][s] >= 0 /\ plane_parts[m][s] \in Int
      BY <1>4, <2>2, <2>5 DEF Concat!Known
    <3>2. CASE Concat!Known(pu[t])
      BY <1>0, <1>4, <2>1, <2>3, <2>5, <3>1, <3>2
    <3>3. CASE ~Concat!Known(pu[t])
      BY <1>4, <2>3, <2>5, <3>1, <3>3 DEF Concat!Known
    <3> QED
      BY <3>2, <3>3
  <2>6. CASE m \in 0 .. next - 1 /\ n \in 0 .. next - 1
    BY <1>0, <1>4, <2>6 DEF Concat!IInv, Concat!PlanesStayApart
  <2> QED
    BY <1>5, <2>4, <2>5, <2>6
<1> QED
  BY <1>6, <1>7, <1>8, <1>9 DEF Concat!IInv

LEMMA StepConcat == ASSUME Concat!ConcatAssumption PROVE Concat!IInv /\ [Concat!Next]_(Concat!vars) => Concat!IInv'
<1> SUFFICES ASSUME Concat!IInv, [Concat!Next]_(Concat!vars) PROVE Concat!IInv'
  OBVIOUS
<1>1. CASE Concat!Append
  BY <1>1, ConcatAppend
<1>2. CASE UNCHANGED Concat!vars
  BY <1>2 DEF Concat!IInv, Concat!TypeOK, Concat!BelowOffset, Concat!ShiftedBy, Concat!PlanesStayApart, Concat!vars
<1> QED
  BY <1>1, <1>2 DEF Concat!Next, Concat!Stop

LEMMA ConcatInvariance == ASSUME Concat!ConcatAssumption PROVE Concat!Spec => []Concat!IInv
  BY InitConcat, StepConcat, PTL DEF Concat!Spec

\* The ids concat gives, the offset and the loop counter have their types.
THEOREM ConcatTypeCorrect == ASSUME Concat!ConcatAssumption PROVE Concat!Spec => []Concat!TypeOK
<1>1. Concat!IInv => Concat!TypeOK
  BY DEF Concat!IInv
<1> QED
  BY ConcatInvariance, <1>1, PTL

\* Satellites of different shells are never in one plane, so the
\* different-plane rule lets a handover go from shell to shell.
THEOREM ShellsStayApart == ASSUME Concat!ConcatAssumption PROVE Concat!Spec => []Concat!PlanesStayApart
<1>1. Concat!IInv => Concat!PlanesStayApart
  BY DEF Concat!IInv
<1> QED
  BY ConcatInvariance, <1>1, PTL

\* Within a shell the same satellites share a plane as before, and a plane that
\* was unknown stays unknown.
THEOREM ShellsAreKept == ASSUME Concat!ConcatAssumption PROVE Concat!Spec => []Concat!PlanesAreKept
<1>1. Concat!IInv => Concat!PlanesAreKept
  <2> SUFFICES ASSUME Concat!IInv, NEW m \in DOMAIN plane_parts,
                      NEW s \in Concat!SatsOf(m), NEW t \in Concat!SatsOf(m)
               PROVE  /\ Concat!Known(plane_parts[m][s]) <=> Concat!Known(models[m][s])
                      /\ ~Concat!Known(models[m][s]) => plane_parts[m][s] = models[m][s]
                      /\ Concat!Known(models[m][s]) /\ Concat!Known(models[m][t]) =>
                            (plane_parts[m][s] = plane_parts[m][t] <=>
                             models[m][s] = models[m][t])
    BY DEF Concat!PlanesAreKept
  <2>1. m \in 0 .. next - 1 /\ m \in Concat!Models
    BY DEF Concat!ConcatAssumption, Concat!IInv, Concat!TypeOK, Concat!Models
  <2>2. models[m] \in [Concat!SatsOf(m) -> Int]
    BY <2>1, PartModelType DEF Concat!IInv
  <2>3. PICK by \in 0 .. offset : plane_parts[m] = Concat!Shifted(models[m], by)
    BY <2>1 DEF Concat!IInv, Concat!ShiftedBy
  <2>4. by \in Nat
    BY <2>3
  <2>5. /\ Concat!Known(plane_parts[m][s]) <=> Concat!Known(models[m][s])
        /\ Concat!Known(models[m][s]) => plane_parts[m][s] = models[m][s] + by
        /\ ~Concat!Known(models[m][s]) => plane_parts[m][s] = models[m][s]
    BY <2>2, <2>3, <2>4, ShiftedFacts
  <2>6. Concat!Known(models[m][t]) => plane_parts[m][t] = models[m][t] + by
    BY <2>2, <2>3, <2>4, ShiftedFacts
  <2>7. models[m][s] \in Int /\ models[m][t] \in Int
    BY <2>2
  <2>8. ASSUME Concat!Known(models[m][s]), Concat!Known(models[m][t])
        PROVE  plane_parts[m][s] = plane_parts[m][t] <=> models[m][s] = models[m][t]
    <3> DEFINE a == models[m][s]
               b == models[m][t]
    <3>1. plane_parts[m][s] = a + by /\ plane_parts[m][t] = b + by
      BY <2>5, <2>6, <2>8
    <3>2. a \in Int /\ b \in Int
      BY <2>7
    <3> HIDE DEF a, b
    <3>3. a + by = b + by <=> a = b
      BY <2>4, <3>2
    <3> QED
      BY <3>1, <3>3 DEF a, b
  <2> QED
    BY <2>5, <2>8
<1> QED
  BY ConcatInvariance, <1>1, PTL

\* So the different-plane rule of a handover sees in the concatenation what it saw
\* in the shells, and no plane across them.
THEOREM PlanesPreserved == ASSUME Concat!ConcatAssumption PROVE Concat!Spec => []PlanesArePreserved
<1>1. Concat!PlanesStayApart /\ Concat!PlanesAreKept => PlanesArePreserved
  BY DEF PlanesArePreserved, Concat!PlanesArePreserved
<1> QED
  BY ShellsStayApart, ShellsAreKept, <1>1, PTL

-----------------------------------------------------------------------------
(***************************************************************************)
(* Induction up to a bound, and what it gives: recursive functions exist.  *)
(***************************************************************************)
\* What holds at 0 and is handed from each number to the next holds up to n.
LEMMA UpTo ==
    ASSUME NEW n \in Nat, NEW P, 0 \in P, \A k \in 1 .. n : k - 1 \in P => k \in P
    PROVE  0 .. n \subseteq P
<1> DEFINE Segments == {0 .. k : k \in (0 .. n) \ P}
<1>1. ASSUME (0 .. n) \ P # {}
      PROVE  FALSE
    <2>1. Segments \subseteq FiniteSubsetsOf(Nat) /\ Segments # {}
        <3>1. ASSUME NEW k \in 0 .. n
              PROVE  0 .. k \in FiniteSubsetsOf(Nat)
            <4>1. IsFiniteSet(0 .. k) /\ 0 .. k \in SUBSET Nat
                BY FS_Interval
            <4> QED
                BY <4>1 DEF FiniteSubsetsOf
        <3> QED
            BY <1>1, <3>1
    <2>2. IsWellFoundedOn(StrictSubsetOrdering(Nat), FiniteSubsetsOf(Nat))
        BY FS_StrictSubsetOrderingWellFounded
    <2>3. PICK x \in Segments : \A y \in Segments : <<y, x>> \notin StrictSubsetOrdering(Nat)
        <3> HIDE DEF Segments
        <3> QED
            BY <2>1, <2>2, WFMin
    <2>4. PICK k \in (0 .. n) \ P : x = 0 .. k
        OBVIOUS
    <2>5. k \in 1 .. n /\ k - 1 \in (0 .. n) \ P
        OBVIOUS
    <2>6. 0 .. k - 1 \in Segments
        BY <2>5
    <2>7. <<0 .. k - 1, 0 .. k>> \in StrictSubsetOrdering(Nat)
        <3>1. 0 .. k - 1 \subseteq 0 .. k /\ k \in 0 .. k /\ k \notin 0 .. k - 1
            BY <2>5
        <3>2. 0 .. k - 1 \subseteq Nat /\ 0 .. k \subseteq Nat /\ 0 .. k - 1 # 0 .. k
            BY <2>5, <3>1
        <3> QED
            BY <3>1, <3>2 DEF StrictSubsetOrdering
    <2> QED
        BY <2>3, <2>4, <2>6, <2>7
<1> QED
    BY <1>1

\* A sequence of n + 1 values, each got from the one before it, exists.
CanStep(n, A, step) == step \in [1 .. n -> [A -> A]]
HasIterates(n, A, base, step) ==
    \E f \in [0 .. n -> A] : f[0] = base /\ \A k \in 1 .. n : f[k] = step[k][f[k - 1]]

LEMMA Iterates ==
    ASSUME NEW n \in Nat, NEW A, NEW base \in A, NEW step, CanStep(n, A, step)
    PROVE  HasIterates(n, A, base, step)
<1> DEFINE IsPart(f, m) == /\ f \in [0 .. m -> A] /\ f[0] = base
                           /\ \A k \in 1 .. m : f[k] = step[k][f[k - 1]]
           P == {m \in 0 .. n : \E f : IsPart(f, m)}
<1>1. 0 \in P
    <2>1. IsPart([k \in 0 .. 0 |-> base], 0)
        OBVIOUS
    <2> HIDE DEF IsPart
    <2> QED
        BY <2>1
<1>2. ASSUME NEW m \in 1 .. n, m - 1 \in P
      PROVE  m \in P
    <2>1. PICK f : IsPart(f, m - 1)
        BY <1>2
    <2> DEFINE g == [k \in 0 .. m |-> IF k = m THEN step[m][f[m - 1]] ELSE f[k]]
    <2>2. f[m - 1] \in A /\ step[m] \in [A -> A]
        BY <2>1 DEF CanStep
    <2>3. g \in [0 .. m -> A] /\ g[0] = base
        BY <2>1, <2>2
    <2>4. \A k \in 1 .. m : g[k] = step[k][g[k - 1]]
        <3> TAKE k \in 1 .. m
        <3>1. g[k - 1] = f[k - 1]
            OBVIOUS
        <3>2. CASE k = m
            BY <3>1, <3>2
        <3>3. CASE k # m
            <4>1. k \in 1 .. m - 1 /\ g[k] = f[k]
                BY <3>3
            <4>2. f[k] = step[k][f[k - 1]]
                BY <2>1, <4>1
            <4> HIDE DEF g
            <4> QED
                BY <3>1, <4>1, <4>2
        <3> QED
            BY <3>2, <3>3
    <2> HIDE DEF g
    <2>5. IsPart(g, m)
        BY <2>3, <2>4
    <2> QED
        BY <2>5
<1> HIDE DEF P
<1>3. 0 .. n \subseteq P
    BY <1>1, <1>2, UpTo
<1>4. n \in P
    BY <1>3
<1> QED
    BY <1>4 DEF P, HasIterates

-----------------------------------------------------------------------------
(***************************************************************************)
(* Sequences put behind one another                                        *)
(***************************************************************************)
Join(x, y) == x \o y

\* f[k] is the first k sequences of s put behind one another.
Flattens(f, s, n, A) ==
    /\ f \in [0 .. n -> Seq(A)] /\ f[0] = <<>>
    /\ \A k \in 1 .. n : f[k] = Join(f[k - 1], s[k])

LEMMA FlattenExists ==
    ASSUME NEW A, NEW n \in Nat, NEW s \in [1 .. n -> Seq(A)]
    PROVE  \E f : Flattens(f, s, n, A)
<1> DEFINE Sq == Seq(A)
           step == [k \in 1 .. n |-> [x \in Sq |-> Join(x, s[k])]]
<1>1. CanStep(n, Sq, step) /\ <<>> \in Sq
    BY DEF CanStep, Join
<1> HIDE DEF Sq
<1>2. PICK f \in [0 .. n -> Sq] : f[0] = <<>> /\ \A k \in 1 .. n : f[k] = step[k][f[k - 1]]
    <2> HIDE DEF step
    <2> QED
        BY <1>1, Iterates, SMTT(30) DEF HasIterates
<1>3. \A k \in 1 .. n : f[k] = Join(f[k - 1], s[k])
    <2> TAKE k \in 1 .. n
    <2>1. f[k - 1] \in Sq
        BY <1>2
    <2> QED
        BY <1>2, <2>1
<1> QED
    BY <1>2, <1>3 DEF Flattens, Sq

LEMMA FlattenIs ==
    ASSUME NEW A, NEW n \in Nat, NEW s \in [1 .. n -> Seq(A)], NEW f, Flattens(f, s, n, A)
    PROVE  FlattenSeq(s) = f[n] /\ FlattenSeq(s) \in Seq(A)
<1> DEFINE Sq == Seq(A)
           Body(g) == [k \in 1 .. n |-> IF k = 1 THEN s[1] ELSE Join(g[k - 1], s[k])]
           U == CHOOSE g : g = Body(g)
<1>1. s \in Seq(Sq) /\ Len(s) = n /\ DOMAIN s = 1 .. n
    OBVIOUS
<1>2. CASE n = 0
    <2>1. s = <<>> /\ f[0] = <<>>
        BY <1>1, <1>2 DEF Flattens
    <2>2. FlattenSeq(s) = s
        BY <1>1, <1>2 DEF FlattenSeq
    <2>3. <<>> \in Seq(A) /\ f[n] = <<>>
        BY <1>2, <2>1
    <2> QED
        BY <2>1, <2>2, <2>3
<1>3. CASE n # 0
    <2>1. FlattenSeq(s) = U[n]
        <3> DEFINE Other(g) == [k \in 1 .. n |-> IF k = 1 THEN s[k] ELSE g[k - 1] \o s[k]]
        <3>1. FlattenSeq(s) = (CHOOSE g : g = Other(g))[n]
            <4> DEFINE m == Len(s)
            <4>1. FlattenSeq(s) = IF m = 0 THEN s ELSE
                       (CHOOSE g : g = [k \in 1 .. m |-> IF k = 1 THEN s[k] ELSE g[k - 1] \o s[k]])[m]
                BY DEF FlattenSeq
            <4>2. m = n
                BY <1>1
            <4> HIDE DEF m
            <4> QED
                BY <1>3, <4>1, <4>2
        <3>2. \A g : Other(g) = Body(g)
            BY DEF Join
        <3> HIDE DEF Other, Body
        <3>3. \A g : g = Other(g) <=> g = Body(g)
            BY <3>2
        <3>4. (CHOOSE g : g = Other(g)) = (CHOOSE g : g = Body(g))
            BY <3>3
        <3> QED
            BY <3>1, <3>4
    <2>2. f \in [0 .. n -> Sq] /\ f[0] = <<>> /\ \A k \in 1 .. n : f[k] = Join(f[k - 1], s[k])
        BY DEF Flattens
    <2>3. \A k \in 1 .. n : s[k] \in Sq
        OBVIOUS
    <2>4. Join(<<>>, s[1]) = s[1]
        BY <1>3, ConcatEmptySeq DEF Join
    <2> DEFINE h == [k \in 1 .. n |-> f[k]]
    <2>5. h = Body(h)
        <3>1. \A k \in 1 .. n : f[k] = IF k = 1 THEN s[1] ELSE Join(h[k - 1], s[k])
            <4> TAKE k \in 1 .. n
            <4>1. f[k] = Join(f[k - 1], s[k])
                BY <2>2
            <4>2. CASE k = 1
                BY <2>2, <2>4, <4>1, <4>2
            <4>3. CASE k # 1
                <5>1. h[k - 1] = f[k - 1]
                    BY <4>3
                <5> HIDE DEF h
                <5> QED
                    BY <4>1, <4>3, <5>1
            <4> HIDE DEF h
            <4> QED
                BY <4>2, <4>3
        <3> HIDE DEF h
        <3>2. \A k \in 1 .. n : h[k] = IF k = 1 THEN s[1] ELSE Join(h[k - 1], s[k])
            BY <3>1 DEF h
        <3>3. h = [k \in 1 .. n |-> h[k]]
            BY DEF h
        <3> QED
            BY <3>2, <3>3
    <2>6. U = Body(U)
        <3> HIDE DEF Body, h
        <3> QED
            BY <2>5
    <2> HIDE DEF U
    <2>7. \A k \in 1 .. n : U[k] = IF k = 1 THEN s[1] ELSE Join(U[k - 1], s[k])
        BY <2>6
    <2> HIDE DEF Sq
    <2> DEFINE P == {k \in 0 .. n : k = 0 \/ U[k] = f[k]}
    <2>8. 0 \in P
        OBVIOUS
    <2>9. ASSUME NEW k \in 1 .. n, k - 1 \in P
          PROVE  k \in P
        BY <2>2, <2>4, <2>7, <2>9
    <2> HIDE DEF P
    <2>10. 0 .. n \subseteq P
        BY <2>8, <2>9, UpTo
    <2>11. n \in P /\ n \in 0 .. n
        BY <2>10
    <2>12. U[n] = f[n] /\ f[n] \in Sq
        BY <1>3, <2>2, <2>11 DEF P
    <2> QED
        BY <2>1, <2>12 DEF Sq
<1> QED
    BY <1>2, <1>3

\* One sequence more.
LEMMA FlattenGrows ==
    ASSUME NEW A, NEW n \in Nat, NEW s \in [1 .. n + 1 -> Seq(A)], NEW r \in [1 .. n -> Seq(A)],
           \A k \in 1 .. n : r[k] = s[k]
    PROVE  /\ FlattenSeq(s) = FlattenSeq(r) \o s[n + 1]
           /\ FlattenSeq(r) \in Seq(A) /\ FlattenSeq(s) \in Seq(A)
<1> DEFINE Sq == Seq(A)
<1>1. PICK f : Flattens(f, s, n + 1, A)
    BY FlattenExists
<1>2. f \in [0 .. n + 1 -> Sq] /\ f[0] = <<>> /\ \A k \in 1 .. n + 1 : f[k] = Join(f[k - 1], s[k])
    BY <1>1 DEF Flattens
<1> HIDE DEF Sq
<1> DEFINE g == [k \in 0 .. n |-> f[k]]
<1>3. g \in [0 .. n -> Sq] /\ g[0] = <<>> /\ \A k \in 1 .. n : g[k] = Join(g[k - 1], r[k])
    BY <1>2, SMTT(30)
<1>4. g[n] = f[n]
    OBVIOUS
<1> HIDE DEF g
<1>5. Flattens(g, r, n, A)
    BY <1>3 DEF Flattens, Sq
<1>6. FlattenSeq(s) = f[n + 1] /\ FlattenSeq(s) \in Seq(A)
    BY <1>1, FlattenIs
<1>7. FlattenSeq(r) = g[n] /\ FlattenSeq(r) \in Seq(A)
    BY <1>5, FlattenIs
<1>8. f[n + 1] = f[n] \o s[n + 1]
    <2>1. PICK k : k = n + 1
        OBVIOUS
    <2>2. f[k] = Join(f[k - 1], s[k]) /\ k - 1 = n
        BY <1>2, <2>1
    <2> QED
        BY <2>1, <2>2 DEF Join
<1> QED
    BY <1>4, <1>6, <1>7, <1>8

\* No sequence at all.
LEMMA FlattenNone ==
    ASSUME NEW s \in [1 .. 0 -> Seq({})]
    PROVE  FlattenSeq(s) = <<>>
<1>1. PICK f : Flattens(f, s, 0, {})
    BY FlattenExists
<1> QED
    BY <1>1, FlattenIs DEF Flattens

LEMMA GenFlattenSeq == ASSUME NEW s PROVE Gen!FlattenSeq(s) = FlattenSeq(s)
  BY Zenon DEF Gen!FlattenSeq, FlattenSeq

-----------------------------------------------------------------------------
(***************************************************************************)
(* The script and the generator                                            *)
(***************************************************************************)
LEMMA ScriptFamilies ==
    ASSUME NEW id
    PROVE  /\ Gen!FirstOf("sat", id) <=> Gen!IsTemplate(id, "satellite")
           /\ Gen!FirstOf("ut", id) <=> Gen!IsTemplate(id, "user-terminal")
           /\ Gen!owned(id) = None <=> Gen!PassesThrough(id)
<1>1. None # "drop" /\ None # "sat" /\ None # "ut"
    BY ConstellationAssumption DEF Gen!TransformAssumption
<1>2. Gen!owned(id) = IF id.family = "drop" THEN "drop"
                      ELSE IF id.family = "satellite" THEN "sat"
                      ELSE IF id.family = "user-terminal" THEN "ut" ELSE None
    BY DEF Gen!owned
<1> QED
    BY <1>1, <1>2 DEF Gen!FirstOf, Gen!IsTemplate, Gen!PassesThrough, Gen!Clones

\* What the script collects of the template is what the generator does.
LEMMA ScriptTemplates ==
    /\ Gen!Tpl("sat") = Gen!TemplateOf("satellite") /\ Gen!Tpl("ut") = Gen!TemplateOf("user-terminal")
    /\ Gen!RelTpl("sat") = Gen!KeptRels("satellite") /\ Gen!RelTpl("ut") = Gen!KeptRels("user-terminal")
    /\ Gen!KeptEnts = Gen!At(template.ents, {n \in DOMAIN template.ents : Gen!PassesThrough(template.ents[n])})
    /\ Gen!kept_rels = Gen!At(template.rels, {n \in DOMAIN template.rels :
                                                 /\ Gen!PassesThrough(template.rels[n].a)
                                                 /\ Gen!PassesThrough(template.rels[n].z)})
<1> DEFINE es == template.ents
           rs == template.rels
<1>1. /\ {n \in DOMAIN es : Gen!FirstOf("sat", es[n])} = {n \in DOMAIN es : Gen!IsTemplate(es[n], "satellite")}
      /\ {n \in DOMAIN es : Gen!FirstOf("ut", es[n])} = {n \in DOMAIN es : Gen!IsTemplate(es[n], "user-terminal")}
      /\ {n \in DOMAIN es : Gen!owned(es[n]) = None} = {n \in DOMAIN es : Gen!PassesThrough(es[n])}
    BY ScriptFamilies
<1>2. {n \in DOMAIN rs : Gen!FirstOf("sat", rs[n].a) /\ Gen!FirstOf("sat", rs[n].z)}
         = {n \in DOMAIN rs : Gen!IsTemplate(rs[n].a, "satellite") /\ Gen!IsTemplate(rs[n].z, "satellite")}
    BY ScriptFamilies
<1>3. {n \in DOMAIN rs : Gen!FirstOf("ut", rs[n].a) /\ Gen!FirstOf("ut", rs[n].z)}
         = {n \in DOMAIN rs : Gen!IsTemplate(rs[n].a, "user-terminal") /\ Gen!IsTemplate(rs[n].z, "user-terminal")}
    BY ScriptFamilies
<1>4. {n \in DOMAIN rs : Gen!owned(rs[n].a) = None /\ Gen!owned(rs[n].z) = None}
         = {n \in DOMAIN rs : Gen!PassesThrough(rs[n].a) /\ Gen!PassesThrough(rs[n].z)}
    BY ScriptFamilies
<1>5. Gen!Tpl("sat") = Gen!TemplateOf("satellite") /\ Gen!Tpl("ut") = Gen!TemplateOf("user-terminal")
    BY <1>1 DEF Gen!Tpl, Gen!TemplateOf
<1>6. Gen!RelTpl("sat") = Gen!KeptRels("satellite") /\ Gen!RelTpl("ut") = Gen!KeptRels("user-terminal")
    BY <1>2, <1>3 DEF Gen!RelTpl, Gen!KeptRels
<1>7. Gen!KeptEnts = Gen!At(es, {n \in DOMAIN es : Gen!PassesThrough(es[n])})
    BY <1>1 DEF Gen!KeptEnts
<1>8. Gen!kept_rels = Gen!At(rs, {n \in DOMAIN rs : Gen!PassesThrough(rs[n].a) /\ Gen!PassesThrough(rs[n].z)})
    BY <1>4 DEF Gen!kept_rels
<1> QED
    BY <1>5, <1>6, <1>7, <1>8

-----------------------------------------------------------------------------
(***************************************************************************)
(* Planes and slots by division                                            *)
(***************************************************************************)
LEMMA QuotientUnique ==
    ASSUME NEW C \in Nat \ {0}, NEW q \in Int, NEW r \in 0 .. C - 1
    PROVE  ((C * q) + r) \div C = q
  OBVIOUS

LEMMA TimesGrows ==
    ASSUME NEW C \in Nat, NEW x \in Int, NEW y \in Int, x <= y
    PROVE  C * x <= C * y
  OBVIOUS

\* The plane and the slot of the next satellite.
LEMMA NextPlaneAndSlot ==
    ASSUME NEW S \in Nat \ {0}, NEW n \in Nat
    PROVE  /\ n \div S \in Nat /\ n % S \in 0 .. S - 1
           /\ (n + 1) \div S = IF n % S = S - 1 THEN (n \div S) + 1 ELSE n \div S
           /\ (n + 1) % S = IF n % S = S - 1 THEN 0 ELSE (n % S) + 1
<1> DEFINE d == n \div S
           r == n % S
<1>1. n = (S * d) + r /\ r \in 0 .. S - 1 /\ d \in Int
    BY Remainder
<1> HIDE DEF d, r
<1>2. d \in Nat
    <2>1. CASE d < 0
        <3>1. S * d <= S * (-1)
            BY <1>1, <2>1, TimesGrows
        <3>2. S * (-1) = -S /\ S * d \in Int
            BY <1>1
        <3> QED
            BY <1>1, <3>1, <3>2
    <2> QED
        BY <1>1, <2>1
<1>3. CASE r = S - 1
    <2>1. S * (d + 1) = (S * d) + S /\ S * d \in Int
        BY <1>1
    <2>2. n + 1 = (S * (d + 1)) + 0
        BY <1>1, <1>3, <2>1
    <2>3. 0 \in 0 .. S - 1 /\ d + 1 \in Int
        BY <1>1
    <2>4. (n + 1) \div S = d + 1
        BY <2>2, <2>3, QuotientUnique
    <2>5. (n + 1) % S = 0
        BY <2>2, <2>3, RemainderUnique
    <2> QED
        BY <1>1, <1>2, <1>3, <2>4, <2>5 DEF d, r
<1>4. CASE r # S - 1
    <2>1. n + 1 = (S * d) + (r + 1)
        <3>1. S * d \in Int
            BY <1>1
        <3> QED
            BY <1>1, <3>1
    <2>2. r + 1 \in 0 .. S - 1
        BY <1>1, <1>4
    <2>3. (n + 1) \div S = d
        BY <1>1, <2>1, <2>2, QuotientUnique
    <2>4. (n + 1) % S = r + 1
        BY <1>1, <2>1, <2>2, RemainderUnique
    <2> QED
        BY <1>1, <1>2, <1>4, <2>3, <2>4 DEF d, r
<1> QED
    BY <1>3, <1>4

\* The arguments are those of the script for P planes of S satellites.
IsWalker(P, S) == [elems |-> elems, plane_uid |-> plane_uid] = Gen!Walker(P, S)

LEMMA WalkerArguments ==
    ASSUME ArgumentsType, NEW P \in Nat \ {0}, NEW S \in Nat \ {0}, IsWalker(P, S)
    PROVE  /\ P * S = Len(elems) /\ DOMAIN plane_uid = 1 .. P * S
           /\ \A k \in 1 .. Len(elems) :
                 /\ plane_uid[k] = (k - 1) \div S
                 /\ elems[k] = [a |-> SEMIMAJOR_AXIS, ecc |-> 0, M |-> Gen!ta(k, P, S)]
<1> DEFINE w == Gen!Walker(P, S)
           N == P * S
<1>1. elems = w.elems /\ plane_uid = w.plane_uid
    BY DEF IsWalker
<1>2. /\ w.elems = [k \in 1 .. N |-> [a |-> SEMIMAJOR_AXIS, ecc |-> 0, M |-> Gen!ta(k, P, S)]]
      /\ w.plane_uid = [k \in 1 .. N |-> (k - 1) \div S]
    BY DEF Gen!Walker, Gen!p
<1>3. N \in Nat
    OBVIOUS
<1> HIDE DEF w, N
<1>4. DOMAIN elems = 1 .. N /\ DOMAIN plane_uid = 1 .. N
    BY <1>1, <1>2
<1>5. DOMAIN elems = 1 .. Len(elems) /\ Len(elems) \in Nat
    BY DEF ArgumentsType
<1>6. N = Len(elems)
    BY <1>3, <1>4, <1>5
<1> QED
    BY <1>1, <1>2, <1>4, <1>6 DEF N

\* The planes in use are the first P numbers, and each is its own rank.
LEMMA PlaneRanks ==
    ASSUME ArgumentsType, NEW P \in Nat \ {0}, NEW S \in Nat \ {0}, IsWalker(P, S)
    PROVE  /\ ToSet(plane_uid) = 0 .. P - 1 /\ Cardinality(ToSet(plane_uid)) = P
           /\ \A d \in 0 .. P - 1 : Gen!PlaneRank(d) = d
           /\ \A n \in 0 .. Len(elems) - 1 : n \div S \in 0 .. P - 1
<1>1. /\ P * S = Len(elems) /\ DOMAIN plane_uid = 1 .. Len(elems) /\ Len(elems) \in Nat
      /\ \A k \in 1 .. Len(elems) : plane_uid[k] = (k - 1) \div S
    <2>1. P * S \in Nat
        OBVIOUS
    <2> QED
        BY <2>1, WalkerArguments
<1>2. ASSUME NEW n \in 0 .. Len(elems) - 1
      PROVE  n \div S \in 0 .. P - 1
    <2> DEFINE d == n \div S
               r == n % S
    <2>0. n \in Nat /\ n \in Int /\ n <= Len(elems) - 1 /\ Len(elems) \in Int
        BY <1>1
    <2>1. n = (S * d) + r /\ r \in 0 .. S - 1 /\ d \in Int
        BY <2>0, Remainder
    <2>2. d \in Nat
        BY <2>0, NextPlaneAndSlot
    <2> HIDE DEF d, r
    <2>3. ASSUME P <= d
          PROVE  FALSE
        <3>1. S * P <= S * d /\ S * P = Len(elems) /\ S * d \in Int
            BY <1>1, <2>1, <2>3, TimesGrows
        <3> QED
            BY <2>0, <2>1, <3>1
    <2>4. d \in 0 .. P - 1
        BY <2>2, <2>3
    <2> QED
        BY <2>4 DEF d
<1>3. ASSUME NEW d \in 0 .. P - 1
      PROVE  \E k \in 1 .. Len(elems) : plane_uid[k] = d
    <2> DEFINE n == S * d
    <2>1. n \in Int /\ n >= 0
        <3>1. S * 0 <= S * d
            BY TimesGrows
        <3> QED
            BY <3>1
    <2>2. n + S <= S * P
        <3>1. S * (d + 1) <= S * P
            BY TimesGrows
        <3>2. S * (d + 1) = n + S
            OBVIOUS
        <3> QED
            BY <3>1, <3>2
    <2>3. S * P = Len(elems)
        BY <1>1
    <2>4. (n + 0) \div S = d
        BY QuotientUnique
    <2> HIDE DEF n
    <2>5. n + 1 \in 1 .. Len(elems) /\ (n + 1) - 1 = n + 0
        BY <1>1, <2>1, <2>2, <2>3
    <2> QED
        BY <1>1, <2>4, <2>5
<1>4. ToSet(plane_uid) = 0 .. P - 1
    <2>1. ASSUME NEW k \in 1 .. Len(elems)
          PROVE  plane_uid[k] \in 0 .. P - 1
        <3>1. k - 1 \in 0 .. Len(elems) - 1
            BY <1>1
        <3> QED
            BY <1>1, <1>2, <3>1
    <2> QED
        BY <1>1, <1>3, <2>1 DEF ToSet
<1>5. \A d \in 0 .. P : Cardinality(0 .. d - 1) = d
    BY FS_Interval
<1>6. ASSUME NEW d \in 0 .. P - 1
      PROVE  Gen!PlaneRank(d) = d
    <2>1. {q \in 0 .. P - 1 : q < d} = 0 .. d - 1
        OBVIOUS
    <2>2. Gen!PlaneRank(d) = Cardinality({q \in ToSet(plane_uid) : q < d})
        BY GenCardinality, GenToSet DEF Gen!PlaneRank
    <2>3. Cardinality(0 .. d - 1) = d
        BY <1>5
    <2> QED
        BY <1>4, <2>1, <2>2, <2>3
<1>7. Cardinality(0 .. P - 1) = P
    BY <1>5
<1> QED
    BY <1>2, <1>4, <1>6, <1>7

-----------------------------------------------------------------------------
(***************************************************************************)
(* What was built so far is what the script builds                         *)
(***************************************************************************)
KeptRows == [b \in DOMAIN Gen!KeptEnts |-> Gen!Block(Gen!KeptEnts[b])]
SatRows(n, P, S) == FlattenSeq([k \in 1 .. n |-> Gen!SatBlocks(k, P, S)])
UtRows(n) == FlattenSeq([k \in 1 .. n |-> Gen!UtBlocks(k)])
RelRows(fam, n) == FlattenSeq([k \in 1 .. n |-> Gen!RelClones(fam, k)])
DemandsFor(k) == <<[head |-> Gen!PopRoute, end |-> Gen!TerminalRoute(k)],
                   [head |-> Gen!TerminalRoute(k), end |-> Gen!PopRoute]>>
DemandRows(n) == FlattenSeq([k \in 1 .. n |-> DemandsFor(k)])

\* After n satellites the planes up to the n-th satellite's are full.
Counted(n, P, S) ==
    \A d \in 0 .. P - 1 : slot_count[d] = IF d < n \div S THEN S ELSE IF d = n \div S THEN n % S ELSE 0

BuiltAsScript(P, S) ==
    /\ gen # "sort" =>
          /\ out = (KeptRows \o SatRows(SatsDone, P, S)) \o UtRows(UtsDone)
          /\ out_rels = (Gen!kept_rels \o RelRows("sat", SatsDone)) \o RelRows("ut", UtsDone)
    /\ prov = DemandRows(UtsDone)
    /\ gen \in {"sort", "satellites"} => Counted(SatsDone, P, S)

ScriptInv ==
    GenInv /\ \A P, S \in 1 .. Len(elems) : IsWalker(P, S) => BuiltAsScript(P, S)

LEMMA RowsGrow ==
    ASSUME NEW A, NEW n \in Nat, NEW row, \A k \in 1 .. n + 1 : row[k] \in Seq(A)
    PROVE  /\ FlattenSeq([k \in 1 .. n + 1 |-> row[k]]) = FlattenSeq([k \in 1 .. n |-> row[k]]) \o row[n + 1]
           /\ FlattenSeq([k \in 1 .. n |-> row[k]]) \in Seq(A)
           /\ FlattenSeq([k \in 1 .. 0 |-> row[k]]) = <<>>
<1> DEFINE Sq == Seq(A)
           more == [k \in 1 .. n + 1 |-> row[k]]
           less == [k \in 1 .. n |-> row[k]]
<1>1. more \in [1 .. n + 1 -> Sq] /\ less \in [1 .. n -> Sq] /\ \A k \in 1 .. n : less[k] = more[k]
    OBVIOUS
<1>2. more[n + 1] = row[n + 1]
    OBVIOUS
<1>3. [k \in 1 .. 0 |-> row[k]] \in [1 .. 0 -> Seq({})]
    OBVIOUS
<1>4. FlattenSeq([k \in 1 .. 0 |-> row[k]]) = <<>>
    BY <1>3, FlattenNone
<1> HIDE DEF more, less
<1>5. FlattenSeq(more) = FlattenSeq(less) \o more[n + 1] /\ FlattenSeq(less) \in Seq(A)
    BY <1>1, FlattenGrows
<1> QED
    BY <1>2, <1>4, <1>5 DEF more, less

\* Rows put at the end, before nothing and after everything.
LEMMA PutInFront ==
    ASSUME NEW A, NEW s \in Seq(A), NEW t \in Seq(A), NEW u \in Seq(A)
    PROVE  ((s \o t) \o <<>>) \o u = (s \o (t \o u)) \o <<>>
<1>1. s \o t \in Seq(A) /\ t \o u \in Seq(A) /\ s \o (t \o u) \in Seq(A)
    BY ConcatProperties
<1>2. (s \o t) \o <<>> = s \o t /\ (s \o (t \o u)) \o <<>> = s \o (t \o u)
    BY <1>1, ConcatEmptySeq
<1>3. (s \o t) \o u = s \o (t \o u)
    BY ConcatAssociative
<1> QED
    BY <1>2, <1>3

\* The blocks of a satellite and of a terminal, as the script makes them.
LEMMA ScriptBlocks ==
    ASSUME GenInv, NEW P \in 1 .. Len(elems), NEW S \in 1 .. Len(elems), IsWalker(P, S),
           NEW k \in 1 .. Len(elems)
    PROVE  /\ Gen!SatBlocks(k, P, S) \in Seq(Blocks)
           /\ DOMAIN Gen!SatBlocks(k, P, S) = DOMAIN Gen!TemplateOf("satellite")
           /\ \A b \in DOMAIN Gen!TemplateOf("satellite") :
                 Gen!SatBlocks(k, P, S)[b] =
                     [id |-> Gen!Renumbered(Gen!TemplateOf("satellite")[b], k),
                      grid |-> <<((k - 1) \div S) + 1, ((k - 1) % S) + 1>>,
                      kepler |-> IF Gen!TemplateOf("satellite")[b].part = "platform"
                                 THEN Gen!PatchedKepler(k) ELSE None]
<1> DEFINE tpl == Gen!TemplateOf("satellite")
           bs == Gen!SatBlocks(k, P, S)
           cell == <<((k - 1) \div S) + 1, ((k - 1) % S) + 1>>
           Entry(id) == [id |-> Gen!Renumbered(id, k),
                         grid |-> cell,
                         kepler |-> IF id.part = "platform" THEN Gen!PatchedKepler(k) ELSE None]
<1>1. bs = [b \in DOMAIN tpl |-> Gen!SatBlock(tpl[b], k, P, S)]
    BY ScriptTemplates DEF Gen!SatBlocks
<1>2. Len(elems) \in Nat /\ P \in Nat \ {0} /\ S \in Nat \ {0} /\ k \in Nat /\ k - 1 \in Nat
    BY DEF GenInv, ArgumentsType
<1>3. elems[k] = [a |-> SEMIMAJOR_AXIS, ecc |-> 0, M |-> Gen!ta(k, P, S)]
    BY <1>2, WalkerArguments DEF GenInv
<1>4. Gen!PatchedKepler(k) = [a |-> SEMIMAJOR_AXIS, ecc |-> 0, nu |-> Gen!ta(k, P, S), epoch |-> ref_epoch_s]
    BY <1>3 DEF Gen!PatchedKepler
<1>5. \A id : Gen!SatBlock(id, k, P, S) = Entry(id)
    BY <1>4 DEF Gen!SatBlock, Gen!p, Gen!s
<1>6. tpl \in Seq(Gen!IdRecords)
    BY TemplateOfFacts DEF GenInv
<1>7. cell \in Nat \X Nat
    <2>1. PICK n \in Nat : n = k - 1
        BY <1>2
    <2>2. n \div S \in Nat /\ n % S \in 0 .. S - 1
        BY <1>2, <2>1, NextPlaneAndSlot
    <2>3. (n \div S) + 1 \in Nat /\ (n % S) + 1 \in Nat
        BY <1>2, <2>2
    <2> QED
        BY <2>1, <2>3
<1>8. Gen!PatchedKepler(k) \in KeplerElements
    BY PatchedType
<1> HIDE DEF cell
<1>9. \A id \in Gen!IdRecords : Entry(id) \in Blocks
    <2> TAKE id \in Gen!IdRecords
    <2>1. Gen!Renumbered(id, k) \in Gen!IdRecords
        BY <1>2, RenumberedId
    <2> QED
        BY <1>7, <1>8, <2>1 DEF Blocks
<1> HIDE DEF tpl, bs, Entry
<1>10. DOMAIN tpl = 1 .. Len(tpl) /\ Len(tpl) \in Nat /\ \A b \in DOMAIN tpl : tpl[b] \in Gen!IdRecords
    BY <1>6
<1>11. DOMAIN bs = DOMAIN tpl /\ \A b \in DOMAIN tpl : bs[b] = Entry(tpl[b])
    BY <1>1, <1>5
<1>12. bs \in Seq(Blocks)
    <2>1. bs = [b \in 1 .. Len(tpl) |-> Entry(tpl[b])]
        BY <1>1, <1>5, <1>10
    <2>2. bs \in [1 .. Len(tpl) -> Blocks]
        BY <1>9, <1>10, <2>1
    <2> QED
        BY <1>10, <2>2
<1> QED
    BY <1>11, <1>12 DEF tpl, bs, Entry, cell

LEMMA ScriptTerminals ==
    ASSUME GenInv, NEW k \in Nat
    PROVE  /\ Gen!UtBlocks(k) \in Seq(Blocks)
           /\ Gen!UtBlocks(k) = [b \in DOMAIN Gen!TemplateOf("user-terminal") |->
                                    Gen!Block(Gen!Renumbered(Gen!TemplateOf("user-terminal")[b], k))]
<1> DEFINE tpl == Gen!TemplateOf("user-terminal")
<1>1. Gen!UtBlocks(k) = [b \in DOMAIN tpl |-> Gen!Block(Gen!Renumbered(tpl[b], k))]
    BY ScriptTemplates DEF Gen!UtBlocks
<1>2. tpl \in Seq(Gen!IdRecords)
    BY TemplateOfFacts DEF GenInv
<1> HIDE DEF tpl
<1>3. DOMAIN tpl = 1 .. Len(tpl) /\ Len(tpl) \in Nat /\ \A b \in DOMAIN tpl : tpl[b] \in Gen!IdRecords
    BY <1>2
<1>4. \A b \in DOMAIN tpl : Gen!Block(Gen!Renumbered(tpl[b], k)) \in Blocks
    BY <1>3, RenumberedId, BlockType
<1>5. Gen!UtBlocks(k) \in [1 .. Len(tpl) -> Blocks]
    BY <1>1, <1>3, <1>4
<1>6. Gen!UtBlocks(k) \in Seq(Blocks)
    BY <1>3, <1>5
<1> QED
    BY <1>1, <1>6 DEF tpl

Ends == [a : Gen!IdRecords, z : Gen!IdRecords]
Demands == [head : Gen!IdRecords, end : Gen!IdRecords]

LEMMA ScriptRels ==
    ASSUME GenInv, NEW k \in Nat
    PROVE  /\ Gen!RelClones("sat", k) = Gen!RenumberedRels(Gen!KeptRels("satellite"), k)
           /\ Gen!RelClones("ut", k) = Gen!RenumberedRels(Gen!KeptRels("user-terminal"), k)
           /\ Gen!RelClones("sat", k) \in Seq(Ends) /\ Gen!RelClones("ut", k) \in Seq(Ends)
<1>1. /\ Gen!RelClones("sat", k) = Gen!RenumberedRels(Gen!KeptRels("satellite"), k)
      /\ Gen!RelClones("ut", k) = Gen!RenumberedRels(Gen!KeptRels("user-terminal"), k)
    BY ScriptTemplates DEF Gen!RelClones, Gen!RenumberedRels
<1>2. ASSUME NEW family
      PROVE  Gen!RenumberedRels(Gen!KeptRels(family), k) \in Seq(Ends)
    BY CloneRels DEF GenInv, Ends
<1> QED
    BY <1>1, <1>2

LEMMA ScriptDemands ==
    ASSUME GenInv, NEW k \in Nat
    PROVE  DemandsFor(k) \in Seq(Demands)
<1>1. Gen!PopRoute \in Gen!IdRecords /\ Gen!TerminalRoute(k) \in Gen!IdRecords
    <2> DEFINE x == Gen!Id("user-terminal", 1, "route-fn")
    <2>1. Gen!PopRoute \in Gen!IdRecords /\ x \in Gen!IdRecords
        BY TemplateFacts DEF GenInv
    <2>2. Gen!TerminalRoute(k) = Gen!Renumbered(x, k)
        BY DEF Gen!TerminalRoute, Gen!Renumbered, Gen!Id
    <2> HIDE DEF x
    <2> QED
        BY <2>1, <2>2, RenumberedId
<1> DEFINE x == [head |-> Gen!PopRoute, end |-> Gen!TerminalRoute(k)]
           y == [head |-> Gen!TerminalRoute(k), end |-> Gen!PopRoute]
<1>2. x \in Demands /\ y \in Demands
    BY <1>1 DEF Demands
<1> HIDE DEF x, y, Demands
<1>3. <<x, y>> \in Seq(Demands)
    BY <1>2
<1> QED
    BY <1>3 DEF DemandsFor, x, y

\* One number more.
LEMMA MoreSatRows ==
    ASSUME GenInv, NEW P \in 1 .. Len(elems), NEW S \in 1 .. Len(elems), IsWalker(P, S),
           NEW n \in Nat, n < Len(elems)
    PROVE  /\ SatRows(n + 1, P, S) = SatRows(n, P, S) \o Gen!SatBlocks(n + 1, P, S)
           /\ SatRows(n, P, S) \in Seq(Blocks)
<1> DEFINE row == [k \in 1 .. n + 1 |-> Gen!SatBlocks(k, P, S)]
<1>1. Len(elems) \in Nat
    BY DEF GenInv, ArgumentsType
<1>2. ASSUME NEW k \in 1 .. n + 1
      PROVE  row[k] \in Seq(Blocks)
    <2>1. k \in 1 .. Len(elems)
        BY <1>1
    <2> QED
        BY <2>1, ScriptBlocks
<1>3. /\ [k \in 1 .. n + 1 |-> row[k]] = [k \in 1 .. n + 1 |-> Gen!SatBlocks(k, P, S)]
      /\ [k \in 1 .. n |-> row[k]] = [k \in 1 .. n |-> Gen!SatBlocks(k, P, S)]
      /\ row[n + 1] = Gen!SatBlocks(n + 1, P, S)
    OBVIOUS
<1> HIDE DEF row
<1>4. /\ FlattenSeq([k \in 1 .. n + 1 |-> row[k]]) = FlattenSeq([k \in 1 .. n |-> row[k]]) \o row[n + 1]
      /\ FlattenSeq([k \in 1 .. n |-> row[k]]) \in Seq(Blocks)
    BY <1>2, RowsGrow
<1> QED
    BY <1>3, <1>4 DEF SatRows

LEMMA MoreUtRows ==
    ASSUME GenInv, NEW n \in Nat
    PROVE  /\ UtRows(n + 1) = UtRows(n) \o Gen!UtBlocks(n + 1) /\ UtRows(n) \in Seq(Blocks)
<1> DEFINE row == [k \in 1 .. n + 1 |-> Gen!UtBlocks(k)]
<1>1. \A k \in 1 .. n + 1 : row[k] \in Seq(Blocks)
    BY ScriptTerminals
<1>2. /\ [k \in 1 .. n + 1 |-> row[k]] = [k \in 1 .. n + 1 |-> Gen!UtBlocks(k)]
      /\ [k \in 1 .. n |-> row[k]] = [k \in 1 .. n |-> Gen!UtBlocks(k)]
      /\ row[n + 1] = Gen!UtBlocks(n + 1)
    OBVIOUS
<1> HIDE DEF row
<1>3. /\ FlattenSeq([k \in 1 .. n + 1 |-> row[k]]) = FlattenSeq([k \in 1 .. n |-> row[k]]) \o row[n + 1]
      /\ FlattenSeq([k \in 1 .. n |-> row[k]]) \in Seq(Blocks)
    BY <1>1, RowsGrow
<1> QED
    BY <1>2, <1>3 DEF UtRows

LEMMA MoreRelRows ==
    ASSUME GenInv, NEW n \in Nat, NEW fam \in {"sat", "ut"}
    PROVE  /\ RelRows(fam, n + 1) = RelRows(fam, n) \o Gen!RelClones(fam, n + 1)
           /\ RelRows(fam, n) \in Seq(Ends)
<1> DEFINE row == [k \in 1 .. n + 1 |-> Gen!RelClones(fam, k)]
<1>1. \A k \in 1 .. n + 1 : row[k] \in Seq(Ends)
    <2> HIDE DEF Ends
    <2>1. \A k \in Nat : Gen!RelClones(fam, k) \in Seq(Ends)
        BY ScriptRels
    <2> QED
        BY <2>1
<1>2. /\ [k \in 1 .. n + 1 |-> row[k]] = [k \in 1 .. n + 1 |-> Gen!RelClones(fam, k)]
      /\ [k \in 1 .. n |-> row[k]] = [k \in 1 .. n |-> Gen!RelClones(fam, k)]
      /\ row[n + 1] = Gen!RelClones(fam, n + 1)
    OBVIOUS
<1> HIDE DEF row, Ends
<1>3. /\ FlattenSeq([k \in 1 .. n + 1 |-> row[k]]) = FlattenSeq([k \in 1 .. n |-> row[k]]) \o row[n + 1]
      /\ FlattenSeq([k \in 1 .. n |-> row[k]]) \in Seq(Ends)
    BY <1>1, RowsGrow
<1> QED
    BY <1>2, <1>3 DEF RelRows

LEMMA MoreDemandRows ==
    ASSUME GenInv, NEW n \in Nat
    PROVE  DemandRows(n + 1) = DemandRows(n) \o DemandsFor(n + 1)
<1> DEFINE row == [k \in 1 .. n + 1 |-> DemandsFor(k)]
<1>1. \A k \in 1 .. n + 1 : row[k] \in Seq(Demands)
    BY ScriptDemands
<1>2. /\ [k \in 1 .. n + 1 |-> row[k]] = [k \in 1 .. n + 1 |-> DemandsFor(k)]
      /\ [k \in 1 .. n |-> row[k]] = [k \in 1 .. n |-> DemandsFor(k)]
      /\ row[n + 1] = DemandsFor(n + 1)
    OBVIOUS
<1> HIDE DEF row
<1>3. FlattenSeq([k \in 1 .. n + 1 |-> row[k]]) = FlattenSeq([k \in 1 .. n |-> row[k]]) \o row[n + 1]
    BY <1>1, RowsGrow
<1> QED
    BY <1>2, <1>3 DEF DemandRows

LEMMA NoRows ==
    /\ \A P, S : SatRows(0, P, S) = <<>>
    /\ UtRows(0) = <<>> /\ DemandRows(0) = <<>> /\ \A fam : RelRows(fam, 0) = <<>>
<1>1. ASSUME NEW s, DOMAIN s = 1 .. 0, s = [k \in 1 .. 0 |-> s[k]]
      PROVE  FlattenSeq(s) = <<>>
    <2>1. \A k \in 1 .. 0 : s[k] \in Seq({})
        OBVIOUS
    <2>2. s \in [1 .. 0 -> Seq({})]
        BY <1>1, <2>1
    <2> QED
        BY <2>2, FlattenNone
<1>2. \A P, S : SatRows(0, P, S) = <<>>
    BY <1>1 DEF SatRows
<1>3. UtRows(0) = <<>> /\ DemandRows(0) = <<>>
    BY <1>1 DEF UtRows, DemandRows
<1>4. \A fam : RelRows(fam, 0) = <<>>
    BY <1>1 DEF RelRows
<1> QED
    BY <1>2, <1>3, <1>4

\* The rows are those of the arguments.
LEMMA SameRows ==
    ASSUME UNCHANGED <<template, elems, plane_uid, ref_epoch_s>>
    PROVE  /\ KeptRows' = KeptRows /\ Gen!kept_rels' = Gen!kept_rels
           /\ \A n, P, S : SatRows(n, P, S)' = SatRows(n, P, S)
           /\ \A n : UtRows(n)' = UtRows(n) /\ DemandRows(n)' = DemandRows(n)
           /\ \A n, fam : RelRows(fam, n)' = RelRows(fam, n)
           /\ \A P, S : IsWalker(P, S)' <=> IsWalker(P, S)
<1>1. KeptRows' = KeptRows
    BY DEF KeptRows, Gen!KeptEnts
<1>2. Gen!kept_rels' = Gen!kept_rels
    BY DEF Gen!kept_rels
<1>3. \A n, P, S : SatRows(n, P, S)' = SatRows(n, P, S)
    BY DEF SatRows, Gen!SatBlocks, Gen!SatBlock, Gen!Tpl
<1>4. \A n : UtRows(n)' = UtRows(n) /\ DemandRows(n)' = DemandRows(n)
    BY DEF UtRows, Gen!UtBlocks, Gen!Tpl, DemandRows
<1>5. \A n, fam : RelRows(fam, n)' = RelRows(fam, n)
    BY DEF RelRows, Gen!RelClones, Gen!RelTpl
<1>6. \A P, S : IsWalker(P, S)' <=> IsWalker(P, S)
    BY DEF IsWalker
<1> QED
    BY <1>1, <1>2, <1>3, <1>4, <1>5, <1>6

LEMMA InitScript == ASSUME Gen!Init PROVE ScriptInv
<1>1. GenInv
    BY InitGen
<1>2. /\ gen = "sort" /\ prov = <<>>
      /\ slot_count = [d \in 0 .. Cardinality(ToSet(plane_uid)) - 1 |-> 0]
    BY GenCardinality, GenToSet DEF Gen!Init
<1>3. ASSUME NEW P \in 1 .. Len(elems), NEW S \in 1 .. Len(elems), IsWalker(P, S)
      PROVE  BuiltAsScript(P, S)
    <2>1. P \in Nat \ {0} /\ S \in Nat \ {0} /\ SatsDone = 0 /\ UtsDone = 0
        BY <1>1, <1>2 DEF GenInv, ArgumentsType, SatsDone, UtsDone
    <2>2. prov = DemandRows(0)
        BY <1>2, NoRows
    <2>3. Counted(0, P, S)
        <3>1. Cardinality(ToSet(plane_uid)) = P
            BY <1>1, <1>3, <2>1, PlaneRanks DEF GenInv
        <3>2. 0 = (S * 0) + 0 /\ 0 \in 0 .. S - 1 /\ 0 \in Int
            BY <2>1
        <3>3. 0 \div S = 0 /\ 0 % S = 0
            BY <2>1, <3>2, QuotientUnique, RemainderUnique
        <3> QED
            BY <1>2, <3>1, <3>3 DEF Counted
    <2> QED
        BY <1>2, <2>1, <2>2, <2>3 DEF BuiltAsScript
<1> QED
    BY <1>1, <1>3 DEF ScriptInv

\* The rows after a step, told by the numbers it leaves.
LEMMA RowsAfter ==
    ASSUME UNCHANGED <<template, elems, plane_uid, ref_epoch_s>>, NEW P, NEW S,
           NEW n, NEW m, SatsDone' = n, UtsDone' = m
    PROVE  /\ KeptRows' = KeptRows /\ Gen!kept_rels' = Gen!kept_rels
           /\ SatRows(SatsDone, P, S)' = SatRows(n, P, S) /\ UtRows(UtsDone)' = UtRows(m)
           /\ RelRows("sat", SatsDone)' = RelRows("sat", n) /\ RelRows("ut", UtsDone)' = RelRows("ut", m)
           /\ DemandRows(UtsDone)' = DemandRows(m)
<1>1. /\ SatRows(SatsDone, P, S)' = SatRows(n, P, S)' /\ UtRows(UtsDone)' = UtRows(m)'
      /\ RelRows("sat", SatsDone)' = RelRows("sat", n)' /\ RelRows("ut", UtsDone)' = RelRows("ut", m)'
      /\ DemandRows(UtsDone)' = DemandRows(m)'
    BY DEF SatRows, UtRows, RelRows, DemandRows
<1> QED
    BY <1>1, SameRows

LEMMA KeptRowsType ==
    ASSUME ArgumentsType
    PROVE  KeptRows \in Seq(Blocks) /\ Gen!kept_rels \in Seq(Ends)
  BY KeptBlocks, KeptRelationships, ScriptTemplates DEF KeptRows, Ends

LEMMA SortAsScript ==
    ASSUME ScriptInv, Gen!Sort, NEW P \in 1 .. Len(elems), NEW S \in 1 .. Len(elems), IsWalker(P, S)
    PROVE  BuiltAsScript(P, S)'
<1>1. /\ gen = "sort" /\ gen' = "satellites" /\ cloned' = 0
      /\ UNCHANGED <<template, elems, plane_uid, ref_epoch_s, slot_count, prov>>
    BY DEF Gen!Sort, Gen!arguments
<1>2. out' = KeptRows /\ out_rels' = Gen!kept_rels
    BY ScriptTemplates DEF Gen!Sort, KeptRows
<1>3. SatsDone = 0 /\ UtsDone = 0 /\ SatsDone' = 0 /\ UtsDone' = 0
    BY <1>1 DEF SatsDone, UtsDone
<1>4. prov = DemandRows(0) /\ Counted(0, P, S)
    BY <1>1, <1>3 DEF ScriptInv, BuiltAsScript
<1>5. KeptRows \in Seq(Blocks) /\ Gen!kept_rels \in Seq(Ends)
    BY KeptRowsType DEF ScriptInv, GenInv
<1>6. out' = (KeptRows \o SatRows(0, P, S)) \o UtRows(0)
    <2>1. KeptRows \o <<>> = KeptRows
        BY <1>5, ConcatEmptySeq
    <2> QED
        BY <1>2, <2>1, NoRows
<1>7. out_rels' = (Gen!kept_rels \o RelRows("sat", 0)) \o RelRows("ut", 0)
    <2>1. Gen!kept_rels \o <<>> = Gen!kept_rels
        <3> HIDE DEF Ends
        <3> QED
            BY <1>5, ConcatEmptySeq
    <2> QED
        BY <1>2, <2>1, NoRows
<1>8. Counted(0, P, S)'
    BY <1>1, <1>4 DEF Counted
<1>9. /\ KeptRows' = KeptRows /\ Gen!kept_rels' = Gen!kept_rels
      /\ SatRows(SatsDone, P, S)' = SatRows(0, P, S) /\ UtRows(UtsDone)' = UtRows(0)
      /\ RelRows("sat", SatsDone)' = RelRows("sat", 0) /\ RelRows("ut", UtsDone)' = RelRows("ut", 0)
      /\ DemandRows(UtsDone)' = DemandRows(0)
    BY <1>1, <1>3, RowsAfter
<1>10. Counted(SatsDone, P, S)'
    BY <1>3, <1>8 DEF Counted
<1> QED
    BY <1>1, <1>4, <1>6, <1>7, <1>9, <1>10 DEF BuiltAsScript

\* The next satellite's plane and slot are those the script computes, and the
\* planes are filled on.
LEMMA NextCounted ==
    ASSUME GenInv, NEW P \in 1 .. Len(elems), NEW S \in 1 .. Len(elems), IsWalker(P, S),
           NEW n \in Nat, n < Len(elems), Counted(n, P, S)
    PROVE  /\ Gen!PlaneRank(plane_uid[n + 1]) = n \div S /\ Gen!SlotOf(n + 1) = (n % S) + 1
           /\ slot_count' = [slot_count EXCEPT ![n \div S] = @ + 1] => Counted(n + 1, P, S)'
<1>1. Len(elems) \in Nat /\ P \in Nat \ {0} /\ S \in Nat \ {0}
    BY DEF GenInv, ArgumentsType
<1>2. /\ \A k \in 1 .. Len(elems) : plane_uid[k] = (k - 1) \div S
      /\ Cardinality(ToSet(plane_uid)) = P
      /\ \A d \in 0 .. P - 1 : Gen!PlaneRank(d) = d
      /\ \A m \in 0 .. Len(elems) - 1 : m \div S \in 0 .. P - 1
    BY <1>1, WalkerArguments, PlaneRanks DEF GenInv
<1> DEFINE q == n \div S
           r == n % S
<1>3. /\ q \in 0 .. P - 1 /\ r \in 0 .. S - 1
      /\ (n + 1) \div S = IF r = S - 1 THEN q + 1 ELSE q
      /\ (n + 1) % S = IF r = S - 1 THEN 0 ELSE r + 1
    <2>1. n \in 0 .. Len(elems) - 1
        BY <1>1
    <2>2. q \in 0 .. P - 1
        BY <1>2, <2>1
    <2>3. /\ r \in 0 .. S - 1
          /\ (n + 1) \div S = IF r = S - 1 THEN q + 1 ELSE q
          /\ (n + 1) % S = IF r = S - 1 THEN 0 ELSE r + 1
        BY <1>1, NextPlaneAndSlot, Zenon
    <2> QED
        BY <2>2, <2>3
<1>4. plane_uid[n + 1] = q
    <2>1. PICK k \in 1 .. Len(elems) : k = n + 1
        BY <1>1
    <2>2. k - 1 = n
        BY <2>1
    <2> QED
        BY <1>2, <2>1, <2>2
<1>5. slot_count \in [0 .. P - 1 -> Nat]
    BY <1>2 DEF GenInv, LoopType
<1>6. \A d \in 0 .. P - 1 : slot_count[d] = IF d < q THEN S ELSE IF d = q THEN r ELSE 0
    BY DEF Counted
<1> HIDE DEF q, r
<1>7. Gen!PlaneRank(plane_uid[n + 1]) = q /\ Gen!SlotOf(n + 1) = r + 1
    <2>1. Gen!PlaneRank(plane_uid[n + 1]) = q
        BY <1>2, <1>3, <1>4
    <2>2. slot_count[q] = r
        BY <1>1, <1>3, <1>6
    <2> QED
        BY <2>1, <2>2 DEF Gen!SlotOf
<1>8. ASSUME slot_count' = [slot_count EXCEPT ![q] = @ + 1], NEW d \in 0 .. P - 1
      PROVE  slot_count'[d] = IF d < (n + 1) \div S THEN S
                              ELSE IF d = (n + 1) \div S THEN (n + 1) % S ELSE 0
    <2>1. slot_count'[d] = IF d = q THEN slot_count[d] + 1 ELSE slot_count[d]
        BY <1>3, <1>5, <1>8
    <2> DEFINE q1 == (n + 1) \div S
               r1 == (n + 1) % S
    <2>2. q1 = (IF r = S - 1 THEN q + 1 ELSE q) /\ r1 = IF r = S - 1 THEN 0 ELSE r + 1
        BY <1>3
    <2> HIDE DEF q1, r1
    <2>3. slot_count'[d] = IF d < q1 THEN S ELSE IF d = q1 THEN r1 ELSE 0
        BY <1>1, <1>3, <1>6, <2>1, <2>2
    <2> QED
        BY <2>3 DEF q1, r1
<1>9. slot_count' = [slot_count EXCEPT ![q] = @ + 1] => Counted(n + 1, P, S)'
    BY <1>8 DEF Counted
<1> QED
    BY <1>7, <1>9 DEF q, r

LEMMA SatelliteAsScript ==
    ASSUME ScriptInv, Gen!Satellite, NEW P \in 1 .. Len(elems), NEW S \in 1 .. Len(elems), IsWalker(P, S)
    PROVE  BuiltAsScript(P, S)'
<1>0. PICK n \in Nat : n = cloned
    BY DEF ScriptInv, GenInv, LoopType
<1> DEFINE tpl == Gen!TemplateOf("satellite")
           bs == [b \in DOMAIN tpl |-> Gen!SatelliteBlock(tpl[b], n + 1)]
<1>1. /\ gen = "satellites" /\ gen' = "satellites" /\ n < Len(elems) /\ cloned' = n + 1
      /\ slot_count' = [slot_count EXCEPT ![Gen!PlaneRank(plane_uid[n + 1])] = @ + 1]
      /\ out' = out \o bs /\ out_rels' = out_rels \o Gen!RenumberedRels(Gen!KeptRels("satellite"), n + 1)
      /\ UNCHANGED <<template, elems, plane_uid, ref_epoch_s, prov>>
    BY <1>0 DEF Gen!Satellite, Gen!arguments
<1>2. GenInv /\ BuiltAsScript(P, S)
    BY DEF ScriptInv
<1>3. /\ n + 1 \in 1 .. Len(elems) /\ n + 1 \in Nat
      /\ SatsDone = n /\ UtsDone = 0 /\ SatsDone' = n + 1 /\ UtsDone' = 0
    BY <1>0, <1>1, <1>2, SMTT(30) DEF GenInv, ArgumentsType, LoopType, SatsDone, UtsDone
<1>4. /\ out = (KeptRows \o SatRows(n, P, S)) \o UtRows(0)
      /\ out_rels = (Gen!kept_rels \o RelRows("sat", n)) \o RelRows("ut", 0)
      /\ prov = DemandRows(0) /\ Counted(n, P, S)
    BY <1>1, <1>2, <1>3 DEF BuiltAsScript
<1>5. /\ Gen!PlaneRank(plane_uid[n + 1]) = n \div S /\ Gen!SlotOf(n + 1) = (n % S) + 1
      /\ Counted(n + 1, P, S)'
    BY <1>1, <1>2, <1>3, <1>4, NextCounted
<1>6. bs = Gen!SatBlocks(n + 1, P, S) /\ bs \in Seq(Blocks)
    <2>1. /\ Gen!SatBlocks(n + 1, P, S) \in Seq(Blocks) /\ DOMAIN Gen!SatBlocks(n + 1, P, S) = DOMAIN tpl
          /\ \A b \in DOMAIN tpl :
                Gen!SatBlocks(n + 1, P, S)[b] =
                    [id |-> Gen!Renumbered(tpl[b], n + 1),
                     grid |-> <<(((n + 1) - 1) \div S) + 1, (((n + 1) - 1) % S) + 1>>,
                     kepler |-> IF tpl[b].part = "platform" THEN Gen!PatchedKepler(n + 1) ELSE None]
        BY <1>2, <1>3, ScriptBlocks
    <2>2. (n + 1) - 1 = n
        BY <1>3
    <2> HIDE DEF tpl
    <2>3. \A b \in DOMAIN tpl : Gen!SatelliteBlock(tpl[b], n + 1) = Gen!SatBlocks(n + 1, P, S)[b]
        BY <1>5, <2>1, <2>2 DEF Gen!SatelliteBlock
    <2>4. Gen!SatBlocks(n + 1, P, S) = [b \in DOMAIN tpl |-> Gen!SatBlocks(n + 1, P, S)[b]]
        BY <2>1
    <2> QED
        BY <2>1, <2>3, <2>4
<1> HIDE DEF bs, tpl
<1>7. KeptRows \in Seq(Blocks) /\ Gen!kept_rels \in Seq(Ends)
    BY <1>2, KeptRowsType DEF GenInv
<1>8. out' = (KeptRows \o SatRows(n + 1, P, S)) \o UtRows(0)
    <2>1. SatRows(n + 1, P, S) = SatRows(n, P, S) \o bs /\ SatRows(n, P, S) \in Seq(Blocks)
        BY <1>1, <1>2, <1>3, <1>6, MoreSatRows
    <2>2. ((KeptRows \o SatRows(n, P, S)) \o <<>>) \o bs = (KeptRows \o (SatRows(n, P, S) \o bs)) \o <<>>
        <3> DEFINE s == KeptRows
                   t == SatRows(n, P, S)
        <3>1. s \in Seq(Blocks) /\ t \in Seq(Blocks) /\ bs \in Seq(Blocks)
            BY <1>6, <1>7, <2>1
        <3> HIDE DEF s, t
        <3>2. ((s \o t) \o <<>>) \o bs = (s \o (t \o bs)) \o <<>>
            BY <3>1, PutInFront, SMTT(30)
        <3> QED
            BY <3>2 DEF s, t
    <2> QED
        BY <1>1, <1>4, <2>1, <2>2, NoRows
<1>9. out_rels' = (Gen!kept_rels \o RelRows("sat", n + 1)) \o RelRows("ut", 0)
    <2> DEFINE new == Gen!RelClones("sat", n + 1)
    <2>1. new = Gen!RenumberedRels(Gen!KeptRels("satellite"), n + 1) /\ new \in Seq(Ends)
        BY <1>2, <1>3, ScriptRels
    <2>2. RelRows("sat", n + 1) = RelRows("sat", n) \o new /\ RelRows("sat", n) \in Seq(Ends)
        BY <1>2, <1>3, MoreRelRows
    <2> HIDE DEF new, Ends
    <2>3. ((Gen!kept_rels \o RelRows("sat", n)) \o <<>>) \o new = (Gen!kept_rels \o (RelRows("sat", n) \o new)) \o <<>>
        <3> DEFINE s == Gen!kept_rels
                   t == RelRows("sat", n)
        <3>1. s \in Seq(Ends) /\ t \in Seq(Ends) /\ new \in Seq(Ends)
            BY <1>7, <2>1, <2>2
        <3> HIDE DEF s, t
        <3>2. ((s \o t) \o <<>>) \o new = (s \o (t \o new)) \o <<>>
            BY <3>1, PutInFront, SMTT(30)
        <3> QED
            BY <3>2 DEF s, t
    <2> QED
        BY <1>1, <1>4, <2>1, <2>2, <2>3, NoRows
<1>10. /\ KeptRows' = KeptRows /\ Gen!kept_rels' = Gen!kept_rels
       /\ SatRows(SatsDone, P, S)' = SatRows(n + 1, P, S) /\ UtRows(UtsDone)' = UtRows(0)
       /\ RelRows("sat", SatsDone)' = RelRows("sat", n + 1) /\ RelRows("ut", UtsDone)' = RelRows("ut", 0)
       /\ DemandRows(UtsDone)' = DemandRows(0)
    BY <1>1, <1>3, RowsAfter
<1>11. Counted(SatsDone, P, S)'
    BY <1>3, <1>5 DEF Counted
<1> QED
    BY <1>1, <1>4, <1>8, <1>9, <1>10, <1>11 DEF BuiltAsScript

LEMMA TerminalAsScript ==
    ASSUME ScriptInv, Gen!Terminal, NEW P \in 1 .. Len(elems), NEW S \in 1 .. Len(elems), IsWalker(P, S)
    PROVE  BuiltAsScript(P, S)'
<1>0. PICK n \in Nat : n = cloned
    BY DEF ScriptInv, GenInv, LoopType
<1>1. PICK L \in Nat : L = Len(elems)
    BY DEF ScriptInv, GenInv, ArgumentsType
<1> DEFINE tpl == Gen!TemplateOf("user-terminal")
           bs == [b \in DOMAIN tpl |-> Gen!Block(Gen!Renumbered(tpl[b], n + 1))]
           new == Gen!RenumberedRels(Gen!KeptRels("user-terminal"), n + 1)
<1>2. /\ gen = "terminals" /\ gen' = "terminals" /\ cloned' = n + 1
      /\ out' = out \o bs /\ out_rels' = out_rels \o new /\ prov' = prov \o DemandsFor(n + 1)
      /\ UNCHANGED <<template, elems, plane_uid, ref_epoch_s>>
    BY <1>0 DEF Gen!Terminal, Gen!arguments, DemandsFor
<1>3. GenInv /\ BuiltAsScript(P, S)
    BY DEF ScriptInv
<1>4. n + 1 \in Nat /\ SatsDone = L /\ UtsDone = n /\ SatsDone' = L /\ UtsDone' = n + 1
    BY <1>0, <1>1, <1>2 DEF SatsDone, UtsDone
<1>5. /\ out = (KeptRows \o SatRows(L, P, S)) \o UtRows(n)
      /\ out_rels = (Gen!kept_rels \o RelRows("sat", L)) \o RelRows("ut", n)
      /\ prov = DemandRows(n)
    BY <1>2, <1>3, <1>4 DEF BuiltAsScript
<1>6. bs = Gen!UtBlocks(n + 1) /\ bs \in Seq(Blocks)
    BY <1>3, <1>4, ScriptTerminals
<1>7. new = Gen!RelClones("ut", n + 1) /\ new \in Seq(Ends)
    BY <1>3, <1>4, ScriptRels
<1> HIDE DEF bs, tpl, new
<1>8. KeptRows \in Seq(Blocks) /\ Gen!kept_rels \in Seq(Ends)
    BY <1>3, KeptRowsType DEF GenInv
<1>9. SatRows(L, P, S) \in Seq(Blocks)
    <2>1. PICK m \in Nat : m + 1 = L
        <3>1. L - 1 \in Nat /\ (L - 1) + 1 = L
            BY <1>1
        <3> QED
            BY <3>1
    <2>2. m < Len(elems) /\ m + 1 \in 1 .. Len(elems)
        BY <1>1, <2>1
    <2>3. /\ SatRows(m + 1, P, S) = SatRows(m, P, S) \o Gen!SatBlocks(m + 1, P, S)
          /\ SatRows(m, P, S) \in Seq(Blocks)
        BY <1>3, <2>2, MoreSatRows
    <2>4. Gen!SatBlocks(m + 1, P, S) \in Seq(Blocks)
        BY <1>3, <2>2, ScriptBlocks
    <2>5. SatRows(m, P, S) \o Gen!SatBlocks(m + 1, P, S) \in Seq(Blocks)
        BY <2>3, <2>4, ConcatProperties
    <2> QED
        BY <2>1, <2>3, <2>5
<1>10. out' = (KeptRows \o SatRows(L, P, S)) \o UtRows(n + 1)
    <2> DEFINE x == KeptRows \o SatRows(L, P, S)
               u == UtRows(n)
    <2>1. UtRows(n + 1) = u \o bs /\ u \in Seq(Blocks)
        BY <1>3, <1>6, MoreUtRows
    <2>2. x \in Seq(Blocks)
        BY <1>8, <1>9, ConcatProperties
    <2> HIDE DEF x, u
    <2>3. (x \o u) \o bs = x \o (u \o bs)
        <3>1. x \in Seq(Blocks) /\ u \in Seq(Blocks) /\ bs \in Seq(Blocks)
            BY <1>6, <2>1, <2>2
        <3> QED
            BY <3>1, ConcatAssociative, SMTT(30)
    <2>4. out' = (x \o u) \o bs
        BY <1>2, <1>5 DEF x, u
    <2> QED
        BY <2>1, <2>3, <2>4 DEF x
<1>11. out_rels' = (Gen!kept_rels \o RelRows("sat", L)) \o RelRows("ut", n + 1)
    <2> DEFINE y == RelRows("sat", L)
               x == Gen!kept_rels \o y
               u == RelRows("ut", n)
    <2>1. RelRows("ut", n + 1) = u \o new /\ u \in Seq(Ends) /\ y \in Seq(Ends)
        BY <1>3, <1>7, MoreRelRows
    <2> HIDE DEF y, Ends
    <2>2. x \in Seq(Ends)
        BY <1>8, <2>1, ConcatProperties
    <2> HIDE DEF x, u
    <2>3. (x \o u) \o new = x \o (u \o new)
        <3>1. x \in Seq(Ends) /\ u \in Seq(Ends) /\ new \in Seq(Ends)
            BY <1>7, <2>1, <2>2
        <3> QED
            BY <3>1, ConcatAssociative, SMTT(30)
    <2>4. out_rels' = (x \o u) \o new
        BY <1>2, <1>5 DEF x, u, y
    <2> QED
        BY <2>1, <2>3, <2>4 DEF x, y
<1>12. prov' = DemandRows(n + 1)
    BY <1>2, <1>3, <1>5, MoreDemandRows
<1>13. /\ KeptRows' = KeptRows /\ Gen!kept_rels' = Gen!kept_rels
       /\ SatRows(SatsDone, P, S)' = SatRows(L, P, S) /\ UtRows(UtsDone)' = UtRows(n + 1)
       /\ RelRows("sat", SatsDone)' = RelRows("sat", L) /\ RelRows("ut", UtsDone)' = RelRows("ut", n + 1)
       /\ DemandRows(UtsDone)' = DemandRows(n + 1)
    BY <1>2, <1>4, RowsAfter
<1> QED
    BY <1>2, <1>10, <1>11, <1>12, <1>13 DEF BuiltAsScript

\* Nothing is built between the loops and at the end.
LEMMA QuietAsScript ==
    ASSUME ScriptInv, Gen!SatellitesDone \/ Gen!Return \/ Gen!Stop \/ UNCHANGED Gen!vars,
           NEW P \in 1 .. Len(elems), NEW S \in 1 .. Len(elems), IsWalker(P, S)
    PROVE  BuiltAsScript(P, S)'
<1>1. UNCHANGED <<template, elems, plane_uid, ref_epoch_s, slot_count, out, out_rels, prov>>
    BY DEF Gen!SatellitesDone, Gen!Return, Gen!Stop, Gen!vars, Gen!arguments
<1>2. GenInv /\ BuiltAsScript(P, S)
    BY DEF ScriptInv
<1>3. PICK n, m : n = SatsDone /\ m = UtsDone
    OBVIOUS
<1>4. /\ gen' = "sort" <=> gen = "sort"
      /\ gen' \in {"sort", "satellites"} => gen \in {"sort", "satellites"}
      /\ SatsDone' = n /\ UtsDone' = m
    BY <1>1, <1>2, <1>3 DEF SatsDone, UtsDone, GenInv, LoopType, Gen!SatellitesDone, Gen!Return, Gen!Stop,
                            Gen!vars, Gen!arguments
<1>5. /\ KeptRows' = KeptRows /\ Gen!kept_rels' = Gen!kept_rels
      /\ SatRows(SatsDone, P, S)' = SatRows(n, P, S) /\ UtRows(UtsDone)' = UtRows(m)
      /\ RelRows("sat", SatsDone)' = RelRows("sat", n) /\ RelRows("ut", UtsDone)' = RelRows("ut", m)
      /\ DemandRows(UtsDone)' = DemandRows(m)
    BY <1>1, <1>4, RowsAfter
<1>6. Counted(n, P, S)' <=> Counted(n, P, S)
    BY <1>1 DEF Counted
<1>7. Counted(SatsDone, P, S)' <=> Counted(n, P, S)'
    BY <1>4 DEF Counted
<1> QED
    BY <1>1, <1>2, <1>3, <1>4, <1>5, <1>6, <1>7 DEF BuiltAsScript

LEMMA StepScript == ASSUME ScriptInv, [Gen!Next]_(Gen!vars) PROVE ScriptInv'
<1>1. GenInv'
    BY StepGen DEF ScriptInv
<1>2. UNCHANGED <<template, elems, plane_uid, ref_epoch_s>>
    BY DEF Gen!Next, Gen!Sort, Gen!Satellite, Gen!SatellitesDone, Gen!Terminal, Gen!Return, Gen!Stop,
           Gen!vars, Gen!arguments
<1>3. ASSUME NEW P \in 1 .. Len(elems), NEW S \in 1 .. Len(elems), IsWalker(P, S)
      PROVE  BuiltAsScript(P, S)'
    BY <1>3, SortAsScript, SatelliteAsScript, TerminalAsScript, QuietAsScript DEF Gen!Next
<1>4. /\ (1 .. Len(elems))' = 1 .. Len(elems)
      /\ \A P, S : IsWalker(P, S)' <=> IsWalker(P, S)
    BY <1>2, SameRows
<1> QED
    BY <1>1, <1>3, <1>4 DEF ScriptInv

LEMMA ScriptFollows == ASSUME ScriptInv PROVE TransformAgrees
<1> SUFFICES ASSUME gen = "done", NEW P \in 1 .. Len(elems), NEW S \in 1 .. Len(elems), IsWalker(P, S)
             PROVE  /\ out = Gen!EntityBlocks(P, S, n_sites)
                    /\ out_rels = Gen!new_rels(Len(elems), n_sites)
                    /\ prov = Gen!Requests(n_sites)
    BY DEF TransformAgrees, Gen!TransformAgrees, IsWalker
<1>1. GenInv /\ BuiltAsScript(P, S)
    BY DEF ScriptInv
<1>2. SatsDone = Len(elems) /\ UtsDone = n_sites
    BY <1>1 DEF GenInv, LoopType, SatsDone, UtsDone
<1>3. /\ out = (KeptRows \o SatRows(Len(elems), P, S)) \o UtRows(n_sites)
      /\ out_rels = (Gen!kept_rels \o RelRows("sat", Len(elems))) \o RelRows("ut", n_sites)
      /\ prov = DemandRows(n_sites)
    BY <1>1, <1>2 DEF BuiltAsScript
<1>4. P * S = Len(elems)
    <2>1. P \in Nat \ {0} /\ S \in Nat \ {0}
        BY <1>1 DEF GenInv, ArgumentsType
    <2> QED
        BY <1>1, <2>1, WalkerArguments DEF GenInv
<1>5. Gen!EntityBlocks(P, S, n_sites) = (KeptRows \o SatRows(P * S, P, S)) \o UtRows(n_sites)
    BY GenFlattenSeq DEF Gen!EntityBlocks, KeptRows, SatRows, UtRows
<1>6. Gen!new_rels(Len(elems), n_sites) = (Gen!kept_rels \o RelRows("sat", Len(elems))) \o RelRows("ut", n_sites)
    BY GenFlattenSeq DEF Gen!new_rels, RelRows
<1>7. Gen!Requests(n_sites) = DemandRows(n_sites)
    BY GenFlattenSeq DEF Gen!Requests, DemandRows, DemandsFor
<1> QED
    BY <1>3, <1>4, <1>5, <1>6, <1>7

\* The script the generator was taken from computes the plane and the slot of a
\* satellite from its number, build_model counts them: for every template, every
\* number of sites and every Walker constellation they build the same entities, ids
\* and places in the same order, the same relationships and the same demands.
THEOREM ScriptCorrect == Gen!Spec => []TransformAgrees
<1>1. Gen!Init => ScriptInv
    BY InitScript
<1>2. ScriptInv /\ [Gen!Next]_(Gen!vars) => ScriptInv'
    BY StepScript
<1>3. ScriptInv => TransformAgrees
    BY ScriptFollows
<1> QED
    BY <1>1, <1>2, <1>3, PTL DEF Gen!Spec

-----------------------------------------------------------------------------
(***************************************************************************)
(* The Walker pattern                                                      *)
(***************************************************************************)
LegacyShells == [kind : {"legacy"}, T : Nat, P : Nat, F : Nat, a : Int, inc : Int]
FitShells == {sh \in LegacyShells : Gens!Fits(sh.T, sh.P)}

\* Satellites of a plane, and the units between neighbouring phases: a plane's
\* satellites are P units apart, planes S.
SlotsOf(sh) == sh.T \div sh.P
UnitOf(sh) == Turn \div sh.T
PlaneAngle(sh) == SlotsOf(sh) * UnitOf(sh)
SlotAngle(sh) == sh.P * UnitOf(sh)
PhaseAngle(sh) == sh.F * UnitOf(sh)

Anomaly(sh, p, s) == ((s * SlotAngle(sh)) + (p * PhaseAngle(sh))) % Turn
SatOf(sh, p, s) == [a |-> sh.a, inc |-> sh.inc, raan |-> p * PlaneAngle(sh), M |-> Anomaly(sh, p, s)]

LEMMA ShapeFacts ==
    ASSUME NEW sh \in FitShells
    PROVE  /\ sh.P \in Nat \ {0} /\ SlotsOf(sh) \in Nat \ {0} /\ UnitOf(sh) \in Nat \ {0}
           /\ sh.T \in Nat \ {0} /\ sh.F \in Nat /\ sh.a \in Int /\ sh.inc \in Int /\ Turn \in Nat \ {0}
           /\ sh.T = sh.P * SlotsOf(sh) /\ Turn = sh.T * UnitOf(sh)
           /\ PlaneAngle(sh) \in Nat \ {0} /\ SlotAngle(sh) \in Nat \ {0} /\ PhaseAngle(sh) \in Nat
           /\ Turn = sh.P * PlaneAngle(sh) /\ Turn = SlotsOf(sh) * SlotAngle(sh)
<1>1. /\ sh.T \in Nat \ {0} /\ sh.P \in Nat \ {0} /\ sh.T % sh.P = 0 /\ Turn % sh.T = 0
      /\ sh.F \in Nat /\ sh.a \in Int /\ sh.inc \in Int
    BY DEF FitShells, LegacyShells, Gens!Fits
<1>2. Turn \in Nat \ {0}
    BY ConstellationAssumption DEF Gens!GeneratorsAssumption
<1> DEFINE S == SlotsOf(sh)
           u == UnitOf(sh)
<1>3. ASSUME NEW n \in Nat \ {0}, NEW C \in Nat \ {0}, C % n = 0
      PROVE  C = n * (C \div n) /\ C \div n \in Nat \ {0}
    <2> DEFINE d == C \div n
    <2>1. C = (n * d) + (C % n) /\ d \in Int
        BY <1>3, Remainder
    <2> HIDE DEF d
    <2>2. C = n * d
        BY <1>3, <2>1
    <2>3. CASE d <= 0
        <3>1. n * d <= n * 0
            BY <2>1, <2>3, TimesGrows
        <3> QED
            BY <2>2, <3>1
    <2>4. d \in Nat \ {0}
        BY <2>1, <2>3
    <2> QED
        BY <2>2, <2>4 DEF d
<1>4. sh.T = sh.P * S /\ S \in Nat \ {0}
    BY <1>1, <1>3 DEF SlotsOf
<1>5. Turn = sh.T * u /\ u \in Nat \ {0}
    BY <1>1, <1>2, <1>3 DEF UnitOf
<1> HIDE DEF S, u
<1>6. Turn = sh.P * (S * u) /\ Turn = S * (sh.P * u)
    BY <1>1, <1>4, <1>5
<1>7. S * u \in Nat /\ sh.P * u \in Nat /\ sh.F * u \in Nat
    BY <1>1, <1>4, <1>5
<1>8. S * u # 0 /\ sh.P * u # 0
    BY <1>1, <1>2, <1>4, <1>6
<1> QED
    BY <1>1, <1>2, <1>4, <1>5, <1>6, <1>7, <1>8 DEF S, u, PlaneAngle, SlotAngle, PhaseAngle

LEMMA AngleIs ==
    ASSUME NEW n \in Nat \ {0}, NEW v \in Nat \ {0}, Turn = n * v, NEW k \in Nat
    PROVE  Gens!Angle(k, n) = k * v /\ Turn \div n = v
<1>1. k * Turn = (n * (k * v)) + 0 /\ k * v \in Int /\ 0 \in 0 .. n - 1
    OBVIOUS
<1>2. (k * Turn) \div n = k * v
    BY <1>1, QuotientUnique
<1>3. (n * v) + 0 = Turn
    OBVIOUS
<1>4. Turn \div n = v
    BY <1>1, <1>3, QuotientUnique
<1> QED
    BY <1>2, <1>4 DEF Gens!Angle

\* What is added on both sides can be taken away.
LEMMA SameRemainder ==
    ASSUME NEW C \in Nat \ {0}, NEW x \in 0 .. C - 1, NEW y \in 0 .. C - 1, NEW c \in Int,
           (x + c) % C = (y + c) % C
    PROVE  x = y
<1> DEFINE r == (x + c) % C
           d == (x + c) \div C
           e == (y + c) \div C
<1>1. x + c = (C * d) + r /\ y + c = (C * e) + r /\ d \in Int /\ e \in Int /\ r \in Int
    <2>1. x + c = (C * d) + r /\ d \in Int /\ r \in 0 .. C - 1
        BY Remainder
    <2>2. y + c = (C * e) + ((y + c) % C) /\ e \in Int
        BY Remainder
    <2> QED
        BY <2>1, <2>2
<1> HIDE DEF r, d, e
<1>2. ASSUME NEW m \in Int, NEW n \in Int, m < n, NEW z \in 0 .. C - 1, NEW w \in 0 .. C - 1,
             z + c = (C * m) + r, w + c = (C * n) + r
      PROVE  FALSE
    <2>1. C * (m + 1) <= C * n /\ C * (m + 1) = (C * m) + C /\ C * m \in Int /\ C * n \in Int
        BY <1>2, TimesGrows
    <2> QED
        BY <1>1, <1>2, <2>1
<1>3. ~(d < e) /\ ~(e < d)
    BY <1>1, <1>2
<1>4. d = e /\ C * d \in Int
    BY <1>1, <1>3
<1> QED
    BY <1>1, <1>4

\* The satellites of a pattern are apart: the node tells the plane, the anomaly
\* the slot.
LEMMA NodesApart ==
    ASSUME NEW sh \in FitShells, NEW p \in Int, NEW q \in Int, p < q
    PROVE  p * PlaneAngle(sh) < q * PlaneAngle(sh)
<1> DEFINE A == PlaneAngle(sh)
<1>1. A \in Nat \ {0}
    BY ShapeFacts
<1> HIDE DEF A
<1>2. A * (p + 1) <= A * q /\ A * (p + 1) = (p * A) + A /\ A * q = q * A /\ p * A \in Int /\ q * A \in Int
    BY <1>1, TimesGrows
<1>3. p * A < q * A
    BY <1>1, <1>2
<1> QED
    BY <1>3 DEF A

LEMMA SatBounds ==
    ASSUME NEW sh \in FitShells, NEW p \in 0 .. sh.P - 1, NEW s \in 0 .. SlotsOf(sh) - 1
    PROVE  /\ p * PlaneAngle(sh) \in 0 .. Turn - 1 /\ s * SlotAngle(sh) \in 0 .. Turn - 1
           /\ p * PhaseAngle(sh) \in Nat /\ Anomaly(sh, p, s) \in 0 .. Turn - 1
<1> DEFINE A == PlaneAngle(sh)
           B == SlotAngle(sh)
           S == SlotsOf(sh)
           H == PhaseAngle(sh)
           P == sh.P
<1>1. A \in Nat \ {0} /\ B \in Nat \ {0} /\ H \in Nat /\ P \in Nat /\ S \in Nat /\ Turn \in Nat \ {0}
      /\ Turn = P * A /\ Turn = S * B
    BY ShapeFacts
<1> HIDE DEF A, B, S, H, P
<1>2. ASSUME NEW n \in Nat, NEW V \in Nat \ {0}, Turn = n * V, NEW k \in 0 .. n - 1
      PROVE  k * V \in 0 .. Turn - 1
    <2>1. V * (k + 1) <= V * n /\ V * 0 <= V * k
        BY <1>2, TimesGrows
    <2>2. V * (k + 1) = (k * V) + V /\ V * n = Turn /\ V * 0 = 0 /\ V * k = k * V /\ k * V \in Int
        BY <1>2
    <2> QED
        BY <1>1, <1>2, <2>1, <2>2
<1>3. p * A \in 0 .. Turn - 1
    BY <1>1, <1>2 DEF P
<1>4. s * B \in 0 .. Turn - 1
    BY <1>1, <1>2 DEF S
<1>5. p * H \in Nat
    <2>1. p \in Nat
        BY <1>1 DEF P
    <2> QED
        BY <1>1, <2>1
<1>6. (s * B) + (p * H) \in Int
    BY <1>1, <1>4, <1>5
<1>7. ((s * B) + (p * H)) % Turn \in 0 .. Turn - 1
    BY <1>1, <1>6, Remainder
<1> QED
    BY <1>3, <1>4, <1>5, <1>7 DEF A, B, H, Anomaly

LEMMA SatsApart ==
    ASSUME NEW sh \in FitShells, NEW p \in 0 .. sh.P - 1, NEW s \in 0 .. SlotsOf(sh) - 1,
           NEW q \in 0 .. sh.P - 1, NEW t \in 0 .. SlotsOf(sh) - 1, SatOf(sh, p, s) = SatOf(sh, q, t)
    PROVE  p = q /\ s = t
<1>1. p * PlaneAngle(sh) = q * PlaneAngle(sh) /\ Anomaly(sh, p, s) = Anomaly(sh, q, t)
    BY DEF SatOf
<1>2. sh.P \in Nat /\ SlotsOf(sh) \in Nat /\ Turn \in Nat \ {0} /\ PlaneAngle(sh) \in Nat /\ SlotAngle(sh) \in Nat \ {0}
    BY ShapeFacts
<1>3. p = q
    <2>1. p * PlaneAngle(sh) \in Int /\ q * PlaneAngle(sh) \in Int /\ p \in Int /\ q \in Int
        BY <1>2
    <2>2. ~(p < q) /\ ~(q < p)
        <3>1. p < q => p * PlaneAngle(sh) < q * PlaneAngle(sh)
            BY <2>1, NodesApart
        <3>2. q < p => q * PlaneAngle(sh) < p * PlaneAngle(sh)
            BY <2>1, NodesApart
        <3> QED
            BY <1>1, <2>1, <3>1, <3>2
    <2> QED
        BY <2>1, <2>2
<1>4. s * SlotAngle(sh) = t * SlotAngle(sh)
    <2> DEFINE x == s * SlotAngle(sh)
               y == t * SlotAngle(sh)
               c == p * PhaseAngle(sh)
    <2>1. x \in 0 .. Turn - 1 /\ y \in 0 .. Turn - 1 /\ c \in Int
        BY SatBounds
    <2>2. (x + c) % Turn = (y + c) % Turn
        BY <1>1, <1>3 DEF Anomaly
    <2> HIDE DEF x, y, c
    <2>3. x = y
        BY <1>2, <2>1, <2>2, SameRemainder
    <2> QED
        BY <2>3 DEF x, y
<1>5. s = t
    <2> DEFINE B == SlotAngle(sh)
    <2>1. B \in Nat \ {0} /\ s \in Int /\ t \in Int
        BY <1>2
    <2>2. s * B = t * B
        BY <1>4
    <2> HIDE DEF B
    <2>3. ASSUME NEW m \in Int, NEW n \in Int, m < n
          PROVE  m * B # n * B
        <3>1. B * (m + 1) <= B * n /\ B * (m + 1) = (m * B) + B /\ B * n = n * B /\ m * B \in Int /\ n * B \in Int
            BY <2>1, <2>3, TimesGrows
        <3> QED
            BY <2>1, <3>1
    <2> QED
        BY <2>1, <2>2, <2>3
<1> QED
    BY <1>3, <1>5

LEMMA SmallRemainder ==
    ASSUME NEW C \in Nat \ {0}, NEW x \in 0 .. C - 1
    PROVE  x % C = x
<1>1. (C * 0) + x = x
    OBVIOUS
<1>2. ((C * 0) + x) % C = x
    BY RemainderUnique
<1> QED
    BY <1>1, <1>2

\* The row of slot s of plane p.
LEMMA RowIsSat ==
    ASSUME NEW sh \in FitShells, NEW p \in 0 .. sh.P - 1, NEW s \in 0 .. SlotsOf(sh) - 1
    PROVE  /\ Gens!Angle(p, sh.P) = p * PlaneAngle(sh)
           /\ Gens!Angle(s, SlotsOf(sh)) + Gens!Angle(p * sh.F, sh.T)
                 = (s * SlotAngle(sh)) + (p * PhaseAngle(sh))
           /\ Gens!Row(sh.a, sh.inc, Gens!Angle(p, sh.P),
                       Gens!Angle(s, SlotsOf(sh)) + Gens!Angle(p * sh.F, sh.T)) = SatOf(sh, p, s)
           /\ Gens!Row(sh.a, sh.inc, SatOf(sh, p, s).raan, SatOf(sh, p, s).M) = SatOf(sh, p, s)
<1>1. /\ sh.P \in Nat \ {0} /\ SlotsOf(sh) \in Nat \ {0} /\ sh.T \in Nat \ {0} /\ UnitOf(sh) \in Nat \ {0}
      /\ sh.F \in Nat /\ Turn \in Nat \ {0} /\ Turn = sh.P * PlaneAngle(sh)
      /\ Turn = SlotsOf(sh) * SlotAngle(sh) /\ Turn = sh.T * UnitOf(sh)
      /\ PlaneAngle(sh) \in Nat \ {0} /\ SlotAngle(sh) \in Nat \ {0}
    BY ShapeFacts
<1>2. p \in Nat /\ s \in Nat /\ p * sh.F \in Nat
    BY <1>1
<1>3. Gens!Angle(p, sh.P) = p * PlaneAngle(sh)
    BY <1>1, <1>2, AngleIs, ZenonT(60)
<1>4. Gens!Angle(s, SlotsOf(sh)) = s * SlotAngle(sh)
    BY <1>1, <1>2, AngleIs
<1>5. Gens!Angle(p * sh.F, sh.T) = p * PhaseAngle(sh)
    <2>1. Gens!Angle(p * sh.F, sh.T) = (p * sh.F) * UnitOf(sh)
        <3> DEFINE k == p * sh.F
        <3>1. k \in Nat
            BY <1>2
        <3> HIDE DEF k
        <3>2. Gens!Angle(k, sh.T) = k * UnitOf(sh)
            BY <1>1, <3>1, AngleIs, ZenonT(60)
        <3> QED
            BY <3>2 DEF k
    <2>2. (p * sh.F) * UnitOf(sh) = p * (sh.F * UnitOf(sh))
        BY <1>1, <1>2
    <2> QED
        BY <2>1, <2>2 DEF PhaseAngle
<1>6. (p * PlaneAngle(sh)) % Turn = p * PlaneAngle(sh) /\ Anomaly(sh, p, s) % Turn = Anomaly(sh, p, s)
    BY <1>1, SatBounds, SmallRemainder
<1> QED
    BY <1>3, <1>4, <1>5, <1>6 DEF Gens!Row, SatOf, Anomaly

-----------------------------------------------------------------------------
\* Plane and slot of the k-th satellite, from 0.
Plane(sh, k) == (k - 1) \div SlotsOf(sh)
Slot(sh, k) == (k - 1) % SlotsOf(sh)

LEMMA PlaceFacts ==
    ASSUME NEW sh \in FitShells, NEW k \in 1 .. sh.T
    PROVE  /\ Plane(sh, k) \in 0 .. sh.P - 1 /\ Slot(sh, k) \in 0 .. SlotsOf(sh) - 1
           /\ k = (SlotsOf(sh) * Plane(sh, k)) + Slot(sh, k) + 1
<1> DEFINE S == SlotsOf(sh)
           P == sh.P
           d == Plane(sh, k)
           r == Slot(sh, k)
<1>1. S \in Nat \ {0} /\ P \in Nat \ {0} /\ sh.T = P * S /\ sh.T \in Nat
    BY ShapeFacts
<1>2. PICK n \in Nat : n = k - 1
    BY <1>1
<1>3. n = (S * d) + r /\ r \in 0 .. S - 1 /\ d \in Nat
    <2>1. n \in Int /\ d = n \div S /\ r = n % S
        BY <1>2 DEF Plane, Slot
    <2>2. n = (S * (n \div S)) + (n % S) /\ n % S \in 0 .. S - 1
        BY <1>1, <2>1, Remainder
    <2>3. n \div S \in Nat
        BY <1>1, <1>2, NextPlaneAndSlot
    <2> QED
        BY <2>1, <2>2, <2>3
<1> HIDE DEF S, P, d, r
<1>4. d < P
    <2>1. CASE P <= d
        <3>1. S * P <= S * d /\ S * P = sh.T /\ S * d \in Int
            BY <1>1, <1>3, <2>1, TimesGrows
        <3> QED
            BY <1>1, <1>2, <1>3, <3>1
    <2> QED
        BY <1>1, <1>3, <2>1
<1>5. k = (S * d) + r + 1
    <2>1. S * d \in Int
        BY <1>1, <1>3
    <2> QED
        BY <1>2, <1>3, <2>1
<1>6. d \in 0 .. P - 1
    BY <1>1, <1>3, <1>4
<1> QED
    BY <1>3, <1>5, <1>6 DEF S, P, d, r

LEMMA PlaceTaken ==
    ASSUME NEW sh \in FitShells, NEW p \in 0 .. sh.P - 1, NEW s \in 0 .. SlotsOf(sh) - 1
    PROVE  \E k \in 1 .. sh.T : Plane(sh, k) = p /\ Slot(sh, k) = s
<1> DEFINE S == SlotsOf(sh)
           P == sh.P
<1>1. S \in Nat \ {0} /\ P \in Nat \ {0} /\ sh.T = P * S /\ sh.T \in Nat
    BY ShapeFacts
<1>2. p \in 0 .. P - 1 /\ s \in 0 .. S - 1
    OBVIOUS
<1>3. ((S * p) + s) \div S = p /\ ((S * p) + s) % S = s
    BY <1>1, <1>2, QuotientUnique, RemainderUnique
<1> HIDE DEF S, P
<1>4. /\ S * 0 <= S * p /\ S * (p + 1) <= S * P /\ S * (p + 1) = (S * p) + S /\ S * P = sh.T
      /\ S * p \in Int /\ S * 0 = 0
    <2>1. S * 0 <= S * p /\ S * (p + 1) <= S * P
        BY <1>1, <1>2, TimesGrows
    <2> QED
        BY <1>1, <1>2, <2>1
<1>5. PICK k \in 1 .. sh.T : k - 1 = (S * p) + s
    <2> DEFINE n == (S * p) + s
    <2>1. n + 1 \in 1 .. sh.T /\ (n + 1) - 1 = n
        BY <1>1, <1>2, <1>4
    <2> QED
        BY <2>1
<1> QED
    BY <1>3, <1>5 DEF Plane, Slot, S

-----------------------------------------------------------------------------
\* The pattern of a shape.
SatAt(sh, k) == SatOf(sh, Plane(sh, k), Slot(sh, k))
Elems(sh) == [k \in 1 .. sh.T |-> SatAt(sh, k)]
Slots(sh) == [k \in 1 .. sh.T |-> Slot(sh, k)]
Template(sh) == [a |-> sh.a, inc |-> sh.inc]

LEMMA WalkerRows ==
    ASSUME NEW sh \in FitShells
    PROVE  Gens!walker_model(Template(sh), sh.T, sh.P, sh.F) = Gens!Model(Elems(sh), Slots(sh))
<1> DEFINE Row(k) == Gens!Row(sh.a, sh.inc, Gens!Angle(Plane(sh, k), sh.P),
                              Gens!Angle(Slot(sh, k), SlotsOf(sh)) + Gens!Angle(Plane(sh, k) * sh.F, sh.T))
<1>1. Gens!walker_model(Template(sh), sh.T, sh.P, sh.F)
         = Gens!Model([k \in 1 .. sh.T |-> Row(k)], [k \in 1 .. sh.T |-> Slot(sh, k)])
    BY DEF Gens!walker_model, Template, Plane, Slot, SlotsOf
<1>2. \A k \in 1 .. sh.T : Row(k) = SatAt(sh, k)
    BY PlaceFacts, RowIsSat DEF SatAt
<1> HIDE DEF Row
<1>3. [k \in 1 .. sh.T |-> Row(k)] = Elems(sh)
    BY <1>2 DEF Elems
<1> QED
    BY <1>1, <1>3 DEF Slots

LEMMA ScriptsPlaces ==
    ASSUME NEW sh \in FitShells, NEW k \in 1 .. sh.T
    PROVE  [raan |-> Elems(sh)[k].raan, M |-> Elems(sh)[k].M]
              = Gens!ScriptAngles(k, sh.P, sh.T \div sh.P, sh.F)
<1> DEFINE p == Plane(sh, k)
           s == Slot(sh, k)
           S == SlotsOf(sh)
<1>1. /\ sh.P \in Nat \ {0} /\ S \in Nat \ {0} /\ sh.T \in Nat \ {0} /\ UnitOf(sh) \in Nat \ {0}
      /\ sh.F \in Nat /\ sh.T = sh.P * S /\ Turn = sh.P * PlaneAngle(sh)
      /\ Turn = S * SlotAngle(sh) /\ Turn = sh.T * UnitOf(sh)
      /\ PlaneAngle(sh) \in Nat \ {0} /\ SlotAngle(sh) \in Nat \ {0}
    BY ShapeFacts
<1>2. Turn \div sh.P = PlaneAngle(sh) /\ Turn \div S = SlotAngle(sh) /\ Turn \div (sh.P * S) = UnitOf(sh)
    BY <1>1, AngleIs
<1>3. p \in 0 .. sh.P - 1 /\ s \in 0 .. S - 1
    BY PlaceFacts
<1>4. Elems(sh)[k] = SatOf(sh, p, s)
    BY DEF Elems, SatAt
<1>5. Gens!ScriptAngles(k, sh.P, S, sh.F)
         = [raan |-> p * (Turn \div sh.P),
            M |-> ((s * (Turn \div S)) + ((p * sh.F) * (Turn \div (sh.P * S)))) % Turn]
    BY DEF Gens!ScriptAngles, Plane, Slot
<1> HIDE DEF p, s, S
<1>6. (p * sh.F) * UnitOf(sh) = p * PhaseAngle(sh)
    BY <1>1, <1>3 DEF PhaseAngle
<1>7. Gens!ScriptAngles(k, sh.P, S, sh.F) = [raan |-> p * PlaneAngle(sh), M |-> Anomaly(sh, p, s)]
    BY <1>2, <1>5, <1>6 DEF Anomaly
<1>8. Elems(sh)[k].raan = p * PlaneAngle(sh) /\ Elems(sh)[k].M = Anomaly(sh, p, s)
    BY <1>4 DEF SatOf
<1> QED
    BY <1>7, <1>8 DEF S, SlotsOf

-----------------------------------------------------------------------------
LEMMA GensCardinality == ASSUME NEW S PROVE Gens!Cardinality(S) = Cardinality(S)
  BY Zenon DEF Gens!Cardinality, Cardinality

LEMMA GensToSet == ASSUME NEW s PROVE Gens!ToSet(s) = ToSet(s)
  BY Zenon DEF Gens!ToSet, ToSet

LEMMA DistinctEntries ==
    ASSUME NEW n \in Nat, NEW f, \A k, l \in 1 .. n : f[k] = f[l] => k = l
    PROVE  Cardinality({f[k] : k \in 1 .. n}) = n
<1> DEFINE D == 1 .. n
           R == {f[k] : k \in D}
           g == [k \in D |-> f[k]]
<1>1. IsFiniteSet(D) /\ Cardinality(D) = n
    <2>1. Cardinality(1 .. n) = (IF 1 > n THEN 0 ELSE n - 1 + 1) /\ IsFiniteSet(1 .. n)
        BY FS_Interval
    <2> QED
        BY <2>1
<1> HIDE DEF D
<1>2. g \in [D -> R] /\ \A r \in R : \E k \in D : g[k] = r
    OBVIOUS
<1>3. \A k, l \in DOMAIN g : g[k] = g[l] => k = l
    BY DEF D
<1> HIDE DEF g, R
<1>4. g \in Injection(D, R) /\ g \in Surjection(D, R)
    BY <1>2, <1>3 DEF Injection, Surjection, IsInjective
<1>5. ExistsBijection(D, R)
    BY <1>4 DEF ExistsBijection, Bijection
<1> QED
    BY <1>1, <1>5, FS_Bijection DEF R, D

\* The satellites of a shape are the pattern, each once.
IsOfPattern(sh, r) == \E p \in 0 .. sh.P - 1, s \in 0 .. SlotsOf(sh) - 1 : r = SatOf(sh, p, s)

LEMMA PatternFacts ==
    ASSUME NEW sh \in FitShells
    PROVE  /\ \A r : r \in ToSet(Elems(sh)) <=> IsOfPattern(sh, r)
           /\ Cardinality(ToSet(Elems(sh))) = sh.T
<1>1. ToSet(Elems(sh)) = {Elems(sh)[k] : k \in 1 .. sh.T} /\ \A k \in 1 .. sh.T : Elems(sh)[k] = SatAt(sh, k)
    BY DEF ToSet, Elems
<1>2. ASSUME NEW k \in 1 .. sh.T
      PROVE  IsOfPattern(sh, SatAt(sh, k))
    BY PlaceFacts DEF SatAt, IsOfPattern
<1>3. ASSUME NEW p \in 0 .. sh.P - 1, NEW s \in 0 .. SlotsOf(sh) - 1
      PROVE  \E k \in 1 .. sh.T : SatAt(sh, k) = SatOf(sh, p, s)
    BY PlaceTaken DEF SatAt
<1>4. ASSUME NEW k \in 1 .. sh.T, NEW l \in 1 .. sh.T, SatAt(sh, k) = SatAt(sh, l)
      PROVE  k = l
    <2>1. Plane(sh, k) = Plane(sh, l) /\ Slot(sh, k) = Slot(sh, l)
        <3>1. /\ Plane(sh, k) \in 0 .. sh.P - 1 /\ Slot(sh, k) \in 0 .. SlotsOf(sh) - 1
              /\ Plane(sh, l) \in 0 .. sh.P - 1 /\ Slot(sh, l) \in 0 .. SlotsOf(sh) - 1
            BY PlaceFacts
        <3> QED
            BY <1>4, <3>1, SatsApart DEF SatAt
    <2>2. /\ k = (SlotsOf(sh) * Plane(sh, k)) + Slot(sh, k) + 1
          /\ l = (SlotsOf(sh) * Plane(sh, l)) + Slot(sh, l) + 1
        BY PlaceFacts
    <2> QED
        BY <2>1, <2>2
<1>5. \A r : r \in ToSet(Elems(sh)) <=> IsOfPattern(sh, r)
    BY <1>1, <1>2, <1>3 DEF IsOfPattern
<1>6. Cardinality({Elems(sh)[k] : k \in 1 .. sh.T}) = sh.T
    <2>1. sh.T \in Nat
        BY ShapeFacts
    <2>2. \A k, l \in 1 .. sh.T : Elems(sh)[k] = Elems(sh)[l] => k = l
        BY <1>1, <1>4
    <2> QED
        BY <2>1, <2>2, DistinctEntries
<1> QED
    BY <1>1, <1>5, <1>6

\* Turned by one plane, a satellite is that of the next plane; after the last
\* plane comes the first, F slots further.
Turned(sh, r) == Gens!Row(r.a, r.inc, r.raan + Gens!Angle(1, sh.P), r.M + Gens!Angle(sh.F, sh.T))

LEMMA TurnedIs ==
    ASSUME NEW sh \in FitShells, NEW p \in 0 .. sh.P - 1, NEW s \in 0 .. SlotsOf(sh) - 1
    PROVE  Turned(sh, SatOf(sh, p, s)) =
               IF p + 1 < sh.P THEN SatOf(sh, p + 1, s) ELSE SatOf(sh, 0, (s + sh.F) % SlotsOf(sh))
<1> DEFINE P == sh.P
           S == SlotsOf(sh)
           A == PlaneAngle(sh)
           B == SlotAngle(sh)
           H == PhaseAngle(sh)
           F == sh.F
           t == (s + F) % S
           d == (s + F) \div S
<1>1. /\ P \in Nat \ {0} /\ S \in Nat \ {0} /\ A \in Nat \ {0} /\ B \in Nat \ {0} /\ H \in Nat /\ F \in Nat
      /\ Turn \in Nat \ {0} /\ Turn = P * A /\ Turn = S * B /\ p \in 0 .. P - 1 /\ s \in 0 .. S - 1
    BY ShapeFacts
<1>2. P * H = F * B
    <2>1. UnitOf(sh) \in Nat
        BY ShapeFacts
    <2> QED
        BY <1>1, <2>1 DEF PhaseAngle, SlotAngle
<1>3. Gens!Angle(1, P) = A /\ Gens!Angle(F, sh.T) = H
    <2>1. Gens!Angle(1, P) = 1 * A
        BY <1>1, AngleIs
    <2>2. Gens!Angle(F, sh.T) = F * UnitOf(sh)
        <3>1. sh.T \in Nat \ {0} /\ UnitOf(sh) \in Nat \ {0} /\ Turn = sh.T * UnitOf(sh)
            BY ShapeFacts
        <3> QED
            BY <1>1, <3>1, AngleIs, ZenonT(60)
    <2> QED
        BY <1>1, <2>1, <2>2 DEF PhaseAngle
<1>4. s + F = (S * d) + t /\ t \in 0 .. S - 1 /\ d \in Int
    <2>1. s + F \in Int
        BY <1>1
    <2> QED
        BY <1>1, <2>1, Remainder
<1>5. Turned(sh, SatOf(sh, p, s)) = [a |-> sh.a, inc |-> sh.inc, raan |-> ((p * A) + A) % Turn,
                                     M |-> (Anomaly(sh, p, s) + H) % Turn]
    BY <1>3 DEF Turned, SatOf, Gens!Row
<1>6. Anomaly(sh, p, s) = ((s * B) + (p * H)) % Turn
    BY DEF Anomaly
<1>7. Anomaly(sh, 0, t) = ((t * B) + (0 * H)) % Turn /\ t * B \in 0 .. Turn - 1
    <2>1. 0 \in 0 .. P - 1
        BY <1>1
    <2> QED
        BY <1>4, <2>1, SatBounds DEF Anomaly
<1>8. p + 1 < P => (p + 1) * A \in 0 .. Turn - 1 /\ Anomaly(sh, p + 1, s) = ((s * B) + ((p + 1) * H)) % Turn
    <2>1. p + 1 < P => p + 1 \in 0 .. P - 1
        BY <1>1
    <2> QED
        BY <2>1, SatBounds DEF Anomaly
<1>9. /\ SatOf(sh, p + 1, s) = [a |-> sh.a, inc |-> sh.inc, raan |-> (p + 1) * A, M |-> Anomaly(sh, p + 1, s)]
      /\ SatOf(sh, 0, t) = [a |-> sh.a, inc |-> sh.inc, raan |-> 0 * A, M |-> Anomaly(sh, 0, t)]
    BY DEF SatOf
<1> HIDE DEF P, S, A, B, H, F, t, d
<1>10. p \in Int /\ s \in Int /\ p * A \in Int /\ s * B \in Int /\ p * H \in Int /\ t \in Int
    BY <1>1, <1>4
<1>11. (Anomaly(sh, p, s) + H) % Turn = ((s * B) + ((p + 1) * H)) % Turn
    <2> DEFINE x == (s * B) + (p * H)
    <2>1. x \in Int /\ x + H = (s * B) + ((p + 1) * H)
        BY <1>1, <1>10
    <2> HIDE DEF x
    <2>2. ((x % Turn) + H) % Turn = (x + H) % Turn
        <3>1. Turn \in Nat \ {0} /\ x \in Int /\ H \in Int
            BY <1>1, <2>1
        <3> QED
            BY <3>1, ReduceThenAdd
    <2>3. Anomaly(sh, p, s) = x % Turn
        BY <1>6 DEF x
    <2> QED
        BY <2>1, <2>2, <2>3
<1>12. (p * A) + A = (p + 1) * A
    BY <1>1, <1>10
<1>13. CASE p + 1 < P
    <2>1. ((p + 1) * A) % Turn = (p + 1) * A
        BY <1>1, <1>8, <1>13, SmallRemainder
    <2>2. Turned(sh, SatOf(sh, p, s)) = SatOf(sh, p + 1, s)
        BY <1>5, <1>8, <1>9, <1>11, <1>12, <1>13, <2>1
    <2> QED
        BY <1>13, <2>2 DEF P
<1>14. CASE ~(p + 1 < P)
    <2>1. p + 1 = P
        BY <1>1, <1>14
    <2>2. (p + 1) * A = (Turn * 1) + 0 /\ 0 \in 0 .. Turn - 1
        BY <1>1, <2>1
    <2>3. ((p + 1) * A) % Turn = 0 /\ 0 * A = 0
        BY <1>1, <2>2, RemainderUnique
    <2>4. (s * B) + ((p + 1) * H) = (Turn * d) + (t * B)
        <3>1. (s * B) + ((p + 1) * H) = (s + F) * B
            BY <1>1, <1>2, <1>10, <2>1
        <3>2. ((S * d) + t) * B = ((S * B) * d) + (t * B)
            BY <1>1, <1>4
        <3> QED
            BY <1>1, <1>4, <3>1, <3>2
    <2>5. ((s * B) + ((p + 1) * H)) % Turn = t * B
        <3> DEFINE y == t * B
        <3>1. Turn \in Nat \ {0} /\ d \in Int /\ y \in 0 .. Turn - 1
            BY <1>1, <1>4, <1>7
        <3> HIDE DEF y
        <3>2. ((Turn * d) + y) % Turn = y
            BY <3>1, RemainderUnique
        <3> QED
            BY <2>4, <3>2 DEF y
    <2>6. Anomaly(sh, 0, t) = t * B
        <3>1. (t * B) + (0 * H) = t * B
            BY <1>1, <1>7
        <3> QED
            BY <1>1, <1>7, <3>1, SmallRemainder
    <2>7. Turned(sh, SatOf(sh, p, s)) = SatOf(sh, 0, t)
        BY <1>5, <1>9, <1>11, <1>12, <2>3, <2>5, <2>6
    <2> QED
        BY <1>14, <2>7 DEF P, S, F, t
<1> QED
    BY <1>13, <1>14

LEMMA PatternIsSymmetric ==
    ASSUME NEW sh \in FitShells
    PROVE  {Turned(sh, r) : r \in ToSet(Elems(sh))} = ToSet(Elems(sh))
<1> DEFINE P == sh.P
           S == SlotsOf(sh)
<1>1. P \in Nat \ {0} /\ S \in Nat \ {0} /\ sh.F \in Nat
    BY ShapeFacts
<1>2. ASSUME NEW r, IsOfPattern(sh, r)
      PROVE  IsOfPattern(sh, Turned(sh, r))
    <2>1. PICK p \in 0 .. P - 1, s \in 0 .. S - 1 : r = SatOf(sh, p, s)
        BY <1>2 DEF IsOfPattern
    <2>2. Turned(sh, r) = IF p + 1 < P THEN SatOf(sh, p + 1, s) ELSE SatOf(sh, 0, (s + sh.F) % S)
        BY <2>1, TurnedIs
    <2>3. CASE p + 1 < P
        <3>1. p + 1 \in 0 .. P - 1
            BY <1>1, <2>3
        <3> QED
            BY <2>2, <2>3, <3>1 DEF IsOfPattern
    <2>4. CASE ~(p + 1 < P)
        <3>1. 0 \in 0 .. P - 1 /\ s + sh.F \in Int
            BY <1>1
        <3>2. (s + sh.F) % S \in 0 .. S - 1
            BY <1>1, <3>1, Remainder
        <3> QED
            BY <2>2, <2>4, <3>1, <3>2 DEF IsOfPattern
    <2> QED
        BY <2>3, <2>4
<1>3. ASSUME NEW r, IsOfPattern(sh, r)
      PROVE  \E q : IsOfPattern(sh, q) /\ Turned(sh, q) = r
    <2>1. PICK p \in 0 .. P - 1, s \in 0 .. S - 1 : r = SatOf(sh, p, s)
        BY <1>3 DEF IsOfPattern
    <2>2. CASE p # 0
        <3>1. p - 1 \in 0 .. P - 1 /\ (p - 1) + 1 < P /\ (p - 1) + 1 = p
            BY <1>1, <2>2
        <3>2. Turned(sh, SatOf(sh, p - 1, s)) = r
            <4>1. PICK q \in 0 .. P - 1 : q = p - 1
                BY <3>1
            <4> QED
                BY <2>1, <3>1, <4>1, TurnedIs
        <3> QED
            BY <3>1, <3>2 DEF IsOfPattern
    <2>3. CASE p = 0
        <3> DEFINE t == (s - sh.F) % S
                   e == (s - sh.F) \div S
        <3>1. s - sh.F = (S * e) + t /\ t \in 0 .. S - 1 /\ e \in Int
            <4>1. s - sh.F \in Int
                BY <1>1
            <4> QED
                BY <1>1, <4>1, Remainder
        <3> HIDE DEF t, e
        <3>2. t + sh.F = (S * (-e)) + s /\ -e \in Int
            <4>1. S * (-e) = -(S * e) /\ S * e \in Int
                BY <1>1, <3>1
            <4> DEFINE m == S * e
            <4>2. m \in Int /\ S * (-e) = -m /\ s - sh.F = m + t /\ t \in Int /\ s \in Int /\ sh.F \in Int
                BY <1>1, <3>1, <4>1
            <4> HIDE DEF m
            <4>3. t + sh.F = (-m) + s
                BY <4>2
            <4> QED
                BY <3>1, <4>2, <4>3
        <3>3. (t + sh.F) % S = s
            BY <1>1, <3>2, RemainderUnique
        <3>4. P - 1 \in 0 .. P - 1 /\ ~((P - 1) + 1 < P)
            BY <1>1
        <3>5. Turned(sh, SatOf(sh, P - 1, t)) = r
            <4>1. PICK q \in 0 .. P - 1 : q = P - 1
                BY <3>4
            <4> QED
                BY <2>1, <2>3, <3>1, <3>3, <3>4, <4>1, TurnedIs
        <3> QED
            BY <3>1, <3>4, <3>5 DEF IsOfPattern
    <2> QED
        BY <2>2, <2>3
<1> QED
    BY <1>2, <1>3, PatternFacts

\* The nodes of a pattern, as rows without their anomaly.
NodeOf(sh, n) == Elems(sh)[n].raan
NodeKey(sh, x) == [a |-> sh.a, inc |-> sh.inc, raan |-> x, M |-> 0]
NodeKeys(sh) == {NodeKey(sh, NodeOf(sh, n)) : n \in 1 .. sh.T}
KeysBefore(sh, y) == {q \in NodeKeys(sh) : q.raan < y}

LEMMA NodeFacts ==
    ASSUME NEW sh \in FitShells, NEW n \in 1 .. sh.T
    PROVE  /\ Elems(sh)[n].a = sh.a /\ Elems(sh)[n].inc = sh.inc /\ NodeOf(sh, n) \in Int
           /\ [Elems(sh)[n] EXCEPT !.M = 0] = NodeKey(sh, NodeOf(sh, n))
           /\ NodeKey(sh, NodeOf(sh, n)) \in NodeKeys(sh)
           /\ NodeKey(sh, NodeOf(sh, n)).raan = NodeOf(sh, n)
<1>1. Elems(sh)[n] = [a |-> sh.a, inc |-> sh.inc, raan |-> Plane(sh, n) * PlaneAngle(sh),
                      M |-> Anomaly(sh, Plane(sh, n), Slot(sh, n))]
    BY DEF Elems, SatAt, SatOf
<1>2. Plane(sh, n) * PlaneAngle(sh) \in Int
    BY PlaceFacts, SatBounds
<1>3. NodeOf(sh, n) = Plane(sh, n) * PlaneAngle(sh)
    BY <1>1 DEF NodeOf
<1>4. NodeKey(sh, NodeOf(sh, n)) \in NodeKeys(sh)
    BY DEF NodeKeys
<1> QED
    BY <1>1, <1>2, <1>3, <1>4 DEF NodeKey

LEMMA UidIs ==
    ASSUME NEW sh \in FitShells, NEW n \in 1 .. sh.T
    PROVE  Gens!physical_plane_uid(Elems(sh))[n] = Cardinality(KeysBefore(sh, NodeOf(sh, n)))
<1>1. sh.a \in Int /\ sh.inc \in Int /\ DOMAIN Elems(sh) = 1 .. sh.T
    BY ShapeFacts DEF Elems
<1>2. {[Elems(sh)[m] EXCEPT !.M = 0] : m \in DOMAIN Elems(sh)} = NodeKeys(sh)
    <2>1. \A m \in 1 .. sh.T : [Elems(sh)[m] EXCEPT !.M = 0] = NodeKey(sh, NodeOf(sh, m))
        BY NodeFacts
    <2> QED
        BY <1>1, <2>1 DEF NodeKeys
<1>3. \A q \in NodeKeys(sh) : Gens!Below(q, Elems(sh)[n]) <=> q.raan < NodeOf(sh, n)
    <2> SUFFICES ASSUME NEW m \in 1 .. sh.T
                 PROVE  Gens!Below(NodeKey(sh, NodeOf(sh, m)), Elems(sh)[n])
                            <=> NodeKey(sh, NodeOf(sh, m)).raan < NodeOf(sh, n)
        BY DEF NodeKeys
    <2> DEFINE q == NodeKey(sh, NodeOf(sh, m))
               e == Elems(sh)[n]
    <2>1. q.a = e.a /\ q.inc = e.inc /\ e.a \in Int /\ e.inc \in Int /\ e.raan = NodeOf(sh, n)
        BY <1>1, NodeFacts DEF NodeKey, NodeOf
    <2> HIDE DEF q, e
    <2>2. Gens!Below(q, e) <=> q.raan < e.raan
        BY <2>1 DEF Gens!Below
    <2> QED
        BY <2>1, <2>2 DEF q, e
<1>4. {q \in NodeKeys(sh) : Gens!Below(q, Elems(sh)[n])} = KeysBefore(sh, NodeOf(sh, n))
    BY <1>3 DEF KeysBefore
<1>5. Gens!physical_plane_uid(Elems(sh))[n] = Cardinality({q \in NodeKeys(sh) : Gens!Below(q, Elems(sh)[n])})
    BY <1>1, <1>2, GensCardinality DEF Gens!physical_plane_uid
<1> QED
    BY <1>4, <1>5

LEMMA KeysGrow ==
    ASSUME NEW sh \in FitShells, NEW m \in 1 .. sh.T, NEW n \in 1 .. sh.T, NodeOf(sh, m) < NodeOf(sh, n)
    PROVE  Cardinality(KeysBefore(sh, NodeOf(sh, m))) # Cardinality(KeysBefore(sh, NodeOf(sh, n)))
<1> DEFINE X == KeysBefore(sh, NodeOf(sh, m))
           Y == KeysBefore(sh, NodeOf(sh, n))
<1>1. NodeOf(sh, m) \in Int /\ NodeOf(sh, n) \in Int
    BY NodeFacts
<1>2. \A q \in NodeKeys(sh) : q.raan \in Int
    BY NodeFacts DEF NodeKeys
<1>3. X \subseteq Y /\ Y \subseteq NodeKeys(sh)
    BY <1>1, <1>2 DEF KeysBefore
<1>4. NodeKey(sh, NodeOf(sh, m)) \in Y /\ NodeKey(sh, NodeOf(sh, m)) \notin X
    BY <1>1, NodeFacts DEF KeysBefore
<1> HIDE DEF X, Y
<1>5. IsFiniteSet(NodeKeys(sh))
    <2> DEFINE f == [k \in 1 .. sh.T |-> NodeKey(sh, NodeOf(sh, k))]
    <2>1. IsFiniteSet(1 .. sh.T)
        <3>1. sh.T \in Nat
            BY ShapeFacts
        <3> QED
            BY <3>1, FS_Interval
    <2>2. f \in Surjection(1 .. sh.T, NodeKeys(sh))
        BY DEF Surjection, NodeKeys
    <2> HIDE DEF f
    <2> QED
        BY <2>1, <2>2, FS_Surjection
<1>6. IsFiniteSet(Y) /\ X # Y
    BY <1>3, <1>4, <1>5, FS_Subset
<1>7. Cardinality(X) # Cardinality(Y)
    BY <1>3, <1>6, FS_Subset
<1> QED
    BY <1>7 DEF X, Y

\* The plane numbers of a pattern tell its nodes.
LEMMA PlanesTold ==
    ASSUME NEW sh \in FitShells, NEW k \in 1 .. sh.T, NEW l \in 1 .. sh.T
    PROVE  Gens!physical_plane_uid(Elems(sh))[k] = Gens!physical_plane_uid(Elems(sh))[l]
              <=> Elems(sh)[k].raan = Elems(sh)[l].raan
<1>1. NodeOf(sh, k) \in Int /\ NodeOf(sh, l) \in Int
    BY NodeFacts
<1>2. NodeOf(sh, k) = NodeOf(sh, l) \/ NodeOf(sh, k) < NodeOf(sh, l) \/ NodeOf(sh, l) < NodeOf(sh, k)
    BY <1>1
<1>3. NodeOf(sh, k) # NodeOf(sh, l)
         => Cardinality(KeysBefore(sh, NodeOf(sh, k))) # Cardinality(KeysBefore(sh, NodeOf(sh, l)))
    BY <1>2, KeysGrow
<1>4. Gens!physical_plane_uid(Elems(sh))[k] = Gens!physical_plane_uid(Elems(sh))[l]
         <=> NodeOf(sh, k) = NodeOf(sh, l)
    BY <1>3, UidIs
<1> QED
    BY <1>4 DEF NodeOf

-----------------------------------------------------------------------------
\* Plane by plane.
Entry(sh, p, s) == [row |-> SatOf(sh, p, s), slot |-> s]
PlaneRows(sh, i) == [s \in 1 .. SlotsOf(sh) |-> Entry(sh, i - 1, s - 1)]
RowsOf(sh, n) == [k \in 1 .. SlotsOf(sh) * n |-> Entry(sh, Plane(sh, k), Slot(sh, k))]

LEMMA PlanesJoined ==
    ASSUME NEW sh \in FitShells
    PROVE  FlattenSeq([i \in 1 .. sh.P |-> PlaneRows(sh, i)]) = RowsOf(sh, sh.P)
<1> DEFINE P == sh.P
           S == SlotsOf(sh)
           A == {Entry(sh, p, s) : p \in 0 .. P - 1, s \in 0 .. S - 1}
           row == [i \in 1 .. P |-> PlaneRows(sh, i)]
           Good == {n \in 0 .. P : FlattenSeq([i \in 1 .. n |-> row[i]]) = RowsOf(sh, n)}
<1>1. P \in Nat \ {0} /\ S \in Nat \ {0} /\ sh.T = P * S /\ sh.T \in Nat
    BY ShapeFacts
<1>2. ASSUME NEW i \in 1 .. P
      PROVE  row[i] = PlaneRows(sh, i) /\ row[i] \in Seq(A)
    <2>1. PlaneRows(sh, i) \in [1 .. S -> A]
        <3>1. i - 1 \in 0 .. P - 1 /\ \A s \in 1 .. S : s - 1 \in 0 .. S - 1
            BY <1>1
        <3> QED
            BY <3>1 DEF PlaneRows
    <2> HIDE DEF A
    <2> QED
        BY <1>1, <2>1
<1> HIDE DEF A
<1>3. 0 \in Good
    <2>1. [i \in 1 .. 0 |-> row[i]] \in [1 .. 0 -> Seq({})]
        OBVIOUS
    <2>2. FlattenSeq([i \in 1 .. 0 |-> row[i]]) = <<>>
        BY <2>1, FlattenNone
    <2>3. S * 0 = 0
        BY <1>1
    <2>4. RowsOf(sh, 0) = <<>>
        BY <2>3 DEF RowsOf
    <2> QED
        BY <1>1, <2>2, <2>4
<1>4. ASSUME NEW n \in 1 .. P, n - 1 \in Good
      PROVE  n \in Good
    <2>1. PICK m \in Nat : m = n - 1 /\ n = m + 1
        BY <1>1
    <2>2. \A i \in 1 .. m + 1 : row[i] \in Seq(A)
        BY <1>1, <1>2, <2>1
    <2> HIDE DEF row
    <2>3. /\ FlattenSeq([i \in 1 .. m + 1 |-> row[i]]) = FlattenSeq([i \in 1 .. m |-> row[i]]) \o row[m + 1]
          /\ FlattenSeq([i \in 1 .. m |-> row[i]]) \in Seq(A)
        BY <2>2, RowsGrow
    <2>4. /\ FlattenSeq([i \in 1 .. n |-> row[i]]) = RowsOf(sh, m) \o PlaneRows(sh, n)
          /\ RowsOf(sh, m) \in Seq(A) /\ PlaneRows(sh, n) \in Seq(A)
        BY <1>2, <1>4, <2>1, <2>3
    <2> DEFINE c == S * m
    <2>5. c \in Nat /\ S * n = c + S
        BY <1>1, <2>1
    <2>6. /\ RowsOf(sh, m) = [k \in 1 .. c |-> Entry(sh, Plane(sh, k), Slot(sh, k))]
          /\ RowsOf(sh, n) = [k \in 1 .. c + S |-> Entry(sh, Plane(sh, k), Slot(sh, k))]
          /\ PlaneRows(sh, n) = [s \in 1 .. S |-> Entry(sh, m, s - 1)]
        BY <2>1, <2>5 DEF RowsOf, PlaneRows
    <2>7. \A k \in 1 .. c + S : ~(k <= c) => Plane(sh, k) = m /\ Slot(sh, k) = (k - c) - 1
        <3> SUFFICES ASSUME NEW k \in 1 .. c + S, ~(k <= c)
                     PROVE  Plane(sh, k) = m /\ Slot(sh, k) = (k - c) - 1
            OBVIOUS
        <3>1. PICK r \in 0 .. S - 1 : k - 1 = c + r /\ r = (k - c) - 1
            <4>1. (k - c) - 1 \in 0 .. S - 1 /\ k - 1 = c + ((k - c) - 1)
                <5> HIDE DEF c, S
                <5> QED
                    BY <1>1, <2>5
            <4> QED
                BY <4>1
        <3>2. ((S * m) + r) \div S = m /\ ((S * m) + r) % S = r
            <4>1. S \in Nat \ {0} /\ m \in Int /\ r \in 0 .. S - 1
                BY <1>1
            <4> HIDE DEF S, c
            <4> QED
                BY <4>1, QuotientUnique, RemainderUnique
        <3> QED
            BY <3>1, <3>2 DEF Plane, Slot
    <2> HIDE DEF c, S
    <2>8. RowsOf(sh, m) \o PlaneRows(sh, n) = RowsOf(sh, n)
        <3> DEFINE x == RowsOf(sh, m)
                   y == PlaneRows(sh, n)
                   z == RowsOf(sh, n)
        <3>1. Len(x) = c /\ Len(y) = S
            BY <1>1, <2>5, <2>6
        <3>2. x \o y = [k \in 1 .. Len(x) + Len(y) |-> IF k <= Len(x) THEN x[k] ELSE y[k - Len(x)]]
            <4>1. x \in Seq(A) /\ y \in Seq(A)
                BY <2>4
            <4> HIDE DEF x, y
            <4>2. /\ x \o y \in Seq(A) /\ Len(x \o y) = Len(x) + Len(y)
                  /\ \A k \in 1 .. Len(x) + Len(y) : (x \o y)[k] = IF k <= Len(x) THEN x[k] ELSE y[k - Len(x)]
                BY <4>1, ConcatProperties
            <4> DEFINE both == x \o y
            <4>3. both \in Seq(A) /\ Len(both) = Len(x) + Len(y)
                BY <4>2
            <4>4. \A k \in 1 .. Len(x) + Len(y) : both[k] = IF k <= Len(x) THEN x[k] ELSE y[k - Len(x)]
                BY <4>2
            <4> HIDE DEF both
            <4>5. both = [k \in 1 .. Len(x) + Len(y) |-> both[k]]
                BY <4>3
            <4> QED
                BY <4>4, <4>5 DEF both
        <3>3. \A k \in 1 .. c + S : z[k] = IF k <= c THEN x[k] ELSE y[k - c]
            <4> TAKE k \in 1 .. c + S
            <4>1. z[k] = Entry(sh, Plane(sh, k), Slot(sh, k))
                BY <2>6
            <4>2. k <= c => x[k] = Entry(sh, Plane(sh, k), Slot(sh, k))
                BY <1>1, <2>5, <2>6
            <4>3. ~(k <= c) => k - c \in 1 .. S
                BY <1>1, <2>5
            <4>4. ~(k <= c) => y[k - c] = Entry(sh, m, (k - c) - 1)
                BY <2>6, <4>3
            <4> QED
                BY <2>7, <4>1, <4>2, <4>4
        <3>4. z = [k \in 1 .. c + S |-> z[k]]
            BY <2>6
        <3> HIDE DEF x, y, z
        <3>5. x \o y = z
            BY <3>1, <3>2, <3>3, <3>4
        <3> QED
            BY <3>5 DEF x, y, z
    <2> QED
        BY <2>4, <2>8
<1> HIDE DEF Good
<1>5. 0 .. P \subseteq Good
    BY <1>1, <1>3, <1>4, UpTo
<1>6. P \in Good
    BY <1>1, <1>5
<1>7. [i \in 1 .. P |-> row[i]] = row
    OBVIOUS
<1> QED
    BY <1>6, <1>7 DEF Good

LEMMA GensFlattenSeq == ASSUME NEW s PROVE Gens!FlattenSeq(s) = FlattenSeq(s)
  BY Zenon DEF Gens!FlattenSeq, FlattenSeq

LEMMA WrittenByPlanes ==
    ASSUME NEW sh \in FitShells
    PROVE  Gens!explicit_planes_model(Template(sh), Gens!AsPlanes(sh)) = Gens!Model(Elems(sh), Slots(sh))
<1> DEFINE planes == Gens!AsPlanes(sh)
           OfPlane(pl) == [s \in DOMAIN pl.phases |->
               [row |-> Gens!Row(Gens!Given(pl.a, Template(sh).a), Gens!Given(pl.inc, Template(sh).inc),
                                 pl.raan, pl.phases[s]),
                slot |-> s - 1]]
           rows == FlattenSeq([i \in DOMAIN planes |-> OfPlane(planes[i])])
<1>1. Gens!explicit_planes_model(Template(sh), planes)
         = Gens!Model([k \in DOMAIN rows |-> rows[k].row], [k \in DOMAIN rows |-> rows[k].slot])
    BY GensFlattenSeq DEF Gens!explicit_planes_model
<1>2. sh.P \in Nat \ {0} /\ SlotsOf(sh) \in Nat \ {0} /\ sh.T = sh.P * SlotsOf(sh) /\ sh.T \in Nat
    BY ShapeFacts
<1>3. DOMAIN planes = 1 .. sh.P
    BY DEF Gens!AsPlanes
<1>4. ASSUME NEW i \in 1 .. sh.P
      PROVE  OfPlane(planes[i]) = PlaneRows(sh, i)
    <2>1. planes[i] = [raan |-> Gens!Angle(i - 1, sh.P), a |-> None, inc |-> None,
                       phases |-> [s \in 1 .. SlotsOf(sh) |->
                           Gens!Angle(s - 1, SlotsOf(sh)) + Gens!Angle((i - 1) * sh.F, sh.T)]]
        BY DEF Gens!AsPlanes, SlotsOf
    <2>2. i - 1 \in 0 .. sh.P - 1 /\ \A s \in 1 .. SlotsOf(sh) : s - 1 \in 0 .. SlotsOf(sh) - 1
        BY <1>2
    <2>3. \A s \in 1 .. SlotsOf(sh) :
             Gens!Row(sh.a, sh.inc, Gens!Angle(i - 1, sh.P),
                      Gens!Angle(s - 1, SlotsOf(sh)) + Gens!Angle((i - 1) * sh.F, sh.T)) = SatOf(sh, i - 1, s - 1)
        BY <2>2, RowIsSat
    <2> HIDE DEF planes
    <2>4. OfPlane(planes[i]) = [s \in 1 .. SlotsOf(sh) |->
              [row |-> Gens!Row(sh.a, sh.inc, Gens!Angle(i - 1, sh.P),
                           Gens!Angle(s - 1, SlotsOf(sh)) + Gens!Angle((i - 1) * sh.F, sh.T)),
               slot |-> s - 1]]
        BY <2>1 DEF Template, Gens!Given
    <2> HIDE DEF OfPlane
    <2> QED
        BY <2>3, <2>4 DEF PlaneRows, Entry
<1>5. rows = RowsOf(sh, sh.P)
    <2> HIDE DEF OfPlane, planes
    <2>1. [i \in DOMAIN planes |-> OfPlane(planes[i])] = [i \in 1 .. sh.P |-> PlaneRows(sh, i)]
        BY <1>3, <1>4
    <2> QED
        BY <2>1, PlanesJoined
<1> HIDE DEF rows, planes
<1>6. SlotsOf(sh) * sh.P = sh.T
    BY <1>2
<1>7. DOMAIN rows = 1 .. sh.T /\ \A k \in 1 .. sh.T : rows[k] = Entry(sh, Plane(sh, k), Slot(sh, k))
    BY <1>5, <1>6 DEF RowsOf
<1>8. ASSUME NEW k \in 1 .. sh.T
      PROVE  rows[k].row = SatAt(sh, k) /\ rows[k].slot = Slot(sh, k)
    <2>1. rows[k] = Entry(sh, Plane(sh, k), Slot(sh, k))
        BY <1>7
    <2>2. /\ Entry(sh, Plane(sh, k), Slot(sh, k)).row = SatAt(sh, k)
          /\ Entry(sh, Plane(sh, k), Slot(sh, k)).slot = Slot(sh, k)
        BY DEF Entry, SatAt
    <2> QED
        BY <2>1, <2>2
<1>9. [k \in DOMAIN rows |-> rows[k].row] = Elems(sh)
    BY <1>7, <1>8 DEF Elems
<1>10. [k \in DOMAIN rows |-> rows[k].slot] = Slots(sh)
    BY <1>7, <1>8 DEF Slots
<1> QED
    BY <1>1, <1>9, <1>10 DEF planes

LEMMA WrittenBySlots ==
    ASSUME NEW sh \in FitShells, NEW m, m.elems = Elems(sh), m.slot_id = Slots(sh)
    PROVE  Gens!phase_slot_model(Template(sh), Gens!AsSlots(m)) = Gens!Model(Elems(sh), Slots(sh))
<1> DEFINE slots == Gens!AsSlots(m)
           Row(k) == Gens!Row(Gens!Given(slots[k].a, Template(sh).a), Gens!Given(slots[k].inc, Template(sh).inc),
                              slots[k].raan, slots[k].M)
<1>1. Gens!phase_slot_model(Template(sh), slots)
         = Gens!Model([k \in DOMAIN slots |-> Row(k)], [k \in DOMAIN slots |-> slots[k].slot_id])
    BY DEF Gens!phase_slot_model
<1>2. DOMAIN Elems(sh) = 1 .. sh.T
    BY DEF Elems
<1>3. /\ DOMAIN slots = 1 .. sh.T
      /\ \A k \in 1 .. sh.T : slots[k] = [raan |-> Elems(sh)[k].raan, M |-> Elems(sh)[k].M,
                                         slot_id |-> Slots(sh)[k], a |-> None, inc |-> None]
    BY <1>2 DEF Gens!AsSlots
<1> HIDE DEF slots
<1> DEFINE Told(k) == [raan |-> Elems(sh)[k].raan, M |-> Elems(sh)[k].M,
                       slot_id |-> Slots(sh)[k], a |-> None, inc |-> None]
<1>told. \A k \in 1 .. sh.T : slots[k] = Told(k)
    BY <1>3
<1>tells. \A k \in 1 .. sh.T : /\ Told(k).a = None /\ Told(k).inc = None
                            /\ Told(k).raan = Elems(sh)[k].raan /\ Told(k).M = Elems(sh)[k].M
                            /\ Told(k).slot_id = Slots(sh)[k]
    OBVIOUS
<1> HIDE DEF Told
<1>4. \A k \in 1 .. sh.T : Row(k) = Gens!Row(sh.a, sh.inc, Elems(sh)[k].raan, Elems(sh)[k].M)
    <2>1. \A k \in 1 .. sh.T : /\ slots[k].a = None /\ slots[k].inc = None
                               /\ slots[k].raan = Elems(sh)[k].raan /\ slots[k].M = Elems(sh)[k].M
        BY <1>told, <1>tells
    <2>2. Gens!Given(None, Template(sh).a) = sh.a /\ Gens!Given(None, Template(sh).inc) = sh.inc
        BY DEF Template, Gens!Given
    <2> QED
        BY <2>1, <2>2
<1>5. \A k \in 1 .. sh.T : Row(k) = Elems(sh)[k]
    <2> TAKE k \in 1 .. sh.T
    <2>1. Elems(sh)[k] = SatOf(sh, Plane(sh, k), Slot(sh, k))
        BY DEF Elems, SatAt
    <2>2. Plane(sh, k) \in 0 .. sh.P - 1 /\ Slot(sh, k) \in 0 .. SlotsOf(sh) - 1
        BY PlaceFacts
    <2> HIDE DEF Row
    <2> QED
        BY <1>4, <2>1, <2>2, RowIsSat
<1> HIDE DEF Row
<1>6. [k \in DOMAIN slots |-> Row(k)] = Elems(sh)
    BY <1>3, <1>5 DEF Elems
<1>7. [k \in DOMAIN slots |-> slots[k].slot_id] = Slots(sh)
    <2>1. \A k \in 1 .. sh.T : slots[k].slot_id = Slots(sh)[k]
        BY <1>told, <1>tells
    <2>2. Slots(sh) = [k \in 1 .. sh.T |-> Slots(sh)[k]]
        BY DEF Slots
    <2> QED
        BY <1>3, <2>1, <2>2
<1> QED
    BY <1>1, <1>6, <1>7 DEF slots

-----------------------------------------------------------------------------
\* The shells are Walker shapes, and the models made so far are theirs.
GensInv ==
    /\ panel \in Panels /\ shells \in Seq(FitShells)
    /\ parts \in Seq({Gens!ModelOf(sh) : sh \in FitShells}) /\ Len(parts) <= Len(shells)
    /\ \A n \in 1 .. Len(parts) : parts[n] = Gens!ModelOf(shells[n])

LEMMA CustomFits ==
    ASSUME NEW planes \in Nat, NEW spp \in Nat, NEW phase \in Nat, NEW alt \in Int, NEW inc \in Int,
           Gens!Fits(planes * spp, planes)
    PROVE  Gens!CustomShell(planes, spp, phase, alt, inc) \in FitShells
<1>1. planes \in Nat \ {0} /\ planes * spp \in Nat
    BY DEF Gens!Fits
<1>2. Gens!Least(phase, planes - 1) \in Nat
    BY <1>1 DEF Gens!Least
<1> QED
    BY <1>1, <1>2 DEF Gens!CustomShell, FitShells, LegacyShells

LEMMA BuiltShells ==
    ASSUME GensInv, Gens!Build
    PROVE  shells' \in Seq(FitShells)
<1>1. CASE panel.scenario # CUSTOM
    <2> DEFINE ss == Presets[panel.scenario]
    <2>1. /\ shells' = ss /\ ss \in Seq(LegacyShells)
          /\ \A n \in DOMAIN ss : Gens!Fits(ss[n].T, ss[n].P)
        BY <1>1, ConstellationAssumption DEF GensInv, Gens!Build, Gens!GeneratorsAssumption, LegacyShells
    <2> HIDE DEF ss
    <2>2. \A n \in 1 .. Len(ss) : ss[n] \in FitShells
        <3>1. \A n \in 1 .. Len(ss) : n \in DOMAIN ss /\ ss[n] \in LegacyShells
            BY <2>1
        <3> QED
            BY <2>1, <3>1 DEF FitShells
    <2>3. ss \in [1 .. Len(ss) -> FitShells] /\ Len(ss) \in Nat
        BY <2>1, <2>2
    <2> QED
        BY <2>1, <2>3
<1>2. CASE panel.scenario = CUSTOM
    <2> DEFINE one == Gens!CustomShell(panel.planes1, panel.spp1, panel.phase1, panel.alt1, panel.inc1)
               two == Gens!CustomShell(panel.planes2, panel.spp2, panel.phase2, panel.alt2, panel.inc2)
    <2>1. shells' = <<one>> \o IF panel.shell2_on THEN <<two>> ELSE <<>>
        BY <1>2 DEF Gens!Build
    <2>2. one \in FitShells /\ two \in FitShells
        BY <1>2, ConstellationAssumption, CustomFits DEF GensInv, Gens!GeneratorsAssumption
    <2> HIDE DEF one, two
    <2>3. <<one>> \in Seq(FitShells) /\ <<two>> \in Seq(FitShells) /\ <<>> \in Seq(FitShells)
        BY <2>2
    <2> QED
        BY <2>1, <2>3, ConcatProperties
<1> QED
    BY <1>1, <1>2

LEMMA StepGens == ASSUME GensInv, [Gens!Next]_(Gens!vars) PROVE GensInv'
<1> DEFINE Made == {Gens!ModelOf(sh) : sh \in FitShells}
<1>0. /\ panel \in Panels /\ shells \in Seq(FitShells) /\ parts \in Seq(Made) /\ Len(parts) <= Len(shells)
      /\ \A n \in 1 .. Len(parts) : parts[n] = Gens!ModelOf(shells[n])
    BY DEF GensInv
<1> HIDE DEF Made
<1>1. CASE Gens!Build
    <2>1. shells = <<>> /\ UNCHANGED <<panel, parts>>
        BY <1>1 DEF Gens!Build
    <2>2. Len(parts) = 0 /\ Len(parts) \in Nat
        BY <1>0, <2>1
    <2>3. shells' \in Seq(FitShells) /\ Len(shells') \in Nat
        BY <1>1, BuiltShells
    <2> QED
        BY <1>0, <2>1, <2>2, <2>3 DEF GensInv, Made
<1>2. CASE Gens!Part
    <2> DEFINE m == Gens!ModelOf(shells[Len(parts) + 1])
    <2>1. Len(parts) < Len(shells) /\ parts' = Append(parts, m) /\ UNCHANGED <<panel, shells>>
        BY <1>2 DEF Gens!Part
    <2>2. Len(parts) + 1 \in 1 .. Len(shells) /\ shells[Len(parts) + 1] \in FitShells
        BY <1>0, <2>1
    <2>3. m \in Made
        BY <2>2 DEF Made
    <2> HIDE DEF m
    <2>4. /\ parts' \in Seq(Made) /\ Len(parts') = Len(parts) + 1 /\ parts'[Len(parts) + 1] = m
          /\ \A n \in 1 .. Len(parts) : parts'[n] = parts[n]
        BY <1>0, <2>1, <2>3
    <2>5. Len(parts') <= Len(shells)
        BY <1>0, <2>1, <2>4
    <2>6. ASSUME NEW n \in 1 .. Len(parts')
          PROVE  parts'[n] = Gens!ModelOf(shells[n])
        <3>1. n = Len(parts) + 1 \/ n \in 1 .. Len(parts)
            BY <1>0, <2>4
        <3> QED
            BY <1>0, <2>4, <3>1 DEF m
    <2> QED
        BY <1>0, <2>1, <2>4, <2>5, <2>6 DEF GensInv, Made
<1>3. CASE Gens!Touch
    BY <1>3 DEF Gens!Touch, GensInv
<1>4. CASE UNCHANGED Gens!vars
    BY <1>4 DEF Gens!vars, GensInv
<1> QED
    BY <1>1, <1>2, <1>3, <1>4 DEF Gens!Next

LEMMA LegacyIs ==
    ASSUME NEW sh \in FitShells
    PROVE  /\ Gens!ModelOf(sh).elems = Elems(sh)
           /\ Gens!ModelOf(sh).plane_uid = Gens!physical_plane_uid(Elems(sh))
<1>1. sh.kind = "legacy"
    BY DEF FitShells, LegacyShells
<1>2. Gens!ModelOf(sh) = Gens!LegacyModel(sh)
    BY <1>1 DEF Gens!ModelOf
<1>3. Gens!LegacyModel(sh) = [Gens!Model(Elems(sh), Slots(sh)) EXCEPT !.slot_id = [k \in 1 .. sh.T |-> k - 1]]
    BY WalkerRows DEF Gens!LegacyModel, Template
<1> QED
    BY <1>2, <1>3 DEF Gens!Model

LEMMA GeneratorsFollow == ASSUME GensInv PROVE GeneratorsAgree
<1> SUFFICES ASSUME NEW n \in DOMAIN parts
             PROVE  LET sh == shells[n]
                        m == Gens!ModelOf(Gens!ByShape(sh))
                    IN  /\ Gens!WalkerIsSymmetric(sh, m)
                        /\ parts[n].elems = m.elems /\ parts[n].plane_uid = m.plane_uid
                        /\ Gens!ModelOf(Gens!ByPlanes(sh)) = m /\ Gens!ModelOf(Gens!BySlots(sh, m)) = m
                        /\ \A k \in 1 .. sh.T :
                              [raan |-> m.elems[k].raan, M |-> m.elems[k].M]
                                  = Gens!ScriptAngles(k, sh.P, sh.T \div sh.P, sh.F)
    BY DEF GeneratorsAgree, Gens!GeneratorsAgree
<1> DEFINE sh == shells[n]
           m == Gens!ModelOf(Gens!ByShape(sh))
           w == Gens!Model(Elems(sh), Slots(sh))
<1>1. n \in 1 .. Len(parts) /\ n \in 1 .. Len(shells) /\ parts[n] = Gens!ModelOf(sh)
    <2>1. /\ DOMAIN parts = 1 .. Len(parts) /\ Len(parts) \in Nat /\ Len(shells) \in Nat
          /\ Len(parts) <= Len(shells)
        BY DEF GensInv
    <2> QED
        BY <2>1 DEF GensInv
<1>2. sh \in FitShells
    BY <1>1 DEF GensInv
<1> HIDE DEF sh
<1>3. m = w
    <2>1. Gens!ModelOf(Gens!ByShape(sh)) = Gens!walker_model(Template(sh), sh.T, sh.P, sh.F)
        BY DEF Gens!ModelOf, Gens!ByShape, Template
    <2> QED
        BY <1>2, <2>1, WalkerRows
<1>4. w.elems = Elems(sh) /\ w.plane_uid = Gens!physical_plane_uid(Elems(sh)) /\ w.slot_id = Slots(sh)
    BY DEF Gens!Model
<1> HIDE DEF m, w
<1>5. Gens!ModelOf(Gens!ByPlanes(sh)) = m
    <2>1. Gens!ModelOf(Gens!ByPlanes(sh)) = Gens!explicit_planes_model(Template(sh), Gens!AsPlanes(sh))
        BY DEF Gens!ModelOf, Gens!ByPlanes, Template
    <2> QED
        BY <1>2, <1>3, <2>1, WrittenByPlanes DEF w
<1>6. Gens!ModelOf(Gens!BySlots(sh, m)) = m
    <2>1. Gens!ModelOf(Gens!BySlots(sh, m)) = Gens!phase_slot_model(Template(sh), Gens!AsSlots(m))
        BY DEF Gens!ModelOf, Gens!BySlots, Template
    <2> QED
        BY <1>2, <1>3, <1>4, <2>1, WrittenBySlots DEF w
<1>7. parts[n].elems = m.elems /\ parts[n].plane_uid = m.plane_uid
    BY <1>1, <1>2, <1>3, <1>4, LegacyIs
<1>8. Gens!WalkerIsSymmetric(sh, m)
    <2>1. Gens!ToSet(m.elems) = ToSet(Elems(sh)) /\ DOMAIN m.elems = 1 .. sh.T
        BY <1>3, <1>4, GensToSet DEF Elems
    <2>2. Gens!Cardinality(Gens!ToSet(m.elems)) = sh.T
        BY <1>2, <2>1, PatternFacts, GensCardinality
    <2>3. {Gens!Row(r.a, r.inc, r.raan + Gens!Angle(1, sh.P), r.M + Gens!Angle(sh.F, sh.T)) : r \in Gens!ToSet(m.elems)}
             = Gens!ToSet(m.elems)
        BY <1>2, <2>1, PatternIsSymmetric DEF Turned
    <2>4. \A k, l \in DOMAIN m.elems :
             m.plane_uid[k] = m.plane_uid[l] <=> m.elems[k].raan = m.elems[l].raan
        <3>1. m.plane_uid = Gens!physical_plane_uid(Elems(sh)) /\ m.elems = Elems(sh)
            BY <1>3, <1>4
        <3> SUFFICES ASSUME NEW k \in 1 .. sh.T, NEW l \in 1 .. sh.T
                     PROVE  Gens!physical_plane_uid(Elems(sh))[k] = Gens!physical_plane_uid(Elems(sh))[l]
                                <=> Elems(sh)[k].raan = Elems(sh)[l].raan
            BY <2>1, <3>1
        <3> QED
            BY <1>2, PlanesTold
    <2> QED
        BY <2>2, <2>3, <2>4 DEF Gens!WalkerIsSymmetric
<1>9. \A k \in 1 .. sh.T : [raan |-> m.elems[k].raan, M |-> m.elems[k].M]
                              = Gens!ScriptAngles(k, sh.P, sh.T \div sh.P, sh.F)
    BY <1>2, <1>3, <1>4, ScriptsPlaces
<1> QED
    BY <1>5, <1>6, <1>7, <1>8, <1>9 DEF sh, m

\* A shell of a panel or of a preset, written down by shape, by planes or by slots, is
\* one model, and the scripts put its satellites where it does; for every shape that
\* is built and every F, its satellites are apart, turning it by one plane gives it
\* again, over the seam as well, and plane numbers tell its planes.
THEOREM GeneratorsCorrect == Gens!Spec => []GeneratorsAgree
<1>1. Gens!Init => GensInv
    BY DEF Gens!Init, GensInv
<1>2. GensInv /\ [Gens!Next]_(Gens!vars) => GensInv'
    BY StepGens
<1>3. GensInv => GeneratorsAgree
    BY GeneratorsFollow
<1> QED
    BY <1>1, <1>2, <1>3, PTL DEF Gens!Spec
=============================================================================
