------------------------------ MODULE SweepProofs ------------------------------
(***************************************************************************)
(* Of the two searches of MCSweep, each for every value of its constants:  *)
(* a sweep needs no fewer satellites for a stronger requirement and marks  *)
(* one smallest candidate that meets them all (Sweep); the bisection keeps *)
(* its change of sign and ends at a crossing (Refine).                     *)
(***************************************************************************)
EXTENDS MCSweep, SequenceTheorems, WellFoundedInduction, FiniteSetTheorems, TLAPS

-----------------------------------------------------------------------------
(***************************************************************************)
(* Positions in a table.                                                   *)
(***************************************************************************)
LEMMA TimesGrows ==
    ASSUME NEW a \in Nat, NEW b \in Nat, a <= b, NEW m \in Nat
    PROVE  a * m <= b * m
<1>1. PICK d \in Nat : b = a + d
    <2>1. b - a \in Nat /\ b = a + (b - a)
        OBVIOUS
    <2> QED
        BY <2>1
<1>2. b * m = a * m + d * m
    BY <1>1
<1>3. d * m \in Nat /\ a * m \in Nat
    OBVIOUS
<1> QED
    BY <1>2, <1>3

\* Row i of a table with m columns: its quotient and remainder are places.
LEMMA PlaceInTable ==
    ASSUME NEW n \in Nat, NEW m \in Nat, NEW i \in 1 .. n * m
    PROVE  /\ (i - 1) \div m + 1 \in 1 .. n
           /\ ((i - 1) % m) + 1 \in 1 .. m
           /\ (i - 1) \div m \in Nat /\ (i - 1) % m \in Nat
           /\ i - 1 = m * ((i - 1) \div m) + ((i - 1) % m)
<1>0. n * m \in Nat
    OBVIOUS
<1>1. i \in Nat /\ 1 <= i /\ i <= n * m
    BY <1>0
<1>2. m # 0
    BY <1>1
<1> DEFINE q == (i - 1) \div m
           r == (i - 1) % m
<1>3. q \in Int /\ r \in 0 .. m - 1 /\ i - 1 = m * q + r
    BY <1>1, <1>2
<1> HIDE DEF q, r
<1>4. q >= 0
    <2>1. CASE q < 0
        <3>1. -q - 1 \in Nat /\ m * q = -(m + (-q - 1) * m)
            BY <1>3, <2>1
        <3>2. (-q - 1) * m \in Nat
            BY <3>1
        <3> QED
            BY <1>1, <1>3, <3>1, <3>2
    <2> QED
        BY <1>3, <2>1
<1>5. q < n
    <2>1. CASE n <= q
        <3>1. n * m <= q * m
            BY <1>3, <1>4, <2>1, TimesGrows
        <3> QED
            BY <1>1, <1>3, <3>1
    <2> QED
        BY <1>3, <2>1
<1> QED
    BY <1>3, <1>4, <1>5 DEF q, r

\* A function on 1 .. m is as long as m.
LEMMA LengthOf ==
    ASSUME NEW m \in Nat, NEW f, DOMAIN f = 1 .. m, f = [j \in 1 .. m |-> f[j]]
    PROVE  Len(f) = m
<1>1. f \in Seq({f[j] : j \in 1 .. m})
    BY SeqDef
<1> QED
    BY <1>1

-----------------------------------------------------------------------------
(***************************************************************************)
(* The grid.                                                               *)
(***************************************************************************)
Shapes == [planes : Nat \ {0}, spp : Nat \ {0}, inc : Int]

\* g lists shapes; on a 2-D sweep each has its own size or number of planes.
IsGrid(g, planes) ==
    /\ Len(g) \in Nat /\ DOMAIN g = 1 .. Len(g)
    /\ \A i \in 1 .. Len(g) : g[i] \in Shapes
    /\ Len(planes) > 1 =>
          \A i, j \in 1 .. Len(g) : i # j => N(g[i]) # N(g[j]) \/ g[i].planes # g[j].planes

LEMMA GridIs ==
    ASSUME NEW planes \in PlanesRanges, NEW incs \in InclinationRanges
    PROVE  IsGrid(GridOf(planes, incs), planes)
<1>1. planes \in Seq(Nat \ {0}) /\ Len(planes) \in Nat /\ 1 \in 1 .. Len(planes) /\ Increasing(planes)
    BY SweepAssumption
<1>2. incs \in Seq(Int) /\ Len(incs) \in Nat /\ 1 \in 1 .. Len(incs)
    BY SweepAssumption
<1>3. SppValues \in Seq(Nat \ {0}) /\ Len(SppValues) \in Nat /\ Increasing(SppValues)
    BY SweepAssumption
<1> DEFINE m == Len(SppValues)
           g == GridOf(planes, incs)
<1>4. CASE Len(planes) > 1
    <2> DEFINE n == Len(planes)
               P(i) == planes[(i - 1) \div m + 1]
               S(i) == SppValues[((i - 1) % m) + 1]
    <2>1. g = [i \in 1 .. n * m |-> [planes |-> P(i), spp |-> S(i), inc |-> incs[1]]]
        BY <1>4 DEF GridOf, Table, Shape
    <2>2. n * m \in Nat
        BY <1>1, <1>3
    <2>3. Len(g) = n * m /\ DOMAIN g = 1 .. n * m
        <3> HIDE DEF g, P, S, n, m
        <3> QED BY <2>1, <2>2, LengthOf
    <2> HIDE DEF g, n, m
    <2>4. ASSUME NEW i \in 1 .. n * m
          PROVE  /\ (i - 1) \div m + 1 \in 1 .. n /\ ((i - 1) % m) + 1 \in 1 .. m
                 /\ P(i) \in Nat \ {0} /\ S(i) \in Nat \ {0}
                 /\ g[i] = [planes |-> P(i), spp |-> S(i), inc |-> incs[1]]
        <3>1. (i - 1) \div m + 1 \in 1 .. n /\ ((i - 1) % m) + 1 \in 1 .. m
            BY <1>1, <1>3, PlaceInTable DEF n, m
        <3> QED
            BY <1>1, <1>3, <2>1, <3>1 DEF n, m
    <2>5. ASSUME NEW i \in 1 .. n * m
          PROVE  g[i] \in Shapes
        <3>1. incs[1] \in Int
            BY <1>2
        <3>2. P(i) \in Nat \ {0} /\ S(i) \in Nat \ {0} /\ g[i] = [planes |-> P(i), spp |-> S(i), inc |-> incs[1]]
            BY <2>4
        <3> HIDE DEF P, S
        <3> QED
            BY <3>1, <3>2 DEF Shapes
    <2>6. ASSUME NEW i \in 1 .. n * m, NEW j \in 1 .. n * m,
                 N(g[i]) = N(g[j]), g[i].planes = g[j].planes
          PROVE  i = j
        <3> DEFINE a == (i - 1) \div m + 1
                   b == ((i - 1) % m) + 1
                   c == (j - 1) \div m + 1
                   d == ((j - 1) % m) + 1
        <3>1. /\ a \in 1 .. n /\ c \in 1 .. n /\ b \in 1 .. m /\ d \in 1 .. m
              /\ planes[a] = planes[c] /\ planes[a] * SppValues[b] = planes[c] * SppValues[d]
              /\ planes[a] \in Nat \ {0} /\ SppValues[b] \in Nat \ {0} /\ SppValues[d] \in Nat \ {0}
            <4>1. /\ a \in 1 .. n /\ b \in 1 .. m /\ planes[a] \in Nat \ {0} /\ SppValues[b] \in Nat \ {0}
                  /\ g[i].planes = planes[a] /\ g[i].spp = SppValues[b]
                <5>1. a \in 1 .. n /\ b \in 1 .. m /\ P(i) \in Nat \ {0} /\ S(i) \in Nat \ {0}
                    BY <2>4
                <5>2. P(i) = planes[a] /\ S(i) = SppValues[b]
                    OBVIOUS
                <5>3. g[i] = [planes |-> P(i), spp |-> S(i), inc |-> incs[1]]
                    BY <2>4
                <5> HIDE DEF P, S, a, b
                <5> QED
                    BY <5>1, <5>2, <5>3
            <4>2. /\ c \in 1 .. n /\ d \in 1 .. m /\ SppValues[d] \in Nat \ {0}
                  /\ g[j].planes = planes[c] /\ g[j].spp = SppValues[d]
                <5>1. c \in 1 .. n /\ d \in 1 .. m /\ P(j) \in Nat \ {0} /\ S(j) \in Nat \ {0}
                    BY <2>4
                <5>2. P(j) = planes[c] /\ S(j) = SppValues[d]
                    OBVIOUS
                <5>3. g[j] = [planes |-> P(j), spp |-> S(j), inc |-> incs[1]]
                    BY <2>4
                <5> HIDE DEF P, S, c, d
                <5> QED
                    BY <5>1, <5>2, <5>3
            <4> HIDE DEF a, b, c, d
            <4> QED
                BY <2>6, <4>1, <4>2 DEF N
        <3>2. i - 1 = m * (a - 1) + (b - 1) /\ j - 1 = m * (c - 1) + (d - 1)
            <4>1. /\ i - 1 = m * ((i - 1) \div m) + ((i - 1) % m)
                  /\ j - 1 = m * ((j - 1) \div m) + ((j - 1) % m)
                  /\ (i - 1) \div m \in Nat /\ (i - 1) % m \in Nat
                  /\ (j - 1) \div m \in Nat /\ (j - 1) % m \in Nat
                BY <1>1, <1>3, PlaceInTable DEF n, m
            <4>2. /\ a - 1 = (i - 1) \div m /\ b - 1 = (i - 1) % m
                  /\ c - 1 = (j - 1) \div m /\ d - 1 = (j - 1) % m
                BY <4>1
            <4> HIDE DEF a, b, c, d
            <4> QED
                BY <4>1, <4>2
        <3> HIDE DEF a, b, c, d
        <3>3. a = c
            <4>1. a \in DOMAIN planes /\ c \in DOMAIN planes /\ a \in Int /\ c \in Int
                BY <1>1, <3>1 DEF n
            <4>2. a < c => planes[a] < planes[c]
                BY <1>1, <4>1 DEF Increasing
            <4>3. c < a => planes[c] < planes[a]
                BY <1>1, <4>1 DEF Increasing
            <4> QED
                BY <3>1, <4>1, <4>2, <4>3
        <3>4. SppValues[b] = SppValues[d]
            <4>1. ASSUME NEW x \in Nat \ {0}, NEW y \in Nat, NEW z \in Nat, x * y = x * z
                  PROVE  y = z
                BY <4>1
            <4> QED
                BY <3>1, <4>1
        <3>5. b = d
            <4>1. b \in DOMAIN SppValues /\ d \in DOMAIN SppValues /\ b \in Int /\ d \in Int
                BY <1>3, <3>1 DEF m
            <4>2. b < d => SppValues[b] < SppValues[d]
                BY <1>3, <4>1 DEF Increasing
            <4>3. d < b => SppValues[d] < SppValues[b]
                BY <1>3, <4>1 DEF Increasing
            <4> QED
                BY <3>1, <3>4, <4>1, <4>2, <4>3
        <3> QED
            BY <2>2, <3>2, <3>3, <3>5
    <2> QED
        BY <2>2, <2>3, <2>5, <2>6 DEF IsGrid, g
<1>5. CASE ~(Len(planes) > 1)
    <2> DEFINE n == Len(incs)
               I(i) == incs[(i - 1) \div m + 1]
               S(i) == SppValues[((i - 1) % m) + 1]
    <2>1. g = [i \in 1 .. n * m |-> [planes |-> planes[1], spp |-> S(i), inc |-> I(i)]]
        BY <1>5 DEF GridOf, Table, Shape
    <2>2. n * m \in Nat
        BY <1>2, <1>3
    <2>3. Len(g) = n * m /\ DOMAIN g = 1 .. n * m
        <3> HIDE DEF g, I, S, n, m
        <3> QED BY <2>1, <2>2, LengthOf
    <2> HIDE DEF g, n, m
    <2>4. ASSUME NEW i \in 1 .. n * m
          PROVE  g[i] \in Shapes
        <3>1. (i - 1) \div m + 1 \in 1 .. n /\ ((i - 1) % m) + 1 \in 1 .. m
            BY <1>2, <1>3, PlaceInTable DEF n, m
        <3>2. I(i) \in Int
            BY <1>2, <3>1 DEF n
        <3>3. S(i) \in Nat \ {0}
            BY <1>3, <3>1 DEF m
        <3>4. planes[1] \in Nat \ {0}
            BY <1>1
        <3>5. g[i] = [planes |-> planes[1], spp |-> S(i), inc |-> I(i)]
            BY <2>1
        <3> HIDE DEF I, S
        <3> QED
            BY <3>2, <3>3, <3>4, <3>5 DEF Shapes
    <2> QED
        BY <1>5, <2>2, <2>3, <2>4 DEF IsGrid, g
<1> QED
    BY <1>4, <1>5

-----------------------------------------------------------------------------
(***************************************************************************)
(* The rows.                                                               *)
(***************************************************************************)
Figures == [shape : Shapes, pct : [Ks -> Nat], mbb : Nat \cup {None}]

\* What a coverage run says of more satellites in view, and of continuity.
RowIsMonotone(row) ==
    /\ \A k, l \in Ks : k <= l => row.pct[l] <= row.pct[k]
    /\ gate => row.mbb \in Nat
    /\ gate /\ 1 \in Ks => row.mbb <= row.pct[1]

SweepInv ==
    /\ rows \in Seq(Figures)
    /\ pc = "idle" => rows = <<>>
    /\ pc # "idle" =>
          /\ Len(rows) <= Len(grid)
          /\ \E planes \in PlanesRanges, incs \in InclinationRanges :
                IsGrid(grid, planes) /\ mode = ModeOf(planes, incs)
    /\ \A i \in DOMAIN rows : rows[i].shape = grid[i] /\ RowIsMonotone(rows[i])

\* Cells counted for a stronger condition are no more.
LEMMA CountsLess ==
    ASSUME NEW S \in SUBSET Cells, NEW T \in SUBSET Cells, S \subseteq T
    PROVE  Cardinality(S) \in Nat /\ Cardinality(T) \in Nat /\ Cardinality(S) <= Cardinality(T)
<1>1. IsFiniteSet(S) /\ IsFiniteSet(T)
    BY SweepAssumption, FS_Subset
<1> QED
    BY <1>1, FS_Subset, FS_CardinalityType

\* The row of any report.
LEMMA RowOf ==
    ASSUME NEW shape \in Shapes, NEW r \in Reports, gate \in BOOLEAN
    PROVE  Row(shape, r) \in Figures /\ RowIsMonotone(Row(shape, r)) /\ Row(shape, r).shape = shape
<1>1. \A c \in Cells : /\ r[c].avail \in [Ks -> 0 .. Samples] /\ r[c].feasible \in BOOLEAN
                       /\ \A k, l \in Ks : k <= l => r[c].avail[l] <= r[c].avail[k]
                       /\ r[c].feasible /\ 1 \in Ks => r[c].avail[1] = Samples
    BY DEF Reports
<1>2. \A k \in Ks : Pct(r, k) \in Nat
    BY CountsLess DEF Pct
<1>3. PctMbb(r) \in Nat
    BY CountsLess DEF PctMbb
<1>4. ASSUME NEW k \in Ks, NEW l \in Ks, k <= l
      PROVE  Pct(r, l) <= Pct(r, k)
    <2>1. {c \in Cells : r[c].avail[l] >= Target} \subseteq {c \in Cells : r[c].avail[k] >= Target}
        BY <1>1, <1>4, SweepAssumption
    <2> QED
        BY <2>1, CountsLess DEF Pct
<1>5. ASSUME 1 \in Ks
      PROVE  PctMbb(r) <= Pct(r, 1)
    <2>1. {c \in Cells : r[c].feasible} \subseteq {c \in Cells : r[c].avail[1] >= Target}
        BY <1>1, <1>5, SweepAssumption
    <2> QED
        BY <2>1, CountsLess DEF Pct, PctMbb
<1>6. /\ Row(shape, r).shape = shape
      /\ Row(shape, r).pct = [k \in Ks |-> Pct(r, k)]
      /\ Row(shape, r).mbb = IF gate THEN PctMbb(r) ELSE None
    BY DEF Row
<1>7. Row(shape, r) \in Figures
    BY <1>2, <1>3 DEF Row, Figures
<1> QED
    BY <1>2, <1>3, <1>4, <1>5, <1>6, <1>7 DEF RowIsMonotone

GateInv == gate \in BOOLEAN

LEMMA InitSweep == ASSUME Init PROVE SweepInv /\ GateInv
<1>1. rows = <<>> /\ pc = "idle" /\ gate = FALSE
    BY DEF Init
<1>2. rows \in Seq(Figures) /\ DOMAIN rows = {}
    BY <1>1
<1> QED
    BY <1>1, <1>2 DEF SweepInv, GateInv

LEMMA StepSweep == ASSUME SweepInv, GateInv, [Next]_vars PROVE SweepInv' /\ GateInv'
<1>1. ASSUME NEW planes \in PlanesRanges, NEW incs \in InclinationRanges, NEW g \in BOOLEAN,
             Press(planes, incs, g)
      PROVE  SweepInv' /\ GateInv'
    <2>1. /\ rows' = <<>> /\ gate' = g /\ grid' = GridOf(planes, incs) /\ mode' = ModeOf(planes, incs)
          /\ pc' # "idle"
        BY <1>1 DEF Press, SweepInv
    <2>2. IsGrid(grid', planes)
        BY <2>1, GridIs
    <2>3. Len(rows') <= Len(grid')
        BY <2>1, <2>2 DEF IsGrid
    <2>4. rows' \in Seq(Figures) /\ DOMAIN rows' = {}
        BY <2>1
    <2> QED
        BY <2>1, <2>2, <2>3, <2>4 DEF SweepInv, GateInv
<1>2. ASSUME NEW r \in Reports, Evaluate(r)
      PROVE  SweepInv' /\ GateInv'
    <2>1. /\ pc = "sweep" /\ pc' = pc /\ Len(rows) < Len(grid)
          /\ rows' = Append(rows, Row(grid[Len(rows) + 1], r))
          /\ UNCHANGED <<mode, gate, grid>>
        BY <1>2 DEF Evaluate
    <2>2. PICK planes \in PlanesRanges, incs \in InclinationRanges :
             IsGrid(grid, planes) /\ mode = ModeOf(planes, incs)
        BY <2>1 DEF SweepInv
    <2> DEFINE shape == grid[Len(rows) + 1]
               row == Row(shape, r)
    <2>3. rows \in Seq(Figures) /\ Len(rows) \in Nat /\ Len(grid) \in Nat
        BY <2>2 DEF SweepInv, IsGrid
    <2>4. shape \in Shapes
        BY <2>1, <2>2, <2>3 DEF IsGrid
    <2>5. row \in Figures /\ RowIsMonotone(row) /\ row.shape = shape
        BY <2>4, RowOf DEF GateInv
    <2> HIDE DEF row
    <2>6. /\ rows' \in Seq(Figures) /\ Len(rows') = Len(rows) + 1
          /\ \A i \in 1 .. Len(rows) : rows'[i] = rows[i]
          /\ rows'[Len(rows) + 1] = row
        BY <2>1, <2>3, <2>5 DEF row
    <2>7. ASSUME NEW i \in DOMAIN rows'
          PROVE  rows'[i].shape = grid'[i] /\ (RowIsMonotone(rows[i]))'
        <3>1. i \in 1 .. Len(rows) \/ i = Len(rows) + 1
            BY <2>3, <2>6
        <3>2. CASE i \in 1 .. Len(rows)
            <4>1. rows[i].shape = grid[i] /\ RowIsMonotone(rows[i])
                BY <2>3, <3>2 DEF SweepInv
            <4> QED
                BY <2>1, <2>6, <3>2, <4>1 DEF RowIsMonotone
        <3>3. CASE i = Len(rows) + 1
            BY <2>1, <2>5, <2>6, <3>3 DEF RowIsMonotone
        <3> QED
            BY <3>1, <3>2, <3>3
    <2>8. Len(rows') <= Len(grid')
        BY <2>1, <2>3, <2>6
    <2>9. IsGrid(grid', planes) /\ mode' = ModeOf(planes, incs)
        BY <2>1, <2>2
    <2> QED
        BY <2>1, <2>6, <2>7, <2>8, <2>9 DEF SweepInv, GateInv
<1>3. CASE Finish
    BY <1>3 DEF Finish, SweepInv, GateInv, RowIsMonotone
<1>4. CASE UNCHANGED vars
    BY <1>4 DEF vars, SweepInv, GateInv, RowIsMonotone
<1> QED
    BY <1>1, <1>2, <1>3, <1>4 DEF Next, Stop

-----------------------------------------------------------------------------
(***************************************************************************)
(* The smallest size of a set of rows.                                     *)
(***************************************************************************)
\* A nonempty set of naturals has a least element.
LEMMA LeastElement ==
    ASSUME NEW A \in SUBSET Nat, A # {}
    PROVE  \E m \in A : \A k \in A : m <= k
<1>1. PICK m \in A : \A k \in A : <<k, m>> \notin OpToRel(<, Nat)
    BY NatLessThanWellFounded, WFMin
<1>2. \A k \in A : ~(k < m)
    BY <1>1 DEF OpToRel
<1> QED
    BY <1>2

LEMMA SizeOf ==
    ASSUME SweepInv, NEW i \in DOMAIN rows
    PROVE  /\ rows[i] \in Figures /\ RowIsMonotone(rows[i])
           /\ N(rows[i].shape) \in Nat /\ rows[i].shape.planes \in Nat
<1>1. rows[i] \in Figures /\ RowIsMonotone(rows[i])
    BY DEF SweepInv
<1>2. rows[i].shape \in Shapes
    BY <1>1 DEF Figures
<1>3. rows[i].shape.planes \in Nat /\ rows[i].shape.spp \in Nat
    BY <1>2 DEF Shapes
<1> QED
    BY <1>1, <1>3 DEF N

LEMMA Smallest ==
    ASSUME SweepInv, NEW I \in SUBSET DOMAIN rows, I # {}
    PROVE  /\ SmallestN(I) \in Nat
           /\ \A i \in I : SmallestN(I) <= N(rows[i].shape)
<1> DEFINE Sizes == {N(rows[i].shape) : i \in I}
<1>1. Sizes \in SUBSET Nat /\ Sizes # {}
    BY SizeOf
<1>2. \E m \in Sizes : \A s \in Sizes : m <= s
    <2> HIDE DEF Sizes
    <2> QED
        BY <1>1, LeastElement
<1>3. \E m \in Sizes : \A i \in I : m <= N(rows[i].shape)
    BY <1>2
<1>4. SmallestN(I) \in Sizes /\ \A i \in I : SmallestN(I) <= N(rows[i].shape)
    BY <1>3 DEF SmallestN
<1> QED
    BY <1>1, <1>4

\* A larger set of rows has no larger a smallest size.
LEMMA MoreRows ==
    ASSUME SweepInv, NEW K \in SUBSET DOMAIN rows, NEW J \in SUBSET K
    PROVE  NeedsNoMore(SmallestN(K), SmallestN(J))
<1>1. CASE J = {}
    BY <1>1 DEF SmallestN, NeedsNoMore
<1>2. CASE J # {}
    <2>1. /\ SmallestN(K) \in Nat
          /\ \A i \in K : SmallestN(K) <= N(rows[i].shape)
        BY <1>2, Smallest
    <2>2. PICK i \in J : SmallestN(J) = N(rows[i].shape)
        <3> DEFINE Sizes == {N(rows[i].shape) : i \in J}
        <3>1. Sizes \in SUBSET Nat /\ Sizes # {}
            BY <1>2, SizeOf
        <3>2. \E m \in Sizes : \A s \in Sizes : m <= s
            <4> HIDE DEF Sizes
            <4> QED
                BY <3>1, LeastElement
        <3>3. \E m \in Sizes : \A i \in J : m <= N(rows[i].shape)
            BY <3>2
        <3> QED
            BY <1>2, <3>3 DEF SmallestN
    <2>3. SmallestN(K) # None
        BY <2>1, SweepAssumption
    <2> QED
        BY <2>1, <2>2, <2>3 DEF NeedsNoMore
<1> QED
    BY <1>1, <1>2

\* A row that counts for a requirement counts for an easier one.
LEMMA EasierIsMet ==
    ASSUME SweepInv, NEW i \in DOMAIN rows
    PROVE  /\ \A k, l \in Ks : k <= l /\ Meets(i, l) => Meets(i, k)
           /\ 1 \in Ks /\ gate /\ MbbPass(i) => Meets(i, 1)
<1>1. rows[i] \in Figures /\ RowIsMonotone(rows[i])
    BY SizeOf
<1>2. \A k \in Ks : rows[i].pct[k] \in Nat
    BY <1>1 DEF Figures
<1>3. Grade \in Nat
    BY SweepAssumption, FS_CardinalityType
<1> QED
    BY <1>1, <1>2, <1>3 DEF RowIsMonotone, Meets, MbbPass

LEMMA Harder == ASSUME SweepInv PROVE HarderNeedsMore
<1> SUFFICES ASSUME NEW I \in Groups
             PROVE  /\ 1 \in Ks => NeedsNoMore(min_N_by_k(I, 1), min_N_mbb(I))
                    /\ \A k, l \in Ks : k <= l => NeedsNoMore(min_N_by_k(I, k), min_N_by_k(I, l))
    BY DEF HarderNeedsMore
<1>1. I \in SUBSET DOMAIN rows
    BY DEF Groups
<1>2. ASSUME 1 \in Ks
      PROVE  NeedsNoMore(min_N_by_k(I, 1), min_N_mbb(I))
    <2>1. CASE gate
        <3>1. {i \in I : MbbPass(i)} \in SUBSET {i \in I : Meets(i, 1)}
            BY <1>1, <1>2, <2>1, EasierIsMet
        <3>2. {i \in I : Meets(i, 1)} \in SUBSET DOMAIN rows
            BY <1>1
        <3> QED
            BY <2>1, <3>1, <3>2, MoreRows DEF min_N_by_k, min_N_mbb
    <2>2. CASE ~gate
        BY <2>2 DEF min_N_mbb, NeedsNoMore
    <2> QED
        BY <2>1, <2>2
<1>3. ASSUME NEW k \in Ks, NEW l \in Ks, k <= l
      PROVE  NeedsNoMore(min_N_by_k(I, k), min_N_by_k(I, l))
    <2>1. {i \in I : Meets(i, l)} \in SUBSET {i \in I : Meets(i, k)}
        BY <1>1, <1>3, EasierIsMet
    <2>2. {i \in I : Meets(i, k)} \in SUBSET DOMAIN rows
        BY <1>1
    <2> QED
        BY <2>1, <2>2, MoreRows DEF min_N_by_k
<1> QED
    BY <1>2, <1>3

-----------------------------------------------------------------------------
(***************************************************************************)
(* The winner of a 2-D sweep.                                              *)
(***************************************************************************)
\* The shapes of the rows differ in size or in planes.
LEMMA RowsDiffer ==
    ASSUME SweepInv, pc # "idle", mode = "multi_shape",
           NEW i \in DOMAIN rows, NEW j \in DOMAIN rows, i # j
    PROVE  \/ N(rows[i].shape) # N(rows[j].shape)
           \/ rows[i].shape.planes # rows[j].shape.planes
<1>1. PICK planes \in PlanesRanges, incs \in InclinationRanges :
         IsGrid(grid, planes) /\ mode = ModeOf(planes, incs)
    BY DEF SweepInv
<1>2. Len(planes) > 1
    BY <1>1 DEF ModeOf
<1>3. /\ Len(rows) \in Nat /\ Len(grid) \in Nat /\ Len(rows) <= Len(grid)
      /\ DOMAIN rows = 1 .. Len(rows)
    BY <1>1 DEF SweepInv, IsGrid
<1>4. i \in 1 .. Len(grid) /\ j \in 1 .. Len(grid)
    BY <1>3
<1>5. rows[i].shape = grid[i] /\ rows[j].shape = grid[j]
    BY DEF SweepInv
<1> QED
    BY <1>1, <1>2, <1>4, <1>5 DEF IsGrid

\* (N, planes) orders the candidates: one of the winners precedes the others.
LEMMA FirstWinner ==
    ASSUME SweepInv, pc # "idle", mode = "multi_shape", Winners # {}
    PROVE  \E i \in Winners : Pareto = {i}
<1> DEFINE Size(i) == N(rows[i].shape)
           Planes(i) == rows[i].shape.planes
<1>1. \A i \in Winners : i \in DOMAIN rows /\ Size(i) \in Nat /\ Planes(i) \in Nat
    BY SizeOf DEF Winners
<1>2. \A i, j \in Winners : i # j => Size(i) # Size(j) \/ Planes(i) # Planes(j)
    BY <1>1, RowsDiffer
<1>3. \A i, j \in Winners :
        Precedes(rows[i].shape, rows[j].shape)
            <=> (Size(i) < Size(j) \/ (Size(i) = Size(j) /\ Planes(i) < Planes(j)))
    BY DEF Precedes
<1>4. Pareto = {i \in Winners : \A j \in Winners \ {i} : Precedes(rows[i].shape, rows[j].shape)}
    BY DEF Pareto
<1> HIDE DEF Size, Planes
<1>5. PICK a \in Winners : \A j \in Winners : Size(a) <= Size(j)
    <2> DEFINE Sizes == {Size(i) : i \in Winners}
    <2>1. Sizes \in SUBSET Nat /\ Sizes # {}
        BY <1>1
    <2>2. \E m \in Sizes : \A s \in Sizes : m <= s
        <3> HIDE DEF Sizes
        <3> QED
            BY <2>1, LeastElement
    <2> QED
        BY <2>2
<1>6. PICK b \in Winners : /\ Size(b) = Size(a)
                           /\ \A j \in Winners : Size(j) = Size(a) => Planes(b) <= Planes(j)
    <2> DEFINE Counts == {Planes(i) : i \in {j \in Winners : Size(j) = Size(a)}}
    <2>1. Counts \in SUBSET Nat /\ Counts # {}
        BY <1>1, <1>5
    <2>2. \E m \in Counts : \A s \in Counts : m <= s
        <3> HIDE DEF Counts
        <3> QED
            BY <2>1, LeastElement
    <2> QED
        BY <2>2
<1>7. \A j \in Winners \ {b} : Precedes(rows[b].shape, rows[j].shape)
    BY <1>1, <1>2, <1>3, <1>5, <1>6
<1>8. \A i \in Winners \ {b} : ~Precedes(rows[i].shape, rows[b].shape)
    BY <1>1, <1>2, <1>3, <1>5, <1>6
<1>9. Pareto = {b}
    BY <1>4, <1>6, <1>7, <1>8
<1> QED
    BY <1>6, <1>9

LEMMA OneWinner == ASSUME SweepInv, GateInv PROVE OneSmallestWinner
<1> SUFFICES ASSUME pc = "done", mode = "multi_shape" PROVE OneSmallestWinner
    BY DEF OneSmallestWinner
<1> DEFINE feasible == {i \in DOMAIN rows : /\ \A k \in Ks : rows[i].pct[k] >= Grade
                                            /\ gate => rows[i].mbb >= Grade}
<1>1. feasible = Winners
    BY DEF Winners, Passes, Meets, MbbPass
<1>2. Cardinality(Pareto) = IF feasible = {} THEN 0 ELSE 1
    <2>1. CASE Winners = {}
        <3>1. Pareto = {}
            BY <2>1 DEF Pareto
        <3> QED
            BY <1>1, <2>1, <3>1, FS_EmptySet
    <2>2. CASE Winners # {}
        <3>1. PICK i \in Winners : Pareto = {i}
            BY <2>2, FirstWinner
        <3>2. Cardinality({i}) = 1
            BY FS_Singleton
        <3> QED
            BY <1>1, <2>2, <3>1, <3>2
    <2> QED
        BY <2>1, <2>2
<1>3. ASSUME NEW i \in Pareto
      PROVE  /\ i \in feasible
             /\ \A j \in feasible : N(rows[i].shape) <= N(rows[j].shape)
             /\ \A k \in Ks : NeedsNoMore(min_N_by_k(DOMAIN rows, k), N(rows[i].shape))
             /\ gate => NeedsNoMore(min_N_mbb(DOMAIN rows), N(rows[i].shape))
    <2>1. i \in Winners /\ \A j \in Winners \ {i} : Precedes(rows[i].shape, rows[j].shape)
        BY <1>3 DEF Pareto
    <2>2. i \in DOMAIN rows /\ N(rows[i].shape) \in Nat
        BY <2>1, SizeOf DEF Winners
    <2>3. \A j \in Winners : N(rows[j].shape) \in Nat
        BY SizeOf DEF Winners
    <2>4. \A j \in Winners : N(rows[i].shape) <= N(rows[j].shape)
        BY <2>1, <2>2, <2>3 DEF Precedes
    <2>5. ASSUME NEW I \in SUBSET DOMAIN rows, i \in I
          PROVE  NeedsNoMore(SmallestN(I), N(rows[i].shape))
        <3>1. SmallestN(I) \in Nat /\ SmallestN(I) <= N(rows[i].shape)
            BY <2>5, Smallest
        <3> QED
            BY <3>1, SweepAssumption DEF NeedsNoMore
    <2>6. ASSUME NEW k \in Ks
          PROVE  NeedsNoMore(min_N_by_k(DOMAIN rows, k), N(rows[i].shape))
        <3>1. {j \in DOMAIN rows : Meets(j, k)} \in SUBSET DOMAIN rows
            OBVIOUS
        <3>2. i \in {j \in DOMAIN rows : Meets(j, k)}
            BY <2>1, <2>2 DEF Winners, Passes
        <3> QED
            BY <2>5, <3>1, <3>2 DEF min_N_by_k
    <2>7. ASSUME gate
          PROVE  NeedsNoMore(min_N_mbb(DOMAIN rows), N(rows[i].shape))
        <3>1. {j \in DOMAIN rows : MbbPass(j)} \in SUBSET DOMAIN rows
            OBVIOUS
        <3>2. i \in {j \in DOMAIN rows : MbbPass(j)}
            BY <2>1, <2>2, <2>7 DEF Winners, Passes
        <3> QED
            BY <2>5, <2>7, <3>1, <3>2 DEF min_N_mbb
    <2> QED
        BY <1>1, <2>1, <2>4, <2>6, <2>7
<1> HIDE DEF feasible
<1> QED
    BY <1>2, <1>3 DEF OneSmallestWinner, feasible

\* A stronger requirement needs no fewer satellites, for every set of cells,
\* levels, shapes and inclinations and whatever the coverage runs report.
THEOREM HarderCorrect == Spec => []HarderNeedsMore
<1> QED
    BY InitSweep, StepSweep, Harder, PTL DEF Spec

\* A 2-D sweep marks one smallest candidate that meets every requirement, if
\* there is one (MultiShapeResult).
THEOREM WinnerCorrect == Spec => []OneSmallestWinner
<1> QED
    BY InitSweep, StepSweep, OneWinner, PTL DEF Spec

-----------------------------------------------------------------------------
(***************************************************************************)
(* The powers of two.                                                      *)
(***************************************************************************)
\* f has the first m + 1 powers of two.
Powers(f, m) ==
    /\ f \in [0 .. m -> Nat \ {0}]
    /\ \A k \in 0 .. m : f[k] = IF k = 0 THEN 1 ELSE 2 * f[k - 1]

LEMMA PowersThere == ASSUME NEW m \in Nat PROVE \E f : Powers(f, m)
<1> DEFINE Missing == {k \in Nat : ~\E f : Powers(f, k)}
<1>1. ASSUME Missing # {}
      PROVE  FALSE
    <2>1. Missing \in SUBSET Nat
        OBVIOUS
    <2>2. PICK k \in Missing : \A j \in Missing : k <= j
        <3> HIDE DEF Missing
        <3> QED
            BY <1>1, <2>1, LeastElement
    <2>3. CASE k = 0
        <3>1. Powers([j \in 0 .. 0 |-> 1], 0)
            BY DEF Powers
        <3> QED
            BY <2>2, <2>3, <3>1
    <2>4. CASE k # 0
        <3>1. k - 1 \in Nat /\ k \in Nat
            BY <2>2, <2>4
        <3>2. k - 1 \notin Missing
            BY <2>2, <3>1
        <3>3. PICK f : Powers(f, k - 1)
            BY <3>1, <3>2
        <3> DEFINE g == [j \in 0 .. k |-> IF j = k THEN 2 * f[k - 1] ELSE f[j]]
        <3>4. \A j \in 0 .. k - 1 : f[j] \in Nat \ {0} /\ f[j] = IF j = 0 THEN 1 ELSE 2 * f[j - 1]
            BY <3>3 DEF Powers
        <3>5. \A j \in 0 .. k - 1 : g[j] = f[j] /\ j \in 0 .. k
            BY <3>1
        <3>6. g[k] = 2 * f[k - 1] /\ k - 1 \in 0 .. k - 1
            BY <3>1
        <3>7. g \in [0 .. k -> Nat \ {0}]
            <4>1. ASSUME NEW j \in 0 .. k
                  PROVE  (IF j = k THEN 2 * f[k - 1] ELSE f[j]) \in Nat \ {0}
                <5>1. j = k \/ j \in 0 .. k - 1
                    BY <3>1
                <5> QED
                    BY <3>4, <3>6, <5>1
            <4> QED
                BY <4>1
        <3>8. ASSUME NEW j \in 0 .. k
              PROVE  g[j] = IF j = 0 THEN 1 ELSE 2 * g[j - 1]
            <4>1. CASE j = k
                BY <2>4, <3>5, <3>6, <4>1
            <4>2. CASE j # k
                <5>1. j \in 0 .. k - 1 /\ (j # 0 => j - 1 \in 0 .. k - 1)
                    BY <3>1, <4>2
                <5> QED
                    BY <3>4, <3>5, <5>1
            <4> QED
                BY <4>1, <4>2
        <3>9. Powers(g, k)
            BY <3>7, <3>8 DEF Powers
        <3> QED
            BY <2>2, <3>9
    <2> QED
        BY <2>3, <2>4
<1> QED
    BY <1>1

LEMMA PowersOne ==
    ASSUME NEW f, NEW g, NEW m \in Nat, NEW l \in Nat, Powers(f, m), Powers(g, l),
           NEW k \in Nat, k <= m, k <= l
    PROVE  f[k] = g[k]
<1> DEFINE Apart == {j \in Nat : j <= m /\ j <= l /\ f[j] # g[j]}
<1>1. ASSUME Apart # {}
      PROVE  FALSE
    <2>1. Apart \in SUBSET Nat
        OBVIOUS
    <2>2. PICK j \in Apart : \A i \in Apart : j <= i
        <3> HIDE DEF Apart
        <3> QED
            BY <1>1, <2>1, LeastElement
    <2>3. /\ f[j] = IF j = 0 THEN 1 ELSE 2 * f[j - 1]
          /\ g[j] = IF j = 0 THEN 1 ELSE 2 * g[j - 1]
        BY <2>2 DEF Powers
    <2>4. j # 0 => f[j - 1] = g[j - 1]
        BY <2>2
    <2> QED
        BY <2>2, <2>3, <2>4
<1> QED
    BY <1>1

LEMMA Pow2Is ==
    /\ \A k \in Nat : Bisection!Pow2[k] \in Nat \ {0}
    /\ Bisection!Pow2[0] = 1
    /\ \A k \in Nat : Bisection!Pow2[k + 1] = 2 * Bisection!Pow2[k]
<1> DEFINE First(m) == CHOOSE f : Powers(f, m)
           F == [m \in Nat |-> First(m)[m]]
<1>1. \A m \in Nat : Powers(First(m), m)
    BY PowersThere
<1> HIDE DEF First
<1>2. \A m \in Nat : F[m] \in Nat \ {0}
    BY <1>1 DEF Powers
<1>3. F[0] = 1
    BY <1>1 DEF Powers
<1>4. ASSUME NEW k \in Nat
      PROVE  F[k + 1] = 2 * F[k]
    <2>1. Powers(First(k), k) /\ Powers(First(k + 1), k + 1)
        BY <1>1
    <2>2. First(k + 1)[k + 1] = 2 * First(k + 1)[k]
        BY <2>1 DEF Powers
    <2>3. First(k + 1)[k] = First(k)[k]
        BY <2>1, PowersOne
    <2> QED
        BY <2>2, <2>3
<1>5. \A k \in Nat : F[k] = IF k = 0 THEN 1 ELSE 2 * F[k - 1]
    <2> HIDE DEF F
    <2> QED
        BY <1>3, <1>4
<1>6. F = [k \in Nat |-> IF k = 0 THEN 1 ELSE 2 * F[k - 1]]
    <2>1. F = [k \in Nat |-> F[k]]
        OBVIOUS
    <2> HIDE DEF F
    <2> QED
        BY <1>5, <2>1
<1> HIDE DEF F
<1>7. Bisection!Pow2 = [k \in Nat |-> IF k = 0 THEN 1 ELSE 2 * Bisection!Pow2[k - 1]]
    BY <1>6 DEF Bisection!Pow2
<1>8. \A k \in Nat : Bisection!Pow2[k] = IF k = 0 THEN 1 ELSE 2 * Bisection!Pow2[k - 1]
    BY <1>7
<1>9. \A k \in Nat : Bisection!Pow2[k + 1] = 2 * Bisection!Pow2[k]
    BY <1>8
<1>10. \A k \in Nat : Bisection!Pow2[k] = F[k]
    <2> DEFINE Apart == {j \in Nat : Bisection!Pow2[j] # F[j]}
    <2>1. ASSUME Apart # {}
          PROVE  FALSE
        <3>1. Apart \in SUBSET Nat
            OBVIOUS
        <3>2. PICK j \in Apart : \A i \in Apart : j <= i
            <4> HIDE DEF Apart
            <4> QED
                BY <2>1, <3>1, LeastElement
        <3>3. j # 0 => Bisection!Pow2[j - 1] = F[j - 1]
            BY <3>2
        <3> QED
            BY <1>5, <1>8, <3>2, <3>3
    <2> QED
        BY <2>1
<1> QED
    BY <1>2, <1>8, <1>9, <1>10

-----------------------------------------------------------------------------
(***************************************************************************)
(* The bisection.                                                          *)
(***************************************************************************)
\* What the steps need to know of the bracket: it lies within the ticks.
Bracketed ==
    /\ above \in [Bisection!Ticks -> BOOLEAN]
    /\ arg.lo \in Bisection!Ticks /\ arg.hi \in Bisection!Ticks
    /\ lo \in Bisection!Ticks /\ hi \in Bisection!Ticks
    /\ lo <= hi
    /\ bisection \in {"check", "loop", "raised", "done"}

BracketInv == Bracketed /\ SignChangeIsKept

\* The midpoint of a bracket lies in the bracket (0.5 * (lo_s + hi_s)).
LEMMA MidIsBetween ==
    ASSUME Bisection!RefineAssumption, lo \in Bisection!Ticks, hi \in Bisection!Ticks, lo <= hi
    PROVE  Bisection!Mid \in Bisection!Ticks /\ lo <= Bisection!Mid /\ Bisection!Mid <= hi
<1>1. lo \in Int /\ hi \in Int /\ 0 <= lo /\ hi <= Horizon /\ Horizon \in Int
    BY DEF Bisection!RefineAssumption, Bisection!Ticks
<1>2. Bisection!Mid \in Int /\ 2 * Bisection!Mid <= lo + hi /\ lo + hi <= 2 * Bisection!Mid + 1
    BY <1>1 DEF Bisection!Mid
<1> QED
    BY <1>1, <1>2 DEF Bisection!Ticks

LEMMA InitBracketed == ASSUME Bisection!RefineAssumption, Bisection!Init PROVE BracketInv
<1>1. above \in [Bisection!Ticks -> BOOLEAN]
    BY DEF Bisection!RefineAssumption, Bisection!Init
<1>2. arg.lo \in Bisection!Ticks /\ arg.hi \in Bisection!Ticks /\ arg.lo < arg.hi
    BY DEF Bisection!RefineAssumption, Bisection!Init
<1>3. arg.lo \in Int /\ arg.hi \in Int
    BY <1>2 DEF Bisection!RefineAssumption, Bisection!Ticks
<1> QED
    BY <1>1, <1>2, <1>3 DEF Bisection!Init, BracketInv, Bracketed, SignChangeIsKept, Bisection!SignChangeIsKept

LEMMA StepBracketed ==
    ASSUME Bisection!RefineAssumption, BracketInv, [Bisection!Next]_(Bisection!vars) PROVE BracketInv'
<1> USE DEF BracketInv, Bracketed, SignChangeIsKept, Bisection!SignChangeIsKept
<1>1. CASE Bisection!Check
    <2>1. UNCHANGED <<above, arg, lo, hi>>
        BY <1>1 DEF Bisection!Check
    <2>2. CASE above[lo] = above[hi]
        BY <1>1, <2>1, <2>2 DEF Bisection!Check
    <2>3. CASE above[lo] # above[hi]
        BY <1>1, <2>1, <2>3 DEF Bisection!Check
    <2> QED
        BY <2>2, <2>3
<1>2. CASE Bisection!Halve
    <2>1. Bisection!Mid \in Bisection!Ticks /\ lo <= Bisection!Mid /\ Bisection!Mid <= hi
        BY MidIsBetween
    <2>2. UNCHANGED <<above, arg, bisection>> /\ bisection = "loop"
        BY <1>2 DEF Bisection!Halve
    <2>3. lo \in Int /\ hi \in Int /\ Bisection!Mid \in Int /\ arg.lo \in Int /\ arg.hi \in Int
        BY <2>1 DEF Bisection!RefineAssumption, Bisection!Ticks
    <2>4. CASE above[Bisection!Mid] = above[lo]
        <3>1. lo' = Bisection!Mid /\ hi' = hi
            BY <1>2, <2>4 DEF Bisection!Halve
        <3> QED
            BY <2>1, <2>2, <2>3, <2>4, <3>1
    <2>5. CASE above[Bisection!Mid] # above[lo]
        <3>1. hi' = Bisection!Mid /\ lo' = lo
            BY <1>2, <2>5 DEF Bisection!Halve
        <3> QED
            BY <2>1, <2>2, <2>3, <2>5, <3>1
    <2> QED
        BY <2>4, <2>5
<1>3. CASE Bisection!Return
    BY <1>3 DEF Bisection!Return
<1>4. CASE UNCHANGED Bisection!vars
    BY <1>4 DEF Bisection!vars
<1> QED
    BY <1>1, <1>2, <1>3, <1>4 DEF Bisection!Next, Bisection!Stop, Bisection!vars

\* The ends of the bracket keep different signs and the bracket only shrinks
\* (refine_crossing_s), for every elevation, bracket and tolerance.
THEOREM BracketIsKept ==
    ASSUME Bisection!RefineAssumption PROVE Bisection!Spec => []SignChangeIsKept
<1>1. Bisection!Init => BracketInv
    BY InitBracketed
<1>2. BracketInv /\ [Bisection!Next]_(Bisection!vars) => BracketInv'
    BY StepBracketed
<1>3. BracketInv => SignChangeIsKept
    BY DEF BracketInv
<1> QED
    BY <1>1, <1>2, <1>3, PTL DEF Bisection!Spec

\* Enough halvings are made: the bracket is at most 2 ^ iterations tolerances wide.
LEMMA EnoughHalvings ==
    ASSUME NEW step \in Nat \ {0}, NEW tol \in Nat \ {0}
    PROVE  /\ Bisection!n_bisect_iters(step, tol) \in Nat
           /\ step <= Bisection!Pow2[Bisection!n_bisect_iters(step, tol)] * tol
<1> DEFINE P(k) == Bisection!Pow2[k]
           w == Bisection!Wider(step, tol)
           Wide == {k \in 1 .. w : P(k) * tol >= w}
<1>1. w \in Nat \ {0} /\ step <= w
    BY DEF Bisection!Wider
<1>2. /\ \A k \in Nat : P(k) \in Nat \ {0} /\ P(k + 1) = 2 * P(k)
      /\ P(0) = 1
    BY Pow2Is
<1> HIDE DEF P, w
<1>3. \A k \in Nat : k <= P(k)
    <2> DEFINE Below == {k \in Nat : ~(k <= P(k))}
    <2>1. ASSUME Below # {}
          PROVE  FALSE
        <3>1. Below \in SUBSET Nat
            OBVIOUS
        <3>2. PICK k \in Below : \A j \in Below : k <= j
            <4> HIDE DEF Below
            <4> QED
                BY <2>1, <3>1, LeastElement
        <3>3. k # 0
            BY <1>2, <3>2
        <3>4. k - 1 \in Nat /\ k - 1 <= P(k - 1) /\ P(k) = 2 * P(k - 1) /\ P(k - 1) \in Nat \ {0}
            <4>1. k - 1 \in Nat /\ k = (k - 1) + 1
                BY <3>2, <3>3
            <4>2. k - 1 <= P(k - 1)
                BY <3>2, <4>1
            <4> QED
                BY <1>2, <4>1, <4>2
        <3> QED
            BY <3>2, <3>4
    <2> QED
        BY <2>1
<1>4. Wide \in SUBSET Nat /\ w \in Wide
    <2>1. w <= P(w) /\ P(w) \in Nat
        BY <1>1, <1>2, <1>3
    <2>2. \E d \in Nat : tol = 1 + d
        <3>1. tol - 1 \in Nat /\ tol = 1 + (tol - 1)
            OBVIOUS
        <3> QED
            BY <3>1
    <2>3. PICK d \in Nat : tol = 1 + d
        BY <2>2
    <2>4. P(w) * tol = P(w) + P(w) * d /\ P(w) * d \in Nat
        BY <2>1, <2>3
    <2>5. P(w) * tol >= w
        BY <1>1, <2>1, <2>4
    <2> QED
        BY <1>1, <2>5
<1>5. PICK k \in Wide : \A j \in Wide : k <= j
    <2> HIDE DEF Wide
    <2> QED
        BY <1>4, LeastElement
<1>6. \A j \in 1 .. k - 1 : P(j) * tol < w
    <2>1. ASSUME NEW j \in 1 .. k - 1
          PROVE  P(j) * tol < w
        <3>1. j \in 1 .. w /\ j \notin Wide /\ j \in Nat
            BY <1>1, <1>5
        <3>2. P(j) * tol \in Nat
            BY <1>2, <3>1
        <3> QED
            BY <1>1, <3>1, <3>2
    <2> QED
        BY <2>1
<1>7. Bisection!n_bisect_iters(step, tol) =
        CHOOSE i \in 1 .. w : P(i) * tol >= w /\ \A j \in 1 .. i - 1 : P(j) * tol < w
    BY DEF Bisection!n_bisect_iters, P, w
<1>8. \E i \in 1 .. w : P(i) * tol >= w /\ \A j \in 1 .. i - 1 : P(j) * tol < w
    BY <1>5, <1>6
<1> DEFINE n == Bisection!n_bisect_iters(step, tol)
<1>9. n \in 1 .. w /\ P(n) * tol >= w
    <2> HIDE DEF n, Wide
    <2>1. n = CHOOSE i \in 1 .. w : P(i) * tol >= w /\ \A j \in 1 .. i - 1 : P(j) * tol < w
        BY <1>7 DEF n
    <2> QED
        BY <1>8, <2>1
<1>10. n \in Nat /\ P(n) \in Nat
    BY <1>1, <1>2, <1>9
<1>11. P(n) * tol \in Nat
    BY <1>10
<1> HIDE DEF n
<1>12. step <= P(n) * tol
    BY <1>1, <1>9, <1>11
<1> QED
    BY <1>10, <1>12 DEF n, P

-----------------------------------------------------------------------------
(***************************************************************************)
(* The width of the bracket: w tolerances' halves for every halving left.  *)
(***************************************************************************)
WidthInv ==
    /\ arg \in Brackets
    /\ bisection = "check" => lo = arg.lo /\ hi = arg.hi
    /\ bisection = "loop" =>
          /\ left \in Nat
          /\ \E w \in Nat : hi - lo = w * Bisection!Pow2[left + 1] /\ 2 * w <= arg.tol
    /\ bisection = "done" =>
          \E w \in Nat : hi - lo = 2 * w /\ 2 * w <= arg.tol

LEMMA InitWidth == ASSUME Bisection!Init PROVE WidthInv
    BY DEF Bisection!Init, WidthInv

LEMMA StepWidth ==
    ASSUME Bisection!RefineAssumption, BracketInv, WidthInv, [Bisection!Next]_(Bisection!vars)
    PROVE  WidthInv'
<1>1. arg \in Brackets /\ arg.lo \in Int /\ arg.hi \in Int /\ arg.lo < arg.hi /\ arg.tol \in Nat \ {0}
    BY DEF WidthInv, Bisection!RefineAssumption, Bisection!Ticks
<1>2. lo \in Int /\ hi \in Int /\ lo <= hi
    BY DEF BracketInv, Bracketed, Bisection!RefineAssumption, Bisection!Ticks
<1>3. /\ \A k \in Nat : Bisection!Pow2[k] \in Nat \ {0} /\ Bisection!Pow2[k + 1] = 2 * Bisection!Pow2[k]
      /\ Bisection!Pow2[0] = 1
    BY Pow2Is
<1>4. CASE Bisection!Check
    <2>1. bisection = "check" /\ lo = arg.lo /\ hi = arg.hi /\ UNCHANGED <<arg, lo, hi>>
        BY <1>4 DEF Bisection!Check, WidthInv
    <2>2. CASE bisection' = "raised"
        BY <1>1, <2>1, <2>2 DEF WidthInv
    <2>3. CASE bisection' # "raised"
        <3> DEFINE n == Bisection!n_bisect_iters(hi - lo, arg.tol)
        <3>1. bisection' = "loop" /\ left' = n
            BY <1>4, <2>3 DEF Bisection!Check
        <3>2. hi - lo \in Nat \ {0}
            BY <1>1, <2>1
        <3>3. n \in Nat /\ hi - lo <= Bisection!Pow2[n] * arg.tol
            BY <1>1, <3>2, EnoughHalvings
        <3>4. PICK w \in Bisection!Ticks : hi - lo = w * Bisection!Pow2[n + 1]
            BY <1>1, <2>1 DEF Bisection!RefineAssumption, Bisection!Halvable
        <3>5. w \in Nat
            BY DEF Bisection!Ticks, Bisection!RefineAssumption
        <3> HIDE DEF n
        <3> DEFINE p == Bisection!Pow2[n]
        <3>6. p \in Nat \ {0} /\ Bisection!Pow2[n + 1] = 2 * p
            BY <1>3, <3>3
        <3> HIDE DEF p
        <3>7. hi - lo = (2 * w) * p /\ hi - lo <= p * arg.tol
            BY <3>3, <3>4, <3>5, <3>6 DEF p
        <3>8. 2 * w <= arg.tol
            <4>1. CASE arg.tol < 2 * w
                <5>1. PICK d \in Nat : 2 * w = arg.tol + 1 + d
                    <6>1. 2 * w - arg.tol - 1 \in Nat /\ 2 * w = arg.tol + 1 + (2 * w - arg.tol - 1)
                        BY <1>1, <3>5, <4>1
                    <6> QED
                        BY <6>1
                <5>2. (2 * w) * p = p * arg.tol + p + p * d /\ p * d \in Nat /\ p * arg.tol \in Nat
                    BY <1>1, <3>6, <5>1
                <5> QED
                    BY <1>2, <3>6, <3>7, <5>2
            <4> QED
                BY <1>1, <3>5, <4>1
        <3> QED
            BY <1>1, <2>1, <3>1, <3>3, <3>4, <3>5, <3>8 DEF WidthInv
    <2> QED
        BY <2>2, <2>3
<1>5. CASE Bisection!Halve
    <2>1. /\ bisection = "loop" /\ left > 0 /\ left' = left - 1 /\ UNCHANGED <<arg, bisection>>
          /\ \/ lo' = Bisection!Mid /\ hi' = hi
             \/ hi' = Bisection!Mid /\ lo' = lo
        BY <1>5 DEF Bisection!Halve
    <2>2. PICK w \in Nat : hi - lo = w * Bisection!Pow2[left + 1] /\ 2 * w <= arg.tol
        BY <2>1 DEF WidthInv
    <2>3. left \in Nat /\ left - 1 \in Nat /\ left = (left - 1) + 1
        BY <2>1 DEF WidthInv
    <2> DEFINE p == Bisection!Pow2[left]
    <2>4. p \in Nat /\ Bisection!Pow2[left + 1] = 2 * p
        BY <1>3, <2>3
    <2> HIDE DEF p
    <2>5. w * p \in Nat /\ hi - lo = 2 * (w * p)
        BY <2>2, <2>4
    <2> DEFINE h == w * p
    <2>6. Bisection!Mid = lo + h
        <3> HIDE DEF h
        <3>1. h \in Nat /\ hi - lo = 2 * h
            BY <2>5 DEF h
        <3>2. lo + hi = 2 * (lo + h)
            BY <1>2, <3>1
        <3> QED
            BY <1>2, <3>1, <3>2 DEF Bisection!Mid
    <2>7. hi' - lo' = w * p
        <3> HIDE DEF h
        <3>1. h \in Nat /\ hi = lo + 2 * h
            BY <1>2, <2>5 DEF h
        <3>2. hi' - lo' = h
            BY <1>2, <2>1, <2>6, <3>1
        <3> QED
            BY <3>2 DEF h
    <2>8. hi' - lo' = w * Bisection!Pow2[left' + 1]
        BY <2>1, <2>3, <2>7 DEF p
    <2> QED
        BY <1>1, <2>1, <2>2, <2>3, <2>8 DEF WidthInv
<1>6. CASE Bisection!Return
    <2>1. bisection = "loop" /\ left = 0 /\ bisection' = "done" /\ UNCHANGED <<arg, lo, hi>>
        BY <1>6 DEF Bisection!Return
    <2>2. PICK w \in Nat : hi - lo = w * Bisection!Pow2[left + 1] /\ 2 * w <= arg.tol
        BY <2>1 DEF WidthInv
    <2>3. Bisection!Pow2[left + 1] = 2
        BY <1>3, <2>1
    <2>4. hi - lo = 2 * w
        BY <2>2, <2>3
    <2> QED
        BY <1>1, <2>1, <2>2, <2>4 DEF WidthInv
<1>7. CASE UNCHANGED Bisection!vars
    BY <1>7 DEF WidthInv, Bisection!vars
<1> QED
    BY <1>4, <1>5, <1>6, <1>7 DEF Bisection!Next, Bisection!Stop

LEMMA WidthFinds ==
    ASSUME Bisection!RefineAssumption, BracketInv, WidthInv
    PROVE  FoundWithinTolerance
<1> SUFFICES ASSUME bisection = "done"
             PROVE  \E t \in Bisection!Ticks :
                        /\ t + 1 \in Bisection!Ticks /\ above[t] # above[t + 1]
                        /\ 2 * (Bisection!Mid - t) <= arg.tol
                        /\ 2 * (t + 1 - Bisection!Mid) <= arg.tol
    BY DEF FoundWithinTolerance, Bisection!FoundWithinTolerance
<1>1. /\ lo \in Nat /\ hi \in Nat /\ 0 <= lo /\ lo <= hi /\ hi <= Horizon /\ Horizon \in Nat
      /\ above[lo] # above[hi]
    BY DEF BracketInv, Bracketed, SignChangeIsKept, Bisection!SignChangeIsKept,
           Bisection!RefineAssumption, Bisection!Ticks
<1>2. PICK w \in Nat : hi - lo = 2 * w /\ 2 * w <= arg.tol
    BY DEF WidthInv
<1>3. arg.tol \in Nat
    BY DEF WidthInv, Bisection!RefineAssumption
<1>4. Bisection!Mid = lo + w
    <2>1. lo + hi = 2 * (lo + w)
        BY <1>1, <1>2
    <2> QED
        BY <1>1, <2>1 DEF Bisection!Mid
<1> DEFINE Changed == {s \in lo .. hi : above[s] # above[lo]}
<1>5. Changed \in SUBSET Nat /\ hi \in Changed
    BY <1>1
<1>6. PICK s \in Changed : \A r \in Changed : s <= r
    <2> HIDE DEF Changed
    <2> QED
        BY <1>5, LeastElement
<1>7. s \in Nat /\ s \in lo .. hi /\ s # lo /\ above[s] # above[lo]
    BY <1>1, <1>6
<1>8. s - 1 \in lo .. hi /\ s - 1 \notin Changed
    BY <1>1, <1>6, <1>7
<1>9. above[s - 1] = above[lo]
    BY <1>8
<1>10. s - 1 \in Bisection!Ticks /\ (s - 1) + 1 = s /\ s \in Bisection!Ticks
    BY <1>1, <1>7, <1>8 DEF Bisection!Ticks
<1>11. 2 * (Bisection!Mid - (s - 1)) <= arg.tol /\ 2 * (s - Bisection!Mid) <= arg.tol
    BY <1>1, <1>2, <1>3, <1>4, <1>7, <1>8
<1> DEFINE t == s - 1
<1>12. t \in Bisection!Ticks /\ t + 1 = s /\ above[t] = above[lo]
    BY <1>9, <1>10
<1>13. 2 * (Bisection!Mid - t) <= arg.tol /\ 2 * (t + 1 - Bisection!Mid) <= arg.tol
    <2>1. 2 * (Bisection!Mid - t) <= arg.tol
        BY <1>11
    <2>2. t + 1 = s /\ t \in Int /\ s \in Int
        BY <1>7, <1>12
    <2> HIDE DEF t
    <2> QED
        BY <1>1, <1>2, <1>3, <1>4, <1>11, <2>1, <2>2
<1> HIDE DEF t
<1>14. t + 1 \in Bisection!Ticks /\ above[t] # above[t + 1]
    BY <1>7, <1>10, <1>12
<1> QED
    BY <1>12, <1>13, <1>14

\* The bisection ends within half the tolerance of a crossing, for every
\* elevation, and every bracket and tolerance whose midpoints are instants.
THEOREM CrossingIsFound ==
    ASSUME Bisection!RefineAssumption PROVE Bisection!Spec => []FoundWithinTolerance
<1>1. Bisection!Init => BracketInv /\ WidthInv
    BY InitBracketed, InitWidth
<1>2. BracketInv /\ WidthInv /\ [Bisection!Next]_(Bisection!vars) => BracketInv' /\ WidthInv'
    BY StepBracketed, StepWidth
<1>3. BracketInv /\ WidthInv => FoundWithinTolerance
    BY WidthFinds
<1> QED
    BY <1>1, <1>2, <1>3, PTL DEF Bisection!Spec
=============================================================================
