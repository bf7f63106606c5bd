-------------------------- MODULE ContinuityProofs --------------------------
(***************************************************************************)
(* Proofs about Continuity, for every window length, number of satellites, *)
(* visibility matrix, plane assignment and requirement.                    *)
(***************************************************************************)
EXTENDS MCContinuity, FiniteSetTheorems, TLAPS

-----------------------------------------------------------------------------
(***************************************************************************)
(* Least and greatest elements.  The well-founded order used is strict     *)
(* inclusion of finite subsets, which needs no operator parameter.         *)
(***************************************************************************)

\* A nonempty set of naturals has a least element.
LEMMA LeastElement ==
    ASSUME NEW A \in SUBSET Nat, A # {}
    PROVE  \E m \in A : \A k \in A : m <= k
<1> DEFINE Segments == {0 .. n : n \in A}
<1>1. Segments \subseteq FiniteSubsetsOf(Nat)
  <2>1. ASSUME NEW n \in A
        PROVE  0 .. n \in SUBSET Nat /\ IsFiniteSet(0 .. n)
    <3>1. n \in Int
      OBVIOUS
    <3>2. IsFiniteSet(0 .. n)
      BY <3>1, FS_Interval
    <3> QED BY <3>2
  <2> QED BY <2>1 DEF FiniteSubsetsOf
<1>2. Segments # {}
  OBVIOUS
<1>3. IsWellFoundedOn(StrictSubsetOrdering(Nat), FiniteSubsetsOf(Nat))
  BY FS_StrictSubsetOrderingWellFounded
<1>4. PICK x \in Segments :
        \A y \in Segments : <<y, x>> \notin StrictSubsetOrdering(Nat)
  <2> HIDE DEF Segments
  <2> QED BY <1>1, <1>2, <1>3, WFMin
<1>5. PICK m \in A : x = 0 .. m
  OBVIOUS
<1>6. ASSUME NEW k \in A, ~(m <= k)
      PROVE  FALSE
  <2>1. k \in Nat /\ m \in Nat /\ k < m
    BY <1>6
  <2>2. 0 .. k \subseteq 0 .. m /\ m \in 0 .. m /\ m \notin 0 .. k
    BY <2>1
  <2>3. <<0 .. k, 0 .. m>> \in StrictSubsetOrdering(Nat)
    <3>1. 0 .. k \subseteq Nat /\ 0 .. m \subseteq Nat
      BY <2>1
    <3>2. 0 .. k # 0 .. m
      BY <2>2
    <3> QED BY <2>2, <3>1, <3>2 DEF StrictSubsetOrdering
  <2> QED BY <1>4, <1>5, <2>3
<1> QED BY <1>6

\* A nonempty set of naturals with an upper bound has a greatest element.
LEMMA GreatestElement ==
    ASSUME NEW A \in SUBSET Nat, A # {}, NEW b \in Nat, \A k \in A : k <= b
    PROVE  \E m \in A : \A k \in A : k <= m
<1> DEFINE D == {b - k : k \in A}
<1>1. D \in SUBSET Nat /\ D # {}
  <2>1. \A k \in A : b - k \in Nat
    OBVIOUS
  <2> QED BY <2>1
<1>2. PICK d \in D : \A e \in D : d <= e
  <2> HIDE DEF D
  <2> QED BY <1>1, LeastElement
<1>3. PICK m \in A : d = b - m
  OBVIOUS
<1>4. \A k \in A : b - m <= b - k
  BY <1>2, <1>3
<1> QED BY <1>4

-----------------------------------------------------------------------------
(***************************************************************************)
(* Facts about the operators.                                              *)
(***************************************************************************)

\* The worst gap is a natural number: CHOOSE has a greatest gap to choose.
LEMMA WorstGapType ==
    ASSUME NEW is \in SUBSET Interval
    PROVE  merged_worst_gap_steps(is) \in Nat
<1> USE IntervalsAssumption
<1>1. CASE Times \subseteq Covered(is)
  BY <1>1 DEF merged_worst_gap_steps
<1>2. CASE ~(Times \subseteq Covered(is))
  <2> DEFINE G == GapLengths(is)
  <2>1. G \in SUBSET Nat /\ \A n \in G : n <= NTime
    BY DEF GapLengths
  <2>2. PICK t \in Times : t \notin Covered(is)
    BY <1>2
  <2>3. t .. t + 1 - 1 \subseteq Times \ Covered(is) /\ 1 \in 1 .. NTime
    BY <2>2 DEF Times
  <2>4. 1 \in G
    BY <2>3 DEF GapLengths
  <2>5. PICK m \in G : \A k \in G : k <= m
    <3> HIDE DEF G
    <3> QED BY <2>1, <2>4, GreatestElement
  <2> QED BY <1>2, <2>1, <2>5 DEF merged_worst_gap_steps
<1> QED BY <1>1, <1>2

\* An overlap the code accepts is at least one sample and at most the window.
LEMMA HandoverOverlap ==
    ASSUME NEW i \in Interval, NEW j \in Interval,
           req \in Requirement, Handover(i, j)
    PROVE  /\ Overlap(i, j) \in 1 .. NTime
           /\ j.st <= i.en
<1> USE IntervalsAssumption
<1>1. /\ i.st \in Nat /\ i.en \in Nat /\ i.en <= NTime - 1
      /\ j.st \in Nat /\ j.en \in Nat /\ j.en <= NTime - 1
      /\ i.st \in Int /\ j.st \in Int
  BY DEF Interval, Times
<1>2. req.min_overlap_steps \in Int
  BY DEF Requirement
<1>3. Threshold \in Int /\ Threshold >= 1
  BY <1>2 DEF Threshold, ThresholdOf, Most
<1>4. Overlap(i, j) >= Threshold
  BY DEF Handover, MayHandOver, Threshold
<1>5. /\ Overlap(i, j) \in Int
      /\ Overlap(i, j) <= i.en - j.st + 1
      /\ Overlap(i, j) <= NTime
  BY <1>1 DEF Overlap, Least, Most
<1> QED BY <1>1, <1>3, <1>4, <1>5

\* Within a run every sample is in view: no fall lies inside it.
LEMMA IntervalInView ==
    ASSUME NEW i \in intervals_from_inview(inview), inview \in [Sats -> SUBSET Times]
    PROVE  /\ i \in Interval /\ i.st <= i.en
           /\ \A t \in i.st .. i.en : t \in inview[i.sat]
<1> USE IntervalsAssumption
<1>1. /\ i \in Interval /\ i.st <= i.en
      /\ i.st \in Rises(inview[i.sat]) /\ i.en \in Falls(inview[i.sat])
      /\ \A e \in Falls(inview[i.sat]) : i.st <= e => i.en <= e
  BY DEF intervals_from_inview
<1>2. i.st \in Nat /\ i.en \in Nat /\ i.en <= NTime - 1
  BY <1>1 DEF Interval, Times
<1>3. ASSUME NEW u \in i.st .. i.en, u \notin inview[i.sat]
      PROVE  FALSE
  <2> DEFINE A == {t \in i.st .. i.en : t \notin inview[i.sat]}
  <2>1. A \in SUBSET Nat /\ A # {}
    BY <1>2, <1>3
  <2>2. PICK m \in A : \A k \in A : m <= k
    <3> HIDE DEF A
    <3> QED BY <2>1, LeastElement
  <2>3. m # i.st
    BY <1>1 DEF Rises
  <2>4. m - 1 \in i.st .. i.en /\ m - 1 \notin A
    BY <1>2, <2>2, <2>3
  <2>5. m - 1 \in inview[i.sat] /\ (m - 1) + 1 \notin inview[i.sat]
    BY <1>2, <2>4
  <2>6. m - 1 \in Falls(inview[i.sat])
    BY <1>2, <2>4, <2>5 DEF Falls, Times
  <2>7. i.st <= m - 1 /\ m - 1 < i.en
    BY <1>2, <2>4
  <2> QED BY <1>1, <1>2, <2>6, <2>7
<1> QED BY <1>1, <1>3

-----------------------------------------------------------------------------
(***************************************************************************)
(* Type correctness.                                                       *)
(***************************************************************************)

\* Candidates and bottlenecks stay within 1 .. INF while intervals relax.
LEMMA CandType ==
    ASSUME TypeOK, pc = "relax", NEW i \in ivs, NEW j \in ivs, Improves(i, j)
    PROVE  Cand(i, j) \in 1 .. NTime /\ Cand(i, j) <= best[i] /\ Cand(i, j) <= Overlap(i, j)
<1> USE IntervalsAssumption
<1>1. i \in Interval /\ j \in Interval /\ req \in Requirement
  BY DEF TypeOK
<1>2. Handover(i, j) /\ best[i] # NoPath
  BY DEF Improves
<1>3. Overlap(i, j) \in 1 .. NTime
  BY <1>1, <1>2, HandoverOverlap
<1>4. best[i] \in 0 .. INF
  BY DEF TypeOK
<1> QED BY <1>2, <1>3, <1>4 DEF Cand, Least, NoPath, INF

\* Every variable keeps its type.
THEOREM TypeCorrect == Spec => []TypeOK
<1> USE IntervalsAssumption
<1>1. Init => TypeOK
  BY ContinuityAssumption DEF Init, TypeOK, InfeasibleVerdict, Verdict, NA
<1>2. TypeOK /\ [Next]_vars => TypeOK'
  <2> SUFFICES ASSUME TypeOK, [Next]_vars
               PROVE  TypeOK'
    OBVIOUS
  <2>1. CASE Extract
    <3>1. ivs' \subseteq Interval /\ todo' \subseteq ivs'
      BY <2>1 DEF Extract, intervals_from_inview
    <3>2. best' \in [ivs' -> 0 .. INF] /\ hops' \in [ivs' -> Nat]
      BY <2>1 DEF Extract, INF, NoPath
    <3>3. pc' \in {"extract", "relax", "done"} /\ result' \in Verdict
      <4>1. InfeasibleVerdict(NTime) \in Verdict
        BY DEF InfeasibleVerdict, Verdict, NA
      <4>2. result \in Verdict
        BY DEF TypeOK
      <4> QED BY <2>1, <4>1, <4>2 DEF Extract
    <3> QED BY <2>1, <3>1, <3>2, <3>3 DEF Extract, TypeOK, inputs
  <2>2. ASSUME NEW i \in ivs, Relax(i)
        PROVE  TypeOK'
    <3>1. pc = "relax" /\ ivs' = ivs /\ best \in [ivs -> 0 .. INF] /\ hops \in [ivs -> Nat]
      BY <2>2 DEF Relax, TypeOK
    <3>2. best' \in [ivs -> 0 .. INF]
      <4>1. \A j \in ivs : Improves(i, j) => Cand(i, j) \in 0 .. INF
        BY <3>1, CandType DEF INF
      <4> QED BY <2>2, <3>1, <4>1 DEF Relax
    <3>3. hops' \in [ivs -> Nat]
      BY <2>2, <3>1 DEF Relax
    <3> QED BY <2>2, <3>1, <3>2, <3>3 DEF Relax, TypeOK, inputs
  <2>3. CASE Infeasible
    <3>1. merged_worst_gap_steps(ivs) \in Nat
      BY WorstGapType DEF TypeOK
    <3>2. result' \in Verdict
      BY <2>3, <3>1 DEF Infeasible, InfeasibleVerdict, Verdict, NA
    <3> QED BY <2>3, <3>2 DEF Infeasible, TypeOK, inputs
  <2>4. ASSUME NEW g \in ivs, Feasible(g)
        PROVE  TypeOK'
    <3>1. best[g] \in 1 .. INF /\ hops[g] \in Nat
      BY <2>4 DEF Feasible, IsBestGoal, Goals, TypeOK, NoPath, INF
    <3>2. (IF best[g] >= INF THEN NA ELSE best[g]) \in {NA} \cup 1 .. NTime
      BY <3>1 DEF INF
    <3>3. result' \in Verdict
      BY <2>4, <3>1, <3>2 DEF Feasible, FeasibleVerdict, Verdict
    <3> QED BY <2>4, <3>3 DEF Feasible, TypeOK, inputs
  <2>5. CASE UNCHANGED vars
    BY <2>5 DEF TypeOK, vars
  <2> QED BY <2>1, <2>2, <2>3, <2>4, <2>5 DEF Next
<1> QED BY <1>1, <1>2, PTL DEF Spec

-----------------------------------------------------------------------------
(***************************************************************************)
(* The inductive invariant.                                                *)
(***************************************************************************)

\* A path to i followed by a handover to j is a path to j.
LEMMA ExtendPath ==
    ASSUME TypeOK, NEW i \in ivs, NEW j \in ivs, Handover(i, j),
           NEW P \in SUBSET ivs, IsPathTo(P, i), IsFiniteSet(P)
    PROVE  LET Q == P \cup {j}
           IN  /\ Q \in SUBSET ivs /\ IsPathTo(Q, j)
               /\ IsFiniteSet(Q) /\ Cardinality(Q) = Cardinality(P) + 1
               /\ \A k, l \in Q : Adjacent(Q, k, l) =>
                     (k = i /\ l = j) \/ (k \in P /\ l \in P /\ Adjacent(P, k, l))
<1> DEFINE Q == P \cup {j}
<1>1. /\ \A k \in ivs : k.en \in Nat
      /\ i.en < j.en /\ \A k \in P : k.en <= i.en
      /\ i \in P /\ P \subseteq ivs
      /\ \A k, l \in P : k.en = l.en => k = l
  BY DEF TypeOK, Interval, Times, Handover, MayHandOver, IsPathTo
<1>2. j \notin P
  BY <1>1
<1>3. IsFiniteSet(Q) /\ Cardinality(Q) = Cardinality(P) + 1
  BY <1>2, FS_AddElement
<1>4. ASSUME NEW k \in Q, NEW l \in Q, Adjacent(Q, k, l)
      PROVE  (k = i /\ l = j) \/ (k \in P /\ l \in P /\ Adjacent(P, k, l))
  <2>1. /\ k.en < l.en
        /\ \A x \in Q : x.en <= k.en \/ x.en >= l.en
    BY <1>4 DEF Adjacent
  <2>2. k \in P
    BY <1>1, <2>1
  <2>3. CASE l = j
    <3>1. i.en <= k.en
      BY <1>1, <2>1, <2>3
    <3>2. k = i
      BY <1>1, <2>2, <3>1
    <3> QED BY <2>3, <3>2
  <2>4. CASE l # j
    BY <2>1, <2>2, <2>4 DEF Adjacent
  <2> QED BY <2>3, <2>4
<1>5. IsPathTo(Q, j)
  <2>1. Q \subseteq ivs /\ j \in Q
    BY <1>1
  <2>2. \A k, l \in Q : k.en = l.en => k = l
    BY <1>1
  <2>3. \A k \in Q : k.en <= j.en
    BY <1>1
  <2>4. \A k \in Q : k.st <= 0 \/ \E h \in Q : h.en < k.en
    BY <1>1 DEF IsPathTo
  <2>5. \A k, l \in Q : Adjacent(Q, k, l) => Handover(k, l)
    BY <1>4 DEF IsPathTo
  <2> QED BY <2>1, <2>2, <2>3, <2>4, <2>5 DEF IsPathTo
<1> QED BY <1>1, <1>3, <1>4, <1>5

\* Relaxing i leaves every visited entry alone and lowers no entry.
LEMMA RelaxEffect ==
    ASSUME TypeOK, NEW i \in ivs, Relax(i)
    PROVE  /\ \A j \in ivs : Improves(i, j) => best'[j] = Cand(i, j) /\ hops'[j] = hops[i] + 1
           /\ \A j \in ivs : ~Improves(i, j) => best'[j] = best[j] /\ hops'[j] = hops[j]
           /\ \A j \in ivs : best'[j] \in 0 .. INF /\ best[j] \in 0 .. INF /\ best'[j] >= best[j]
           /\ \A j \in ivs : j \notin todo \/ j = i => best'[j] = best[j]
<1>1. pc = "relax" /\ best \in [ivs -> 0 .. INF] /\ hops \in [ivs -> Nat]
  BY DEF Relax, TypeOK
<1>2. \A j \in ivs : Improves(i, j) => best'[j] = Cand(i, j) /\ hops'[j] = hops[i] + 1
  BY DEF Relax
<1>3. \A j \in ivs : ~Improves(i, j) => best'[j] = best[j] /\ hops'[j] = hops[j]
  BY DEF Relax
<1>4. ASSUME NEW j \in ivs
      PROVE  best'[j] \in 0 .. INF /\ best[j] \in 0 .. INF /\ best'[j] >= best[j]
  <2>1. CASE Improves(i, j)
    <3>1. Cand(i, j) \in 1 .. NTime
      BY <1>1, <2>1, CandType
    <3>2. best[j] = 0 \/ Cand(i, j) > best[j]
      BY <2>1 DEF Improves, NoPath
    <3> QED BY IntervalsAssumption, <1>1, <1>2, <2>1, <3>1, <3>2 DEF INF
  <2>2. CASE ~Improves(i, j)
    BY IntervalsAssumption, <1>1, <1>3, <2>2 DEF INF
  <2> QED BY <2>1, <2>2
<1>5. \A j \in ivs : j \notin todo \/ j = i => ~Improves(i, j)
  BY DEF Improves
<1> QED BY <1>2, <1>3, <1>4, <1>5

\* Extract establishes the invariant: each source is a path by itself.
LEMMA ExtractInv ==
    ASSUME TypeOK, Extract
    PROVE  IInv'
<1> USE IntervalsAssumption
<1>1. /\ ivs' = intervals_from_inview(inview) /\ todo' = ivs'
      /\ \A i \in ivs' : best'[i] = IF i.st <= 0 THEN INF ELSE NoPath
      /\ \A i \in ivs' : hops'[i] = 0
      /\ UNCHANGED inputs
  BY DEF Extract
<1>2. IntervalsInv'
  BY <1>1 DEF IntervalsInv, inputs, intervals_from_inview, Rises, Falls
<1>6. EmptyInv'
  BY DEF Extract, EmptyInv
<1>3. ReachedInv'
  <2> SUFFICES ASSUME NEW i \in ivs', best'[i] # NoPath
               PROVE  (\E P \in SUBSET ivs :
                        /\ IsPathTo(P, i)
                        /\ IsFiniteSet(P) /\ Cardinality(P) = hops[i] + 1
                        /\ best[i] = INF => hops[i] = 0
                        /\ best[i] # INF => Guarantees(P, best[i]))'
    BY DEF ReachedInv, NoPath
  <2>1. best'[i] = INF /\ i.st <= 0
    BY <1>1
  <2>2. i.en \in Int
    BY <1>1 DEF intervals_from_inview, Interval, Times
  <2>3. IsPathTo({i}, i)'
    BY <2>1, <2>2 DEF IsPathTo, Adjacent
  <2>4. IsFiniteSet({i}) /\ Cardinality({i}) = hops'[i] + 1
    <3>1. IsFiniteSet({i}) /\ Cardinality({i}) = 1
      BY FS_Singleton, Zenon
    <3> QED BY <1>1, <3>1
  <2>5. {i} \in SUBSET ivs'
    OBVIOUS
  <2> QED BY <1>1, <2>1, <2>3, <2>4, <2>5
<1>4. OrderInv' /\ RelaxedInv'
  BY <1>1 DEF OrderInv, RelaxedInv
<1>5. DoneInv'
  BY <1>1 DEF Extract, DoneInv, InfeasibleVerdict, Goals
<1> QED BY <1>2, <1>3, <1>4, <1>5, <1>6 DEF IInv

\* Relaxing preserves the paths: an improved entry extends the path of i.
LEMMA RelaxReached ==
    ASSUME TypeOK, IInv, NEW i \in ivs, Relax(i)
    PROVE  ReachedInv'
<1> USE IntervalsAssumption
<1>1. /\ pc = "relax" /\ ivs' = ivs /\ pc' = pc /\ UNCHANGED inputs
      /\ best \in [ivs -> 0 .. INF] /\ hops \in [ivs -> Nat]
      /\ ivs \subseteq Interval /\ req \in Requirement
  BY DEF Relax, TypeOK
<1>2. /\ \A P, k : IsPathTo(P, k)' <=> IsPathTo(P, k)
      /\ \A P, w : Guarantees(P, w)' <=> Guarantees(P, w)
  BY <1>1 DEF IsPathTo, Guarantees, Handover, inputs
<1> SUFFICES ASSUME NEW j \in ivs, best'[j] # NoPath
             PROVE  \E P \in SUBSET ivs :
                      /\ IsPathTo(P, j)
                      /\ IsFiniteSet(P) /\ Cardinality(P) = hops'[j] + 1
                      /\ best'[j] = INF => hops'[j] = 0
                      /\ best'[j] # INF => Guarantees(P, best'[j])
  BY <1>1, <1>2 DEF ReachedInv
<1>3. CASE Improves(i, j)
  <2>1. /\ best'[j] = Cand(i, j) /\ hops'[j] = hops[i] + 1
        /\ Cand(i, j) \in 1 .. NTime /\ Cand(i, j) <= best[i] /\ Cand(i, j) <= Overlap(i, j)
    BY <1>1, <1>3, RelaxEffect, CandType
  <2>2. PICK P \in SUBSET ivs :
          /\ IsPathTo(P, i)
          /\ IsFiniteSet(P) /\ Cardinality(P) = hops[i] + 1
          /\ best[i] = INF => hops[i] = 0
          /\ best[i] # INF => Guarantees(P, best[i])
    BY <1>1, <1>3 DEF IInv, ReachedInv, Improves
  <2> DEFINE Q == P \cup {j}
  <2>3. /\ Q \in SUBSET ivs /\ IsPathTo(Q, j)
        /\ IsFiniteSet(Q) /\ Cardinality(Q) = Cardinality(P) + 1
        /\ \A k, l \in Q : Adjacent(Q, k, l) =>
              (k = i /\ l = j) \/ (k \in P /\ l \in P /\ Adjacent(P, k, l))
    <3>1. Handover(i, j)
      BY <1>3 DEF Improves
    <3> QED BY <2>2, <3>1, ExtendPath
  <2>4. \A k, l \in P : Adjacent(P, k, l) => Overlap(k, l) >= Cand(i, j)
    <3>1. CASE best[i] = INF
      <4>1. Cardinality(P) = 1
        BY <2>2, <3>1
      <4>2. PICK x : P = {x}
        BY <2>2, <4>1, FS_Singleton, Zenon
      <4>3. x.en \in Nat
        BY <1>1, <4>2 DEF Interval, Times
      <4> QED BY <4>2, <4>3 DEF Adjacent
    <3>2. CASE best[i] # INF
      <4>1. \A k, l \in P : Overlap(k, l) \in Int
        BY <1>1 DEF Overlap, Least, Most, Interval, Times
      <4>2. best[i] \in Int /\ Cand(i, j) \in Int /\ Cand(i, j) <= best[i]
        BY <1>1, <2>1 DEF INF
      <4> QED BY <2>2, <3>2, <4>1, <4>2 DEF Guarantees
    <3> QED BY <3>1, <3>2
  <2>5. Overlap(i, j) \in Int
    BY <1>1 DEF Overlap, Least, Most, Interval, Times
  <2>6. Guarantees(Q, Cand(i, j))
    BY <2>1, <2>3, <2>4, <2>5 DEF Guarantees
  <2>7. Cardinality(Q) = hops'[j] + 1 /\ best'[j] # INF
    BY <1>1, <2>1, <2>2, <2>3 DEF INF
  <2> QED BY <2>1, <2>3, <2>6, <2>7
<1>4. CASE ~Improves(i, j)
  <2>1. best'[j] = best[j] /\ hops'[j] = hops[j]
    BY <1>4, RelaxEffect
  <2> QED BY <1>1, <2>1 DEF IInv, ReachedInv
<1> QED BY <1>3, <1>4

\* Relaxing keeps the visited part closed: what i can hand over to is not yet
\* visited, and no visited entry changes.
LEMMA RelaxRelaxed ==
    ASSUME TypeOK, IInv, NEW i \in ivs, Relax(i)
    PROVE  OrderInv' /\ RelaxedInv'
<1> USE IntervalsAssumption
<1>1. /\ pc = "relax" /\ ivs' = ivs /\ pc' = pc /\ todo' = todo \ {i} /\ UNCHANGED inputs
      /\ i \in todo /\ \A j \in todo \ {i} : Before(i, j)
      /\ ivs \subseteq Interval /\ req \in Requirement
  BY DEF Relax, TypeOK
<1>2. /\ \A k, l : Handover(k, l)' <=> Handover(k, l)
      /\ \A k, l : Before(k, l)' <=> Before(k, l)
  BY <1>1 DEF Handover, inputs
<1>3. OrderInv'
  <2>1. \A k \in ivs \ todo, l \in todo : Before(k, l)
    BY <1>1 DEF IInv, OrderInv
  <2>2. \A k \in ivs \ (todo \ {i}), l \in todo \ {i} : Before(k, l)
    BY <1>1, <2>1
  <2> QED BY <1>1, <1>2, <2>2 DEF OrderInv
<1>4. ASSUME NEW k \in ivs, k.st <= 0
      PROVE  best'[k] = INF
  <2>1. best[k] = INF
    BY <1>1, <1>4 DEF IInv, RelaxedInv
  <2> QED BY <2>1, RelaxEffect DEF INF
<1>5. ASSUME NEW k \in ivs \ (todo \ {i}), NEW l \in ivs,
             best'[k] # NoPath, Handover(k, l)
      PROVE  best'[l] >= Cand(k, l)'
  <2>1. best'[k] = best[k] /\ Cand(k, l)' = Cand(k, l)
    <3>1. best'[k] = best[k]
      BY <1>1, RelaxEffect
    <3> QED BY <3>1 DEF Cand, Overlap, Least, Most
  <2>2. /\ best'[l] >= best[l] /\ best[l] \in Int /\ best'[l] \in Int
        /\ best[k] \in Int
    BY RelaxEffect DEF INF
  <2>3. Cand(k, l) \in Int
    BY <1>1, <2>2 DEF Cand, Overlap, Least, Most, Interval, Times
  <2>4. CASE k # i
    <3>1. best[l] >= Cand(k, l)
      BY <1>1, <1>5, <2>1, <2>4 DEF IInv, RelaxedInv
    <3> QED BY <2>1, <2>2, <2>3, <3>1
  <2>5. CASE k = i
    <3>1. l \in todo \ {i}
      <4>1. l.en > i.en /\ l.en \in Nat /\ i.en \in Nat
        BY <1>1, <1>5, <2>5 DEF Handover, MayHandOver, Interval, Times
      <4>2. l \notin todo => Before(l, i)
        BY <1>1 DEF IInv, OrderInv
      <4> QED BY <4>1, <4>2 DEF Before
    <3>2. CASE Improves(i, l)
      BY <2>1, <2>5, <2>3, <3>2, RelaxEffect
    <3>3. CASE ~Improves(i, l)
      <4>1. best[l] >= Cand(i, l)
        BY <1>5, <2>1, <2>2, <2>3, <2>5, <3>1, <3>3 DEF Improves
      <4> QED BY <2>1, <2>2, <2>3, <2>5, <4>1
    <3> QED BY <3>2, <3>3
  <2> QED BY <2>4, <2>5
<1> QED BY <1>1, <1>2, <1>3, <1>4, <1>5 DEF RelaxedInv

\* IInv is preserved by every step of a well-typed behaviour.
LEMMA InvStep ==
    ASSUME TypeOK, IInv, [Next]_vars
    PROVE  IInv'
<1>1. CASE Extract
  BY <1>1, ExtractInv
<1>2. ASSUME NEW i \in ivs, Relax(i)
      PROVE  IInv'
  <2>1. EmptyInv' /\ IntervalsInv' /\ DoneInv'
    BY <1>2 DEF Relax, IInv, EmptyInv, IntervalsInv, DoneInv, inputs
  <2> QED BY <1>2, <2>1, RelaxReached, RelaxRelaxed DEF IInv
<1>3. ASSUME Infeasible \/ (\E g \in ivs : Feasible(g)) \/ UNCHANGED vars
      PROVE  IInv'
  <2>1. UNCHANGED <<inputs, ivs, todo, best, hops>>
    BY <1>3 DEF Infeasible, Feasible, vars, inputs
  <2>2. /\ \A P, k : IsPathTo(P, k)' <=> IsPathTo(P, k)
        /\ \A P, w : Guarantees(P, w)' <=> Guarantees(P, w)
        /\ \A k, l : Handover(k, l)' <=> Handover(k, l)
        /\ \A k, l : Cand(k, l)' = Cand(k, l)
        /\ intervals_from_inview(inview)' = intervals_from_inview(inview)
    BY <2>1 DEF IsPathTo, Guarantees, Handover, inputs, Cand
  <2>3. Goals' = Goals /\ \A g : IsBestGoal(g)' <=> IsBestGoal(g)
    BY <2>1 DEF Goals, IsBestGoal
  <2>4. (pc # "extract" /\ pc' # "extract") \/ UNCHANGED vars
    BY <1>3 DEF Infeasible, Feasible
  <2>5. EmptyInv' /\ IntervalsInv' /\ OrderInv' /\ RelaxedInv'
    BY <2>1, <2>2, <2>4 DEF IInv, EmptyInv, IntervalsInv, OrderInv, RelaxedInv, vars
  <2>6. ReachedInv'
    BY <2>1, <2>2, <2>4 DEF IInv, ReachedInv, vars
  <2>7. DoneInv'
    <3>1. CASE Infeasible
      BY <2>1, <2>3, <3>1 DEF Infeasible, DoneInv, InfeasibleVerdict
    <3>2. ASSUME NEW g \in ivs, Feasible(g)
          PROVE  DoneInv'
      BY <2>1, <2>3, <3>2 DEF Feasible, FeasibleVerdict, DoneInv, IsBestGoal
    <3>3. CASE UNCHANGED vars
      BY <2>1, <2>3, <3>3 DEF IInv, DoneInv, vars
    <3> QED BY <1>3, <3>1, <3>2, <3>3
  <2> QED BY <2>5, <2>6, <2>7 DEF IInv
<1> QED BY <1>1, <1>2, <1>3 DEF Next

\* The inductive invariant holds in every behaviour.
THEOREM Inductive == Spec => []IInv
<1>1. Init => IInv
  BY DEF Init, IInv, EmptyInv, IntervalsInv, ReachedInv, OrderInv, RelaxedInv, DoneInv
<1>2. TypeOK /\ IInv /\ [Next]_vars => IInv'
  BY InvStep
<1> QED BY <1>1, <1>2, TypeCorrect, PTL DEF Spec

-----------------------------------------------------------------------------
(***************************************************************************)
(* What the verdict means.                                                 *)
(***************************************************************************)

\* Completeness of the single pass: when it is over, every interval of a path
\* that guarantees w is reached with a bottleneck of at least w.
LEMMA PathIsReached ==
    ASSUME TypeOK, IInv, pc = "done",
           NEW w \in 1 .. INF,
           NEW P \in SUBSET ivs, NEW z \in P, IsPathTo(P, z), Guarantees(P, w),
           NEW p \in P
    PROVE  best[p] >= w
<1> USE IntervalsAssumption
<1>1. /\ best \in [ivs -> 0 .. INF] /\ ivs \subseteq Interval /\ req \in Requirement
      /\ todo = {}
  BY DEF TypeOK, IInv, DoneInv
<1>2. \A k \in P : k \in Interval /\ k.en \in Nat /\ k.en <= NTime /\ best[k] \in Nat
  BY <1>1 DEF Interval, Times, INF
<1> SUFFICES ASSUME ~(best[p] >= w)
             PROVE  FALSE
  OBVIOUS
<1> DEFINE Bad == {k \in P : ~(best[k] >= w)}
<1>3. PICK k \in Bad : \A l \in Bad : k.en <= l.en
  <2> DEFINE Ends == {l.en : l \in Bad}
  <2>1. Ends \in SUBSET Nat /\ Ends # {}
    BY <1>2
  <2>2. PICK m \in Ends : \A e \in Ends : m <= e
    <3> HIDE DEF Ends
    <3> QED BY <2>1, LeastElement
  <2> QED BY <2>2
<1>4. k.st > 0
  <2>1. k.st \in Int
    BY <1>2 DEF Interval, Times
  <2>2. k.st <= 0 => best[k] = INF
    BY DEF IInv, RelaxedInv
  <2> QED BY <1>2, <2>1, <2>2 DEF INF
<1>5. PICK h \in P : h.en < k.en /\ \A l \in P : l.en < k.en => l.en <= h.en
  <2> DEFINE Earlier == {l.en : l \in {x \in P : x.en < k.en}}
  <2>1. Earlier \in SUBSET Nat /\ \A e \in Earlier : e <= NTime
    BY <1>2
  <2>2. Earlier # {}
    <3>1. \E x \in P : x.en < k.en
      BY <1>2, <1>4 DEF IsPathTo, Interval, Times
    <3> QED BY <3>1
  <2>3. PICK m \in Earlier : \A e \in Earlier : e <= m
    <3> HIDE DEF Earlier
    <3> QED BY <2>1, <2>2, GreatestElement
  <2> QED BY <2>3
<1>6. Adjacent(P, h, k)
  BY <1>2, <1>5 DEF Adjacent
<1>7. Handover(h, k) /\ Overlap(h, k) >= w
  BY <1>6 DEF IsPathTo, Guarantees
<1>8. best[h] >= w
  BY <1>2, <1>3, <1>5
<1>9. best[k] >= Cand(h, k)
  <2>1. best[h] # NoPath
    BY <1>2, <1>8 DEF NoPath
  <2> QED BY <1>1, <1>7, <2>1 DEF IInv, RelaxedInv
<1>10. Overlap(h, k) \in 1 .. NTime
  BY <1>1, <1>2, <1>7, HandoverOverlap
<1>11. Cand(h, k) >= w
  BY <1>7, <1>8 DEF Cand, Least
<1>12. Cand(h, k) \in Int /\ best[k] \in Int /\ w \in Int
  BY <1>2, <1>10 DEF Cand, Least, INF
<1> QED BY <1>3, <1>9, <1>11, <1>12

\* A serving path with guaranteed overlap w makes the cell feasible with a
\* reported bottleneck of at least w.
LEMMA ServingPathIsFound ==
    ASSUME TypeOK, IInv, pc = "done",
           NEW w \in 1 .. INF,
           NEW P \in SUBSET ivs, IsServingPath(P), Guarantees(P, w)
    PROVE  /\ result.feasible
           /\ \E g \in ivs :
                /\ IsBestGoal(g) /\ best[g] >= w /\ best[g] \in 1 .. INF
                /\ result.worst_overlap_steps = IF best[g] >= INF THEN NA ELSE best[g]
<1> USE IntervalsAssumption
<1>1. best \in [ivs -> 0 .. INF] /\ ivs \subseteq Interval
  BY DEF TypeOK
<1>2. PICK z \in P : IsPathTo(P, z) /\ z.en = NTime - 1
  BY DEF IsServingPath, IsPathTo
<1>3. best[z] >= w
  BY <1>2, PathIsReached
<1>4. z \in Goals /\ best[z] \in Int
  BY <1>1, <1>2, <1>3 DEF Goals, NoPath, INF
<1>5. result.feasible
  BY <1>4 DEF IInv, DoneInv, TypeOK, Verdict
<1>6. PICK g \in ivs :
        /\ IsBestGoal(g)
        /\ result.worst_overlap_steps = IF best[g] >= INF THEN NA ELSE best[g]
  BY <1>5 DEF IInv, DoneInv
<1>7. best[g] >= best[z]
  BY <1>1, <1>4, <1>6 DEF IsBestGoal, INF
<1>8. best[g] >= w /\ best[g] \in 1 .. INF
  BY <1>1, <1>3, <1>4, <1>7 DEF INF
<1> QED BY <1>5, <1>6, <1>8

\* A feasible verdict comes with a serving path that has the reported number
\* of handovers and the reported bottleneck.
LEMMA VerdictHasPath ==
    ASSUME TypeOK, IInv, pc = "done", result.feasible
    PROVE  \E g \in ivs, P \in SUBSET ivs :
              /\ IsPathTo(P, g) /\ g.en = NTime - 1
              /\ IsFiniteSet(P) /\ Cardinality(P) = result.n_handovers + 1
              /\ best[g] \in 1 .. INF
              /\ best[g] = INF => result.n_handovers = 0 /\ result.worst_overlap_steps = NA
              /\ best[g] # INF =>
                    /\ Guarantees(P, best[g])
                    /\ result.worst_overlap_steps = best[g]
              /\ result.worst_gap_steps = 0
<1> USE IntervalsAssumption
<1>1. best \in [ivs -> 0 .. INF] /\ ivs \subseteq Interval
  BY DEF TypeOK
<1>2. PICK g \in ivs :
        /\ IsBestGoal(g)
        /\ result.n_handovers = hops[g]
        /\ result.worst_overlap_steps = IF best[g] >= INF THEN NA ELSE best[g]
        /\ result.worst_gap_steps = 0
  BY DEF IInv, DoneInv
<1>3. g \in Goals
  BY <1>2 DEF IsBestGoal
<1>4. best[g] \in 1 .. INF /\ g.en = NTime - 1
  BY <1>1, <1>3 DEF Goals, NoPath, Interval, Times, INF
<1>5. PICK P \in SUBSET ivs :
        /\ IsPathTo(P, g)
        /\ IsFiniteSet(P) /\ Cardinality(P) = hops[g] + 1
        /\ best[g] = INF => hops[g] = 0
        /\ best[g] # INF => Guarantees(P, best[g])
  BY <1>3 DEF IInv, ReachedInv, Goals
<1>6. /\ best[g] = INF => result.worst_overlap_steps = NA
      /\ best[g] # INF => result.worst_overlap_steps = best[g]
  BY <1>2, <1>4 DEF INF
<1> QED BY <1>2, <1>4, <1>5, <1>6

\* The single forward pass finds a serving path exactly when there is one
\* (mbb_continuity_cell_req: "a single forward pass is a valid topological
\* relaxation").
THEOREM FeasibilityCorrect == Spec => []FeasibleIffServingPath
<1>1. TypeOK /\ IInv => FeasibleIffServingPath
  <2> SUFFICES ASSUME TypeOK, IInv, pc = "done"
               PROVE  result.feasible <=> \E P \in SUBSET ivs : IsServingPath(P)
    BY DEF FeasibleIffServingPath
  <2>1. ASSUME result.feasible
        PROVE  \E P \in SUBSET ivs : IsServingPath(P)
    <3>1. PICK g \in ivs, P \in SUBSET ivs : IsPathTo(P, g) /\ g.en = NTime - 1
      BY <2>1, VerdictHasPath
    <3> QED BY <3>1 DEF IsServingPath, IsPathTo
  <2>2. ASSUME NEW P \in SUBSET ivs, IsServingPath(P)
        PROVE  result.feasible
    <3>1. ivs \subseteq Interval /\ req \in Requirement
      BY DEF TypeOK
    <3>2. \A k, l \in P : Adjacent(P, k, l) => Overlap(k, l) \in 1 .. NTime
      BY <2>2, <3>1, HandoverOverlap DEF IsServingPath, IsPathTo
    <3>3. Guarantees(P, 1) /\ 1 \in 1 .. INF
      BY IntervalsAssumption, <3>2 DEF Guarantees, INF
    <3> QED BY <2>2, <3>3, ServingPathIsFound
  <2> QED BY <2>1, <2>2
<1> QED BY <1>1, TypeCorrect, Inductive, PTL

\* The reported worst overlap is achieved by a serving path and no serving
\* path guarantees more: relaxing by bottleneck is optimal.
THEOREM BottleneckCorrect == Spec => []WorstOverlapIsBestBottleneck
<1> USE IntervalsAssumption
<1>1. TypeOK /\ IInv => WorstOverlapIsBestBottleneck
  <2> SUFFICES ASSUME TypeOK, IInv, pc = "done", result.feasible,
                      NEW w, w = IF result.worst_overlap_steps = NA
                                 THEN INF ELSE result.worst_overlap_steps
               PROVE  /\ \E P \in SUBSET ivs : IsServingPath(P) /\ Guarantees(P, w)
                      /\ \A P \in SUBSET ivs :
                            IsServingPath(P) /\ Guarantees(P, w + 1) => w = INF
    BY DEF WorstOverlapIsBestBottleneck
  <2>0. ivs \subseteq Interval
    BY DEF TypeOK
  <2>1. PICK g \in ivs, P \in SUBSET ivs :
          /\ IsPathTo(P, g) /\ g.en = NTime - 1
          /\ IsFiniteSet(P) /\ Cardinality(P) = result.n_handovers + 1
          /\ best[g] \in 1 .. INF
          /\ best[g] = INF => result.n_handovers = 0 /\ result.worst_overlap_steps = NA
          /\ best[g] # INF => Guarantees(P, best[g]) /\ result.worst_overlap_steps = best[g]
    BY VerdictHasPath
  <2>2. w = best[g]
    BY <2>1 DEF NA, INF
  <2>3. Guarantees(P, w)
    <3>1. CASE best[g] = INF
      <4>1. Cardinality(P) = 1
        BY <2>1, <3>1
      <4>2. PICK x : P = {x}
        BY <2>1, <4>1, FS_Singleton, Zenon
      <4>3. x.en \in Nat
        BY <2>0, <4>2 DEF Interval, Times
      <4> QED BY <4>2, <4>3 DEF Guarantees, Adjacent
    <3>2. CASE best[g] # INF
      BY <2>1, <2>2, <3>2
    <3> QED BY <3>1, <3>2
  <2>4. IsServingPath(P)
    BY <2>1 DEF IsServingPath, IsPathTo
  <2>5. ASSUME NEW R \in SUBSET ivs, IsServingPath(R), Guarantees(R, w + 1), w # INF
        PROVE  FALSE
    <3>1. w + 1 \in 1 .. INF
      BY <2>1, <2>2, <2>5 DEF INF
    <3>2. PICK b \in ivs :
            /\ best[b] >= w + 1 /\ best[b] \in 1 .. INF
            /\ result.worst_overlap_steps = IF best[b] >= INF THEN NA ELSE best[b]
      BY <2>5, <3>1, ServingPathIsFound
    <3>3. w = best[b]
      BY <3>2 DEF NA, INF
    <3> QED BY <3>2, <3>3
  <2> QED BY <2>3, <2>4, <2>5
<1> QED BY <1>1, TypeCorrect, Inductive, PTL

\* The two arrays best and hops always speak of one and the same path.
THEOREM HandoverCountCorrect == Spec => []HandoversOfReportedPath
<1> USE IntervalsAssumption
<1>1. TypeOK /\ IInv => HandoversOfReportedPath
  <2> SUFFICES ASSUME TypeOK, IInv, pc = "done", result.feasible
               PROVE  \E P \in SUBSET ivs :
                        /\ IsServingPath(P)
                        /\ Cardinality(P) = result.n_handovers + 1
                        /\ result.worst_overlap_steps # NA =>
                              Guarantees(P, result.worst_overlap_steps)
                        /\ result.worst_overlap_steps = NA <=> Cardinality(P) = 1
    BY DEF HandoversOfReportedPath
  <2>1. PICK g \in ivs, P \in SUBSET ivs :
          /\ IsPathTo(P, g) /\ g.en = NTime - 1
          /\ IsFiniteSet(P) /\ Cardinality(P) = result.n_handovers + 1
          /\ best[g] \in 1 .. INF
          /\ best[g] = INF => result.n_handovers = 0 /\ result.worst_overlap_steps = NA
          /\ best[g] # INF => Guarantees(P, best[g]) /\ result.worst_overlap_steps = best[g]
    BY VerdictHasPath
  <2>2. IsServingPath(P)
    BY <2>1 DEF IsServingPath, IsPathTo
  <2>3. result.worst_overlap_steps = NA => Cardinality(P) = 1
    <3>1. result.worst_overlap_steps = NA => best[g] = INF
      BY <2>1 DEF NA
    <3> QED BY <2>1, <3>1
  <2>4. result.worst_overlap_steps # NA => Guarantees(P, result.worst_overlap_steps)
    BY <2>1
  <2>5. ASSUME Cardinality(P) = 1
        PROVE  result.worst_overlap_steps = NA
    <3>1. PICK x : P = {x}
      BY <2>1, <2>5, FS_Singleton, Zenon
    <3>2. P = {g} /\ g \in Interval
      BY <3>1, <2>1 DEF IsPathTo, TypeOK
    <3>3. g.st <= 0
      BY <3>2, <2>1 DEF IsPathTo, Interval, Times
    <3>4. best[g] = INF
      BY <3>3 DEF IInv, RelaxedInv
    <3> QED BY <3>4, <2>1
  <2> QED BY <2>1, <2>2, <2>3, <2>4, <2>5
<1> QED BY <1>1, TypeCorrect, Inductive, PTL

\* Along a path to z every sample up to the end of z is in view.
LEMMA PathCovers ==
    ASSUME TypeOK, IInv, pc = "done",
           NEW P \in SUBSET ivs, NEW z \in P, IsPathTo(P, z),
           NEW t \in Times, t <= z.en
    PROVE  \E i \in P : t \in i.st .. i.en
<1> USE IntervalsAssumption
<1>1. ivs \subseteq Interval /\ req \in Requirement
  BY DEF TypeOK
<1>2. \A k \in P : k \in Interval /\ k.st \in Nat /\ k.en \in Nat
  BY <1>1 DEF Interval, Times
<1>3. PICK k \in P : t <= k.en /\ \A l \in P : t <= l.en => k.en <= l.en
  <2> DEFINE Ends == {l.en : l \in {x \in P : t <= x.en}}
  <2>1. Ends \in SUBSET Nat /\ Ends # {}
    BY <1>2
  <2>2. PICK m \in Ends : \A e \in Ends : m <= e
    <3> HIDE DEF Ends
    <3> QED BY <2>1, LeastElement
  <2> QED BY <2>2
<1>4. CASE k.st <= t
  BY <1>2, <1>3, <1>4 DEF Times
<1>5. CASE k.st > t
  <2>1. PICK h0 \in P : h0.en < k.en
    BY <1>2, <1>5 DEF IsPathTo, Times
  <2>2. PICK h \in P : h.en < k.en /\ \A l \in P : l.en < k.en => l.en <= h.en
    <3> DEFINE Earlier == {l.en : l \in {x \in P : x.en < k.en}}
    <3>1. Earlier \in SUBSET Nat /\ (\A e \in Earlier : e <= k.en) /\ Earlier # {}
      BY <1>2, <2>1
    <3>2. PICK m \in Earlier : \A e \in Earlier : e <= m
      <4> HIDE DEF Earlier
      <4> QED BY <1>2, <3>1, GreatestElement
    <3> QED BY <3>2
  <2>3. Adjacent(P, h, k)
    BY <1>2, <2>2 DEF Adjacent
  <2>4. k.st <= h.en
    BY <1>1, <1>2, <2>3, HandoverOverlap DEF IsPathTo
  <2>5. t <= h.en
    BY <1>2, <1>5, <2>4 DEF Times
  <2> QED BY <1>2, <1>3, <2>2, <2>5
<1> QED BY <1>2, <1>4, <1>5 DEF Times

\* A feasible cell is never out of view, and the worst gap of 0 it reports
\* without measuring is the measured one.
THEOREM GaplessCorrect == Spec => []FeasibleIsGapless
<1> USE IntervalsAssumption
<1>1. TypeOK /\ IInv => FeasibleIsGapless
  <2> SUFFICES ASSUME TypeOK, IInv, pc = "done", result.feasible
               PROVE  /\ Times \subseteq UNION {inview[s] : s \in Sats}
                      /\ result.worst_gap_steps = merged_worst_gap_steps(ivs)
    BY DEF FeasibleIsGapless
  <2>1. PICK g \in ivs, P \in SUBSET ivs :
          IsPathTo(P, g) /\ g.en = NTime - 1 /\ result.worst_gap_steps = 0
    BY VerdictHasPath
  <2>2. ASSUME NEW t \in Times
        PROVE  \E i \in ivs : t \in i.st .. i.en
    <3>1. g \in P /\ t <= g.en
      BY <2>1 DEF IsPathTo, Times
    <3> QED BY <2>1, <3>1, PathCovers
  <2>3. Times \subseteq Covered(ivs)
    BY <2>2 DEF Covered
  <2>4. ASSUME NEW t \in Times
        PROVE  \E s \in Sats : t \in inview[s]
    <3>1. PICK i \in ivs : t \in i.st .. i.en
      BY <2>2
    <3>2. i \in intervals_from_inview(inview) /\ inview \in [Sats -> SUBSET Times]
      BY DEF IInv, IntervalsInv, TypeOK
    <3>3. i \in Interval /\ t \in inview[i.sat]
      BY <3>1, <3>2, IntervalInView
    <3> QED BY <3>3 DEF Interval
  <2>5. result.worst_gap_steps = merged_worst_gap_steps(ivs)
    BY <2>1, <2>3 DEF merged_worst_gap_steps
  <2> QED BY <2>4, <2>5
<1> QED BY <1>1, TypeCorrect, Inductive, PTL

\* Two runs of one satellite never share a sample, so require_different_sat
\* excludes no handover.
THEOREM DifferentSatCorrect == Spec => []DifferentSatIsImplied
<1> USE IntervalsAssumption
<1>1. TypeOK /\ IInv => DifferentSatIsImplied
  <2> SUFFICES ASSUME TypeOK, IInv, NEW i \in ivs, NEW j \in ivs,
                      i.sat = j.sat, j.en > i.en
               PROVE  Overlap(i, j) < Threshold
    BY DEF DifferentSatIsImplied
  <2>1. pc # "extract" /\ ivs = intervals_from_inview(inview)
    <3>1. pc = "extract" => ivs = {}
      BY DEF IInv, EmptyInv
    <3> QED BY <3>1 DEF IInv, IntervalsInv
  <2>2. /\ i.st \in Nat /\ i.en \in Nat /\ j.st \in Nat /\ j.en \in Nat
        /\ i \in Interval /\ j \in Interval
    BY DEF TypeOK, Interval, Times
  <2>3. i.en < j.st
    <3>1. SUFFICES ASSUME j.st <= i.en
                   PROVE  FALSE
      BY <2>2
    <3>2. i.en \in Falls(inview[j.sat]) /\ j \in intervals_from_inview(inview)
      BY <2>1 DEF intervals_from_inview
    <3>3. j.en <= i.en
      BY <3>1, <3>2 DEF intervals_from_inview
    <3> QED BY <2>2, <3>3
  <2>4. Overlap(i, j) \in Int /\ Overlap(i, j) <= 0
    BY <2>2, <2>3 DEF Overlap, Least, Most
  <2>5. Threshold \in Int /\ Threshold >= 1
    <3>1. req.min_overlap_steps \in Int
      BY DEF TypeOK, Requirement
    <3> QED BY <3>1 DEF Threshold, ThresholdOf, Most
  <2> QED BY <2>4, <2>5
<1> QED BY <1>1, TypeCorrect, Inductive, PTL

-----------------------------------------------------------------------------
(***************************************************************************)
(* The runs of one satellite.                                              *)
(***************************************************************************)
\* Every sample in view lies in one of the runs.
LEMMA InViewInterval ==
    ASSUME inview \in [Sats -> SUBSET Times], NEW s \in Sats, NEW t \in inview[s]
    PROVE  \E i \in intervals_from_inview(inview) : i.sat = s /\ t \in i.st .. i.en
<1> USE IntervalsAssumption
<1>1. t \in Times /\ t \in Nat /\ inview[s] \subseteq Times
  BY DEF Times
<1> DEFINE Starts == {u \in 0 .. t : u .. t \subseteq inview[s]}
           Ends == {e \in Times : e >= t /\ e + 1 \notin inview[s]}
<1>2. PICK a \in Starts : \A u \in Starts : a <= u
  <2>1. t \in Starts
    BY <1>1
  <2>2. Starts \in SUBSET Nat
    BY <1>1
  <2> HIDE DEF Starts
  <2> QED BY <2>1, <2>2, LeastElement
<1>3. PICK b \in Ends : \A e \in Ends : b <= e
  <2>1. NTime - 1 \in Ends
    BY <1>1 DEF Times
  <2>2. Ends \in SUBSET Nat
    BY DEF Times
  <2> HIDE DEF Ends
  <2> QED BY <2>1, <2>2, LeastElement
<1>4. a \in Nat /\ a <= t /\ t <= b /\ b \in Times /\ b \in Nat
  BY <1>1, <1>2, <1>3 DEF Times
<1>5. a - 1 \notin inview[s]
  <2> SUFFICES ASSUME a - 1 \in inview[s] PROVE FALSE
    OBVIOUS
  <2>1. a - 1 \in 0 .. t
    BY <1>1, <1>4 DEF Times
  <2>2. (a - 1) .. t = {a - 1} \cup (a .. t)
    BY <1>1, <1>4, <2>1
  <2>3. a - 1 \in Starts
    BY <1>2, <2>1, <2>2
  <2>4. a <= a - 1
    <3> HIDE DEF Starts
    <3> QED BY <1>2, <2>3
  <2> QED BY <1>4, <2>4
<1>6. a \in Rises(inview[s])
  <2>1. a \in a .. t /\ a .. t \subseteq inview[s]
    BY <1>1, <1>2, <1>4
  <2> QED BY <1>1, <1>5, <2>1 DEF Rises
<1>7. ASSUME NEW e \in Falls(inview[s]), a <= e
      PROVE  b <= e
  <2>1. e \in Times /\ e \in Nat /\ e + 1 \notin inview[s]
    BY <1>7 DEF Falls, Times
  <2>2. e >= t
    <3> SUFFICES ASSUME e < t PROVE FALSE
      BY <1>1, <2>1
    <3>1. e + 1 \in a .. t
      BY <1>1, <1>4, <1>7, <2>1
    <3> QED BY <1>2, <2>1, <3>1
  <2> QED BY <1>3, <2>1, <2>2
<1>8. b \in inview[s]
  <2> SUFFICES ASSUME b # t PROVE b \in inview[s]
    OBVIOUS
  <2>1. b - 1 \in Times /\ b - 1 >= t /\ b - 1 < b
    BY <1>1, <1>4 DEF Times
  <2>2. (b - 1) + 1 \in inview[s]
    BY <1>3, <1>4, <2>1
  <2> QED BY <1>4, <2>2
<1>9. b \in Falls(inview[s])
  BY <1>3, <1>4, <1>8 DEF Falls
<1> DEFINE i == [sat |-> s, st |-> a, en |-> b]
<1>10. i \in Interval /\ a <= b /\ t \in a .. b
  BY <1>1, <1>4, <1>6 DEF Interval, Rises
<1>11. i \in intervals_from_inview(inview)
  BY <1>6, <1>7, <1>9, <1>10 DEF intervals_from_inview
<1> QED BY <1>10, <1>11

\* Of two runs of a satellite the one that starts first ends before the other,
\* with a sample out of view between them.
LEMMA RunsApart ==
    ASSUME inview \in [Sats -> SUBSET Times],
           NEW i \in intervals_from_inview(inview), NEW j \in intervals_from_inview(inview),
           i.sat = j.sat, i.st < j.st
    PROVE  i.en + 1 < j.st
<1>1. /\ i \in Interval /\ \A t \in i.st .. i.en : t \in inview[i.sat]
      /\ i.en \in Falls(inview[i.sat]) /\ j.st \in Rises(inview[i.sat])
  BY IntervalInView DEF intervals_from_inview
<1>2. /\ i.st \in Nat /\ i.en \in Nat /\ j.st \in Nat
      /\ i.en + 1 \notin inview[i.sat] /\ j.st \in inview[i.sat] /\ j.st - 1 \notin inview[i.sat]
  BY <1>1 DEF Interval, Times, Rises, Falls
<1>3. ~(j.st - 1 \in i.st .. i.en)
  BY <1>1, <1>2
<1>4. j.st > i.en
  BY <1>2, <1>3
<1> QED BY <1>2, <1>4

\* Extraction is exact: pairing the rises of the visibility with its falls yields
\* every run of samples in view, whole and once (intervals_from_inview).
THEOREM IntervalsCorrect == Spec => []IntervalsAreMaximalRuns
<1>1. TypeOK /\ IInv => IntervalsAreMaximalRuns
  <2> SUFFICES ASSUME TypeOK, IInv, pc # "extract"
               PROVE  /\ \A s \in Sats : Covered({i \in ivs : i.sat = s}) = inview[s]
                      /\ \A i, j \in ivs : i.sat = j.sat /\ i # j => i.en + 1 < j.st \/ j.en + 1 < i.st
    BY DEF IntervalsAreMaximalRuns
  <2>1. ivs = intervals_from_inview(inview) /\ inview \in [Sats -> SUBSET Times]
    BY DEF IInv, IntervalsInv, TypeOK
  <2>2. ASSUME NEW s \in Sats
        PROVE  Covered({i \in ivs : i.sat = s}) = inview[s]
    <3>1. \A t \in inview[s] : \E i \in ivs : i.sat = s /\ t \in i.st .. i.en
      BY <2>1, InViewInterval
    <3>2. \A i \in ivs : i.sat = s => \A t \in i.st .. i.en : t \in inview[s]
      BY <2>1, IntervalInView
    <3> QED BY <3>1, <3>2 DEF Covered
  <2>3. ASSUME NEW i \in ivs, NEW j \in ivs, i.sat = j.sat, i # j
        PROVE  i.en + 1 < j.st \/ j.en + 1 < i.st
    <3>1. /\ i \in Interval /\ j \in Interval /\ i.st \in Nat /\ j.st \in Nat
          /\ i.en \in Nat /\ j.en \in Nat
          /\ i.en \in Falls(inview[i.sat]) /\ i.st <= i.en
          /\ j.en \in Falls(inview[i.sat]) /\ j.st <= j.en
          /\ \A e \in Falls(inview[i.sat]) : i.st <= e => i.en <= e
          /\ \A e \in Falls(inview[i.sat]) : j.st <= e => j.en <= e
      BY <2>1, <2>3 DEF intervals_from_inview, Interval, Times
    <3>2. CASE i.st = j.st
      <4>1. i.en = j.en
        BY <3>1, <3>2
      <4> QED BY <2>3, <3>1, <3>2, <4>1 DEF Interval
    <3>3. CASE i.st < j.st
      BY <2>1, <2>3, <3>3, RunsApart
    <3>4. CASE j.st < i.st
      BY <2>1, <2>3, <3>4, RunsApart
    <3> QED BY <3>1, <3>2, <3>3, <3>4
  <2> QED BY <2>2, <2>3
<1> QED BY <1>1, TypeCorrect, Inductive, PTL


-----------------------------------------------------------------------------
(***************************************************************************)
(* The verdict as a function, and as the older form computes it.           *)
(***************************************************************************)

\* What holds at 0 and is handed from each number to the next holds up to m.
LEMMA UpTo ==
    ASSUME NEW m \in Nat, NEW P, 0 \in P, \A n \in 1 .. m : n - 1 \in P => n \in P
    PROVE  0 .. m \subseteq P
<1> DEFINE Bad == (0 .. m) \ P
<1> SUFFICES ASSUME Bad # {}
             PROVE  FALSE
  OBVIOUS
<1>1. PICK n \in Bad : \A k \in Bad : n <= k
  <2>1. Bad \in SUBSET Nat
    OBVIOUS
  <2> HIDE DEF Bad
  <2> QED BY <2>1, LeastElement
<1>2. n \in 1 .. m /\ n - 1 \in 0 .. m
  OBVIOUS
<1>3. n - 1 \notin Bad
  <2> HIDE DEF Bad
  <2> QED BY <1>1, <1>2
<1> QED BY <1>2, <1>3

\* A sequence of m + 1 values, each got from the one before it, exists.
CanStep(m, A, step) == step \in [1 .. m -> [A -> A]]
HasIterates(m, A, base, step) ==
    \E f \in [0 .. m -> A] : f[0] = base /\ \A n \in 1 .. m : f[n] = step[n][f[n - 1]]

LEMMA Iterates ==
    ASSUME NEW m \in Nat, NEW A, NEW base \in A, NEW step, CanStep(m, A, step)
    PROVE  HasIterates(m, A, base, step)
<1> DEFINE IsPart(f, n) == /\ f \in [0 .. n -> A] /\ f[0] = base
                           /\ \A k \in 1 .. n : f[k] = step[k][f[k - 1]]
           P == {n \in 0 .. m : \E f : IsPart(f, n)}
<1>1. 0 \in P
  <2>1. IsPart([k \in 0 .. 0 |-> base], 0)
    OBVIOUS
  <2> HIDE DEF IsPart
  <2> QED BY <2>1
<1>2. ASSUME NEW n \in 1 .. m, n - 1 \in P
      PROVE  n \in P
  <2>1. PICK f : IsPart(f, n - 1)
    BY <1>2
  <2> DEFINE g == [k \in 0 .. n |-> IF k = n THEN step[n][f[n - 1]] ELSE f[k]]
  <2>2. f[n - 1] \in A /\ step[n] \in [A -> A]
    BY <2>1 DEF CanStep
  <2>3. g \in [0 .. n -> A]
    BY <2>1, <2>2
  <2>4. g[0] = base
    BY <2>1
  <2>5. \A k \in 1 .. n : g[k] = step[k][g[k - 1]]
    <3> TAKE k \in 1 .. n
    <3>1. g[k - 1] = f[k - 1]
      OBVIOUS
    <3>2. CASE k = n
      BY <3>1, <3>2
    <3>3. CASE k # n
      <4>1. k \in 1 .. n - 1 /\ g[k] = f[k]
        BY <3>3
      <4>2. f[k] = step[k][f[k - 1]]
        BY <2>1, <4>1
      <4> HIDE DEF g
      <4> QED BY <3>1, <4>1, <4>2
    <3> QED BY <3>2, <3>3
  <2> HIDE DEF g
  <2>6. IsPart(g, n)
    BY <2>3, <2>4, <2>5
  <2> QED BY <2>6
<1> HIDE DEF P
<1>3. 0 .. m \subseteq P
  BY <1>1, <1>2, UpTo
<1>4. m \in P
  BY <1>3
<1> QED BY <1>4 DEF P, HasIterates

\* There are finitely many intervals, and the order of the code tells any two apart.
LEMMA FiniteIntervals ==
    ASSUME NEW S \in SUBSET Interval
    PROVE  IsFiniteSet(S) /\ Cardinality(S) \in Nat
<1> USE IntervalsAssumption
<1> DEFINE Triples == (Sats \X Times) \X Times
           record == [p \in Triples |-> [sat |-> p[1][1], st |-> p[1][2], en |-> p[2]]]
<1>1. IsFiniteSet(Triples)
  <2>1. IsFiniteSet(Sats) /\ IsFiniteSet(Times)
    BY FS_Interval DEF Sats, Times
  <2>2. IsFiniteSet(Sats \X Times)
    BY <2>1, FS_Product
  <2> QED BY <2>1, <2>2, FS_Product
<1>2. record \in [Triples -> Interval]
  BY DEF Interval
<1>3. \A i \in Interval : \E p \in Triples : record[p] = i
  <2>1. ASSUME NEW i \in Interval
        PROVE  record[<<<<i.sat, i.st>>, i.en>>] = i /\ <<<<i.sat, i.st>>, i.en>> \in Triples
    BY DEF Interval
  <2> HIDE DEF record, Triples
  <2> QED BY <2>1
<1> HIDE DEF record, Triples
<1>4. record \in Surjection(Triples, Interval)
  BY <1>2, <1>3 DEF Surjection
<1>5. IsFiniteSet(Interval)
  BY <1>1, <1>4, FS_Surjection
<1> QED BY <1>5, FS_Subset, FS_CardinalityType

LEMMA BeforeIsOrder ==
    ASSUME NEW i \in Interval, NEW j \in Interval
    PROVE  /\ Before(i, j) => ~Before(j, i)
           /\ i # j => Before(i, j) \/ Before(j, i)
           /\ \A k \in Interval : Before(i, j) /\ Before(j, k) => Before(i, k)
<1> USE IntervalsAssumption
<1>1. \A k \in Interval : k.sat \in Int /\ k.st \in Int /\ k.en \in Int
  BY DEF Interval, Sats, Times
<1>2. Before(i, j) => ~Before(j, i)
  BY <1>1 DEF Before
<1>3. \A k \in Interval : Before(i, j) /\ Before(j, k) => Before(i, k)
  BY <1>1 DEF Before
<1>4. ASSUME ~Before(i, j), ~Before(j, i)
      PROVE  i = j
  <2>1. i.sat = j.sat /\ i.st = j.st /\ i.en = j.en
    BY <1>1, <1>4 DEF Before
  <2> QED BY <2>1 DEF Interval
<1> QED BY <1>2, <1>3, <1>4

\* Two intervals with as many intervals before them are one.
LEMMA OneAtEachPlace ==
    ASSUME NEW S \in SUBSET Interval, NEW i \in S, NEW j \in S,
           Cardinality({k \in S : Before(k, i)}) = Cardinality({k \in S : Before(k, j)})
    PROVE  i = j
<1> DEFINE Earlier(x) == {k \in S : Before(k, x)}
<1>1. ASSUME NEW x \in S, NEW y \in S, Before(x, y)
      PROVE  Cardinality(Earlier(x)) < Cardinality(Earlier(y))
  <2>1. x \in Earlier(y) /\ x \notin Earlier(x)
    BY <1>1, BeforeIsOrder
  <2>2. Earlier(x) \cup {x} \subseteq Earlier(y)
    BY <1>1, <2>1, BeforeIsOrder
  <2>3. IsFiniteSet(Earlier(x)) /\ IsFiniteSet(Earlier(y)) /\ Cardinality(Earlier(x)) \in Nat
        /\ Cardinality(Earlier(y)) \in Nat
    BY FiniteIntervals
  <2> HIDE DEF Earlier
  <2>4. Cardinality(Earlier(x) \cup {x}) = Cardinality(Earlier(x)) + 1
    BY <2>1, <2>3, FS_AddElement
  <2>5. Cardinality(Earlier(x) \cup {x}) <= Cardinality(Earlier(y))
    BY <2>2, <2>3, FS_Subset
  <2> QED BY <2>3, <2>4, <2>5
<1>2. \A x \in S : Cardinality(Earlier(x)) \in Nat
  BY FiniteIntervals
<1>3. Cardinality(Earlier(i)) = Cardinality(Earlier(j))
  OBVIOUS
<1>4. i # j => Before(i, j) \/ Before(j, i)
  BY BeforeIsOrder
<1> HIDE DEF Earlier
<1> QED BY <1>1, <1>2, <1>3, <1>4

\* The arrays best and hops, and when an iteration from i changes the entry of j.
Arrays(S) == [best : [S -> 0 .. INF], hops : [S -> Nat]]

Taken(acc, i, j, planes, requirement) ==
    /\ acc.best[i] # NoPath /\ Before(i, j) /\ MayHandOver(i, j, planes, requirement)
    /\ acc.best[j] = NoPath \/ Least(acc.best[i], Overlap(i, j)) > acc.best[j]

\* The intervals of T are the first of the sorted intervals of S.
AreFirst(T, S) ==
    /\ \A n \in 1 .. Cardinality(T) : InOrder(S)[n] \in T
    /\ \A i \in T : \E n \in 1 .. Cardinality(T) : InOrder(S)[n] = i
    /\ \A n, m \in 1 .. Cardinality(T) : n < m => Before(InOrder(S)[n], InOrder(S)[m])

\* f is the arrays after each of n iterations.
Relaxes(f, n, S, planes, requirement) ==
    /\ f \in [0 .. n -> Arrays(S)] /\ f[0] = Sources(S)
    /\ \A k \in 1 .. n : f[k] = RelaxFrom(f[k - 1], InOrder(S)[k], planes, requirement)

LEMMA OverlapType ==
    ASSUME NEW i \in Interval, NEW j \in Interval
    PROVE  Overlap(i, j) \in Int /\ Overlap(i, j) <= NTime
<1>1. /\ i.st \in Nat /\ i.en \in Nat /\ i.en <= NTime - 1
      /\ j.st \in Nat /\ j.en \in Nat /\ j.en <= NTime - 1
  BY IntervalsAssumption DEF Interval, Times
<1> QED BY IntervalsAssumption, <1>1 DEF Overlap, Least, Most

LEMMA OverlapInRange ==
    ASSUME NEW i \in Interval, NEW j \in Interval, NEW planes, NEW requirement \in Requirement,
           MayHandOver(i, j, planes, requirement)
    PROVE  Overlap(i, j) \in 1 .. NTime
<1> USE IntervalsAssumption
<1>1. /\ i.st \in Nat /\ i.en \in Nat /\ i.en <= NTime - 1
      /\ j.st \in Nat /\ j.en \in Nat /\ j.en <= NTime - 1
  BY DEF Interval, Times
<1>2. requirement.min_overlap_steps \in Int
  BY DEF Requirement
<1>3. Overlap(i, j) >= 1
  BY <1>1, <1>2 DEF MayHandOver, ThresholdOf, Overlap, Least, Most
<1> QED BY <1>3, OverlapType

LEMMA IterationOf ==
    ASSUME NEW S \in SUBSET Interval, NEW acc \in Arrays(S), NEW i \in S, NEW planes,
           NEW requirement \in Requirement
    PROVE  LET new == RelaxFrom(acc, i, planes, requirement)
           IN  /\ new \in Arrays(S)
               /\ \A j \in S : IF Taken(acc, i, j, planes, requirement)
                               THEN /\ new.best[j] = Least(acc.best[i], Overlap(i, j))
                                    /\ new.hops[j] = acc.hops[i] + 1
                                    /\ new.best[j] \in 1 .. NTime
                               ELSE new.best[j] = acc.best[j] /\ new.hops[j] = acc.hops[j]
<1> USE IntervalsAssumption
<1> DEFINE new == RelaxFrom(acc, i, planes, requirement)
           b == [j \in S |-> IF Taken(acc, i, j, planes, requirement)
                             THEN Least(acc.best[i], Overlap(i, j)) ELSE acc.best[j]]
           h == [j \in S |-> IF Taken(acc, i, j, planes, requirement)
                             THEN acc.hops[i] + 1 ELSE acc.hops[j]]
<1>1. new = [best |-> b, hops |-> h]
  BY DEF RelaxFrom, Taken, Arrays
<1>2. acc.best \in [S -> 0 .. INF] /\ acc.hops \in [S -> Nat]
  BY DEF Arrays
<1>3. ASSUME NEW j \in S, Taken(acc, i, j, planes, requirement)
      PROVE  Least(acc.best[i], Overlap(i, j)) \in 1 .. NTime
  <2>1. Overlap(i, j) \in 1 .. NTime
    BY <1>3, OverlapInRange DEF Taken
  <2>2. acc.best[i] \in 0 .. INF /\ acc.best[i] # 0
    BY <1>2, <1>3 DEF Taken, NoPath
  <2> QED BY <2>1, <2>2 DEF Least, INF
<1>4. b \in [S -> 0 .. INF]
  <2>1. \A j \in S : (IF Taken(acc, i, j, planes, requirement)
                      THEN Least(acc.best[i], Overlap(i, j)) ELSE acc.best[j]) \in 0 .. INF
    BY <1>2, <1>3 DEF INF
  <2> QED BY <2>1
<1>5. h \in [S -> Nat]
  <2>1. \A j \in S : (IF Taken(acc, i, j, planes, requirement)
                      THEN acc.hops[i] + 1 ELSE acc.hops[j]) \in Nat
    BY <1>2
  <2> QED BY <2>1
<1>6. new \in Arrays(S)
  BY <1>1, <1>4, <1>5 DEF Arrays
<1> HIDE DEF new
<1>7. \A j \in S : new.best[j] = b[j] /\ new.hops[j] = h[j]
  BY <1>1
<1> QED BY <1>3, <1>6, <1>7 DEF new

LEMMA SourcesType ==
    ASSUME NEW S \in SUBSET Interval
    PROVE  Sources(S) \in Arrays(S)
BY IntervalsAssumption DEF Sources, Arrays, INF, NoPath

\* The function Relaxation has the arrays of its iterations.
LEMMA RelaxationRelaxes ==
    ASSUME NEW S \in SUBSET Interval, AreFirst(S, S), NEW planes, NEW requirement \in Requirement
    PROVE  Relaxes(Relaxation(S, planes, requirement), Cardinality(S), S, planes, requirement)
<1> DEFINE m == Cardinality(S)
           order == InOrder(S)
           Body(f) == [n \in 0 .. m |-> IF n = 0 THEN Sources(S)
                                        ELSE RelaxFrom(f[n - 1], order[n], planes, requirement)]
           R == Relaxation(S, planes, requirement)
           step == [n \in 1 .. m |-> [a \in Arrays(S) |-> RelaxFrom(a, order[n], planes, requirement)]]
<1>1. m \in Nat
  BY FiniteIntervals
<1>2. \A n \in 1 .. m : order[n] \in S
  BY DEF AreFirst
<1>3. \A n \in 1 .. m, a \in Arrays(S) : RelaxFrom(a, order[n], planes, requirement) \in Arrays(S)
  BY <1>2, IterationOf
<1>4. R = CHOOSE f : f = Body(f)
  BY DEF Relaxation
<1> HIDE DEF m, order, R
<1>5. step \in [1 .. m -> [Arrays(S) -> Arrays(S)]]
  BY <1>3
<1>6. PICK f \in [0 .. m -> Arrays(S)] :
         f[0] = Sources(S) /\ \A n \in 1 .. m : f[n] = step[n][f[n - 1]]
  <2> DEFINE A == Arrays(S)
             base == Sources(S)
  <2>1. base \in A /\ CanStep(m, A, step)
    BY <1>5, SourcesType DEF CanStep
  <2> HIDE DEF step, A, base
  <2>2. HasIterates(m, A, base, step)
    BY <1>1, <2>1, Iterates
  <2> QED BY <2>2 DEF A, base, HasIterates
<1>7. \A n \in 1 .. m : f[n] = RelaxFrom(f[n - 1], order[n], planes, requirement)
  <2> TAKE n \in 1 .. m
  <2>1. f[n - 1] \in Arrays(S)
    BY <1>1, <1>6
  <2> QED BY <1>6, <2>1
<1>8. f = Body(f)
  <2>1. \A n \in 0 .. m : f[n] = IF n = 0 THEN Sources(S)
                                 ELSE RelaxFrom(f[n - 1], order[n], planes, requirement)
    BY <1>1, <1>6, <1>7
  <2>2. f = [n \in 0 .. m |-> f[n]]
    BY <1>6
  <2>3. f = [n \in 0 .. m |-> IF n = 0 THEN Sources(S)
                              ELSE RelaxFrom(f[n - 1], order[n], planes, requirement)]
    BY <2>1, <2>2
  <2> QED BY <2>3
<1>9. R = Body(R)
  <2> HIDE DEF Body
  <2> QED BY <1>4, <1>8
<1>10. R[0] = Sources(S) /\ \A n \in 1 .. m : R[n] = RelaxFrom(R[n - 1], order[n], planes, requirement)
  BY <1>1, <1>9
<1>11. R = [n \in 0 .. m |-> R[n]]
  BY <1>9
<1>12. 0 .. m \subseteq {n \in 0 .. m : R[n] \in Arrays(S)}
  <2> DEFINE P == {n \in 0 .. m : R[n] \in Arrays(S)}
  <2>1. 0 \in P
    BY <1>1, <1>10, SourcesType
  <2>2. ASSUME NEW n \in 1 .. m, n - 1 \in P
        PROVE  n \in P
    BY <1>1, <1>3, <1>10, <2>2
  <2> HIDE DEF P
  <2>3. 0 .. m \subseteq P
    BY <1>1, <2>1, <2>2, UpTo
  <2> QED BY <2>3 DEF P
<1>13. R \in [0 .. m -> Arrays(S)]
  BY <1>11, <1>12
<1> QED BY <1>10, <1>13 DEF Relaxes, R, m, order

\* There is one such sequence.
LEMMA RelaxesOnce ==
    ASSUME NEW S, NEW n \in Nat, NEW planes, NEW requirement, NEW f, NEW g,
           Relaxes(f, n, S, planes, requirement), Relaxes(g, n, S, planes, requirement)
    PROVE  \A k \in 0 .. n : f[k] = g[k]
<1> DEFINE P == {k \in 0 .. n : f[k] = g[k]}
<1>1. 0 \in P
  BY DEF Relaxes
<1>2. ASSUME NEW k \in 1 .. n, k - 1 \in P
      PROVE  k \in P
  BY <1>2 DEF Relaxes
<1> HIDE DEF P
<1>3. 0 .. n \subseteq P
  BY <1>1, <1>2, UpTo
<1> QED BY <1>3 DEF P

\* The run and the function: the visited intervals are the first of the sorted
\* ones, and the arrays are those after as many iterations.
Visited == ivs \ todo
StepsInv ==
    /\ pc = "relax" => ivs # {}
    /\ pc # "extract" =>
          /\ AreFirst(Visited, ivs)
          /\ \E f : /\ Relaxes(f, Cardinality(Visited), ivs, plane_uid, req)
                    /\ best = f[Cardinality(Visited)].best /\ hops = f[Cardinality(Visited)].hops
    /\ pc = "done" => todo = {} /\ result = mbb_continuity_cell_req(inview, plane_uid, req)

\* The interval that is visited next is the next in order.
LEMMA NextInOrder ==
    ASSUME TypeOK, IInv, NEW i \in ivs, Relax(i)
    PROVE  LET n == Cardinality(Visited)
           IN  /\ n \in Nat /\ n + 1 <= Cardinality(ivs) /\ Cardinality(ivs) \in Nat
               /\ InOrder(ivs)[n + 1] = i /\ i \notin Visited
               /\ Visited' = Visited \cup {i} /\ Cardinality(Visited') = n + 1
               /\ \A j \in ivs : j \in todo \ {i} <=> Before(i, j)
               /\ \A j \in Visited : Before(j, i)
<1> DEFINE n == Cardinality(Visited)
<1>1. /\ pc = "relax" /\ i \in todo /\ \A j \in todo \ {i} : Before(i, j)
      /\ todo' = todo \ {i} /\ ivs' = ivs
  BY DEF Relax
<1>2. ivs \in SUBSET Interval /\ todo \subseteq ivs /\ Visited \in SUBSET Interval
  BY DEF TypeOK, Visited
<1>3. \A j \in Visited : Before(j, i)
  BY <1>1, <1>2 DEF IInv, OrderInv, Visited
<1>4. \A j \in ivs : Before(j, i) => ~Before(i, j)
  BY <1>2, BeforeIsOrder
<1>5. ~Before(i, i)
  BY <1>2, BeforeIsOrder
<1>6. \A j \in ivs : j \in todo \ {i} <=> Before(i, j)
  BY <1>1, <1>2, <1>3, <1>4, <1>5 DEF Visited
<1>7. {j \in ivs : Before(j, i)} = Visited
  BY <1>2, <1>3, <1>4, <1>5, <1>6 DEF Visited
<1>8. /\ IsFiniteSet(ivs) /\ Cardinality(ivs) \in Nat
      /\ IsFiniteSet(Visited) /\ n \in Nat
  BY <1>2, FiniteIntervals
<1>9. Visited' = Visited \cup {i} /\ i \notin Visited
  BY <1>1, <1>2 DEF Visited
<1>10. Cardinality(Visited \cup {i}) = n + 1
  BY <1>8, <1>9, FS_AddElement
<1>11. n + 1 <= Cardinality(ivs)
  <2>1. Visited \cup {i} \subseteq ivs
    BY DEF Visited
  <2>2. Cardinality(Visited \cup {i}) <= Cardinality(ivs)
    BY <1>8, <2>1, FS_Subset
  <2> QED BY <1>10, <2>2
<1>12. InOrder(ivs)[n + 1] = i
  <2> DEFINE Count(x) == Cardinality({j \in ivs : Before(j, x)})
  <2>1. PICK m \in 1 .. Cardinality(ivs) : m = n + 1
    BY <1>8, <1>11
  <2>2. InOrder(ivs)[m] = CHOOSE x \in ivs : Count(x) = m - 1
    BY DEF InOrder
  <2>3. Count(i) = m - 1
    BY <1>7, <1>8, <2>1
  <2>4. \A x \in ivs : Count(x) = Count(i) => x = i
    BY <1>2, OneAtEachPlace
  <2> HIDE DEF Count, n
  <2>5. InOrder(ivs)[m] \in ivs /\ Count(InOrder(ivs)[m]) = m - 1
    BY <2>2, <2>3
  <2> QED BY <2>1, <2>3, <2>4, <2>5
<1> QED BY <1>3, <1>6, <1>8, <1>9, <1>10, <1>11, <1>12

LEMMA StepsExtract ==
    ASSUME TypeOK, Extract
    PROVE  StepsInv'
<1> DEFINE f == [k \in 0 .. 0 |-> Sources(ivs')]
<1>1. /\ ivs' = intervals_from_inview(inview) /\ todo' = ivs'
      /\ best' = [i \in ivs' |-> IF i.st <= 0 THEN INF ELSE NoPath] /\ hops' = [i \in ivs' |-> 0]
      /\ inview' = inview /\ plane_uid' = plane_uid /\ req' = req
      /\ IF ivs' = {} THEN pc' = "done" /\ result' = InfeasibleVerdict(NTime) ELSE pc' = "relax"
  BY DEF Extract, inputs
<1>2. ivs' \in SUBSET Interval
  BY <1>1 DEF intervals_from_inview
<1>3. Visited' = {} /\ Cardinality(Visited') = 0
  <2>1. Visited' = {}
    BY <1>1 DEF Visited
  <2> QED BY <2>1, FS_EmptySet
<1>4. AreFirst(Visited, ivs)'
  BY <1>3 DEF AreFirst
<1>5. /\ best' = f[0].best /\ hops' = f[0].hops
  BY <1>1 DEF Sources
<1>6. Relaxes(f, 0, ivs', plane_uid', req')
  <2>1. Sources(ivs') \in Arrays(ivs')
    BY <1>2, SourcesType
  <2> QED BY <2>1 DEF Relaxes
<1>7. pc' = "done" => result' = mbb_continuity_cell_req(inview', plane_uid', req') /\ todo' = {}
  <2> SUFFICES ASSUME pc' = "done"
               PROVE  result' = mbb_continuity_cell_req(inview', plane_uid', req') /\ todo' = {}
    OBVIOUS
  <2>1. intervals_from_inview(inview') = {} /\ result' = InfeasibleVerdict(NTime)
    BY <1>1
  <2> QED BY <1>1, <2>1 DEF mbb_continuity_cell_req
<1>8. (\E g : /\ Relaxes(g, Cardinality(Visited), ivs, plane_uid, req)
              /\ best = g[Cardinality(Visited)].best /\ hops = g[Cardinality(Visited)].hops)'
  <2> HIDE DEF f
  <2> QED BY <1>3, <1>5, <1>6
<1> QED BY <1>1, <1>4, <1>7, <1>8 DEF StepsInv

LEMMA StepsRelax ==
    ASSUME TypeOK, IInv, StepsInv, NEW i \in ivs, Relax(i)
    PROVE  StepsInv'
<1> DEFINE n == Cardinality(Visited)
           order == InOrder(ivs)
<1>1. /\ pc = "relax" /\ pc' = "relax" /\ ivs' = ivs /\ plane_uid' = plane_uid /\ req' = req
      /\ best' = [j \in ivs |-> IF Improves(i, j) THEN Cand(i, j) ELSE best[j]]
      /\ hops' = [j \in ivs |-> IF Improves(i, j) THEN hops[i] + 1 ELSE hops[j]]
  BY DEF Relax, inputs
<1>2. /\ n \in Nat /\ order[n + 1] = i
      /\ Visited' = Visited \cup {i} /\ Cardinality(Visited') = n + 1
      /\ \A j \in ivs : j \in todo \ {i} <=> Before(i, j)
      /\ \A j \in Visited : Before(j, i)
  BY NextInOrder
<1>3. AreFirst(Visited, ivs)
  BY <1>1 DEF StepsInv
<1>4. PICK f : Relaxes(f, n, ivs, plane_uid, req) /\ best = f[n].best /\ hops = f[n].hops
  BY <1>1 DEF StepsInv
<1> HIDE DEF n, order
<1>5. AreFirst(Visited', ivs)
  <2>1. /\ \A k \in 1 .. n : order[k] \in Visited
        /\ \A j \in Visited : \E k \in 1 .. n : order[k] = j
        /\ \A k, l \in 1 .. n : k < l => Before(order[k], order[l])
    BY <1>3 DEF AreFirst, n, order
  <2>2. \A k \in 1 .. n + 1 : order[k] \in Visited'
    BY <1>2, <2>1
  <2>3. \A j \in Visited' : \E k \in 1 .. n + 1 : order[k] = j
    BY <1>2, <2>1
  <2>4. \A k, l \in 1 .. n + 1 : k < l => Before(order[k], order[l])
    <3> TAKE k, l \in 1 .. n + 1
    <3> HAVE k < l
    <3>1. CASE l = n + 1
      <4>1. order[k] \in Visited
        BY <1>2, <2>1, <3>1
      <4> QED BY <1>2, <3>1, <4>1
    <3>2. CASE l # n + 1
      BY <1>2, <2>1, <3>2
    <3> QED BY <3>1, <3>2
  <2> QED BY <1>2, <2>2, <2>3, <2>4 DEF AreFirst, order
<1>6. f[n] \in Arrays(ivs) /\ f[n] = [best |-> best, hops |-> hops]
  BY <1>2, <1>4 DEF Relaxes, Arrays
<1>7. RelaxFrom(f[n], i, plane_uid, req) = [best |-> best', hops |-> hops']
  <2>1. \A j \in ivs : Improves(i, j) <=> Taken(f[n], i, j, plane_uid, req)
    BY <1>2, <1>6 DEF Improves, Taken, Handover, Cand
  <2>2. RelaxFrom(f[n], i, plane_uid, req) =
           [best |-> [j \in ivs |-> IF Taken(f[n], i, j, plane_uid, req) THEN Cand(i, j) ELSE best[j]],
            hops |-> [j \in ivs |-> IF Taken(f[n], i, j, plane_uid, req) THEN hops[i] + 1 ELSE hops[j]]]
    BY <1>6 DEF RelaxFrom, Taken, Arrays, Cand
  <2> QED BY <1>1, <2>1, <2>2
<1> DEFINE g == [k \in 0 .. n + 1 |-> IF k = n + 1 THEN RelaxFrom(f[n], i, plane_uid, req) ELSE f[k]]
<1>8. Relaxes(g, n + 1, ivs, plane_uid, req)
  <2>1. RelaxFrom(f[n], i, plane_uid, req) \in Arrays(ivs)
    <3>1. ivs \in SUBSET Interval /\ req \in Requirement
      BY DEF TypeOK
    <3> QED BY <1>6, <3>1, IterationOf
  <2>2. f \in [0 .. n -> Arrays(ivs)] /\ f[0] = Sources(ivs)
        /\ \A k \in 1 .. n : f[k] = RelaxFrom(f[k - 1], order[k], plane_uid, req)
    BY <1>4 DEF Relaxes, order
  <2>3. g \in [0 .. n + 1 -> Arrays(ivs)] /\ g[0] = Sources(ivs)
    BY <1>2, <2>1, <2>2
  <2>4. \A k \in 1 .. n + 1 : g[k] = RelaxFrom(g[k - 1], order[k], plane_uid, req)
    <3> TAKE k \in 1 .. n + 1
    <3>1. g[k - 1] = f[k - 1]
      BY <1>2
    <3>2. CASE k = n + 1
      BY <1>2, <3>1, <3>2
    <3>3. CASE k # n + 1
      <4>1. k \in 1 .. n /\ g[k] = f[k]
        BY <1>2, <3>3
      <4> HIDE DEF g
      <4> QED BY <2>2, <3>1, <4>1
    <3> QED BY <3>2, <3>3
  <2> HIDE DEF g
  <2> QED BY <2>3, <2>4 DEF Relaxes, order
<1>9. g[n + 1] = [best |-> best', hops |-> hops']
  BY <1>2, <1>7
<1> HIDE DEF g
<1>10. best' = g[n + 1].best /\ hops' = g[n + 1].hops
  BY <1>9
<1> QED BY <1>1, <1>2, <1>5, <1>8, <1>10 DEF StepsInv

\* When every interval is visited the arrays are those of the function.
LEMMA ArraysOfFunction ==
    ASSUME TypeOK, StepsInv, pc # "extract", todo = {}
    PROVE  /\ AreFirst(ivs, ivs)
           /\ Relaxation(ivs, plane_uid, req)[Cardinality(ivs)].best = best
           /\ Relaxation(ivs, plane_uid, req)[Cardinality(ivs)].hops = hops
<1> DEFINE n == Cardinality(ivs)
           R == Relaxation(ivs, plane_uid, req)
<1>1. Visited = ivs
  BY DEF Visited
<1>2. AreFirst(ivs, ivs)
  BY <1>1 DEF StepsInv
<1>3. PICK f : Relaxes(f, n, ivs, plane_uid, req) /\ best = f[n].best /\ hops = f[n].hops
  BY <1>1 DEF StepsInv
<1>4. ivs \in SUBSET Interval /\ req \in Requirement
  BY DEF TypeOK
<1>5. n \in Nat
  BY <1>4, FiniteIntervals
<1>6. Relaxes(R, n, ivs, plane_uid, req)
  BY <1>2, <1>4, RelaxationRelaxes
<1> HIDE DEF n, R
<1>7. R[n] = f[n]
  BY <1>3, <1>5, <1>6, RelaxesOnce
<1> QED BY <1>2, <1>3, <1>7 DEF n, R

LEMMA StepsDone ==
    ASSUME TypeOK, IInv, StepsInv, Infeasible \/ \E g \in ivs : Feasible(g)
    PROVE  StepsInv'
<1>1. /\ pc = "relax" /\ todo = {} /\ pc' = "done"
      /\ ivs' = ivs /\ todo' = todo /\ best' = best /\ hops' = hops
      /\ inview' = inview /\ plane_uid' = plane_uid /\ req' = req
  BY DEF Infeasible, Feasible, inputs
<1> DEFINE relaxed == Relaxation(ivs, plane_uid, req)[Cardinality(ivs)]
<1>2. /\ relaxed.best = best /\ relaxed.hops = hops
  BY <1>1, ArraysOfFunction
<1>3. ivs # {} /\ ivs = intervals_from_inview(inview)
  BY <1>1 DEF StepsInv, IInv, IntervalsInv
<1> DEFINE goals == {i \in ivs : relaxed.best[i] # NoPath /\ i.en >= NTime - 1}
<1>4. goals = Goals
  BY <1>2 DEF Goals
<1>5. mbb_continuity_cell_req(inview, plane_uid, req) =
         IF Goals = {} THEN InfeasibleVerdict(merged_worst_gap_steps(ivs))
         ELSE FeasibleVerdict(best[BestGoal(Goals, best)], hops[BestGoal(Goals, best)])
  BY <1>2, <1>3, <1>4 DEF mbb_continuity_cell_req
<1>6. result' = mbb_continuity_cell_req(inview, plane_uid, req)
  <2>1. CASE Infeasible
    BY <1>5, <2>1 DEF Infeasible
  <2>2. ASSUME NEW g \in ivs, Feasible(g)
        PROVE  result' = mbb_continuity_cell_req(inview, plane_uid, req)
    <3>1. IsBestGoal(g) /\ result' = FeasibleVerdict(best[g], hops[g])
      BY <2>2 DEF Feasible
    <3> DEFINE Beats(x, y) == best[x] > best[y] \/ (best[x] = best[y] /\ Before(x, y))
    <3>2. g \in Goals /\ \A h \in Goals \ {g} : Beats(g, h)
      BY <3>1 DEF IsBestGoal
    <3>3. BestGoal(Goals, best) = CHOOSE x \in Goals : \A h \in Goals \ {x} : Beats(x, h)
      BY DEF BestGoal
    <3>4. Goals \subseteq Interval /\ \A x \in Goals : best[x] \in Int
      BY <1>1 DEF Goals, TypeOK, INF
    <3>5. ASSUME NEW x \in Goals, \A h \in Goals \ {x} : Beats(x, h), x # g
          PROVE  FALSE
      <4>1. Beats(x, g) /\ Beats(g, x)
        BY <3>2, <3>5
      <4>2. ~(Before(x, g) /\ Before(g, x))
        BY <3>2, <3>4, BeforeIsOrder
      <4>3. best[x] \in Int /\ best[g] \in Int
        BY <3>2, <3>4
      <4> QED BY <4>1, <4>2, <4>3
    <3> HIDE DEF Beats
    <3>6. BestGoal(Goals, best) = g
      BY <3>2, <3>3, <3>5
    <3> QED BY <1>5, <3>1, <3>2, <3>6
  <2> QED BY <2>1, <2>2
<1>7. (AreFirst(Visited, ivs))' = AreFirst(Visited, ivs) /\ Visited' = Visited
  BY <1>1 DEF AreFirst, Visited
<1>8. /\ AreFirst(Visited, ivs)
      /\ \E f : /\ Relaxes(f, Cardinality(Visited), ivs, plane_uid, req)
                /\ best = f[Cardinality(Visited)].best /\ hops = f[Cardinality(Visited)].hops
  BY <1>1 DEF StepsInv
<1>9. (\E f : /\ Relaxes(f, Cardinality(Visited), ivs, plane_uid, req)
              /\ best = f[Cardinality(Visited)].best /\ hops = f[Cardinality(Visited)].hops)'
  BY <1>1, <1>7, <1>8
<1> QED BY <1>1, <1>6, <1>7, <1>8, <1>9 DEF StepsInv

\* The run computes the function.
LEMMA StepsAlways == Spec => []StepsInv
<1>1. Init => StepsInv
  BY DEF Init, StepsInv
<1>2. TypeOK /\ IInv /\ StepsInv /\ [Next]_vars => StepsInv'
  <2> SUFFICES ASSUME TypeOK, IInv, StepsInv, [Next]_vars
               PROVE  StepsInv'
    OBVIOUS
  <2>1. CASE Extract
    BY <2>1, StepsExtract
  <2>2. ASSUME NEW i \in ivs, Relax(i)
        PROVE  StepsInv'
    BY <2>2, StepsRelax
  <2>3. CASE Infeasible \/ \E g \in ivs : Feasible(g)
    BY <2>3, StepsDone
  <2>4. CASE UNCHANGED vars
    <3>1. /\ ivs' = ivs /\ todo' = todo /\ best' = best /\ hops' = hops /\ pc' = pc
          /\ result' = result /\ inview' = inview /\ plane_uid' = plane_uid /\ req' = req
      BY <2>4 DEF vars
    <3> QED BY <3>1 DEF StepsInv, AreFirst, Visited
  <2> QED BY <2>1, <2>2, <2>3, <2>4 DEF Next
<1> QED BY <1>1, <1>2, TypeCorrect, Inductive, PTL DEF Spec

-----------------------------------------------------------------------------
\* The older form: arrays by position, one edge at a time.
PosArrays(m) == [best : [1 .. m -> 0 .. INF], hops : [1 .. m -> Nat]]

EdgeTaken(acc, o, a, b, thr, different) ==
    /\ acc.best[a] # NoPath /\ o[b].en > o[a].en
    /\ different => o[b].sat # o[a].sat
    /\ Overlap(o[a], o[b]) >= thr
    /\ acc.best[b] = NoPath \/ Least(acc.best[a], Overlap(o[a], o[b])) > acc.best[b]

\* new is acc with the entries of the positions in B that a improves.
Improved(new, acc, o, a, B, m, thr, different) ==
    \A b \in 1 .. m :
        IF b \in B /\ EdgeTaken(acc, o, a, b, thr, different)
        THEN /\ new.best[b] = Least(acc.best[a], Overlap(o[a], o[b]))
             /\ new.hops[b] = acc.hops[a] + 1
        ELSE new.best[b] = acc.best[b] /\ new.hops[b] = acc.hops[b]

LEMMA EdgeEffect ==
    ASSUME NEW m \in Nat, NEW o \in [1 .. m -> Interval], NEW acc \in PosArrays(m),
           NEW a \in 1 .. m, NEW b \in 1 .. m, NEW thr \in Nat \ {0}, NEW different
    PROVE  /\ RelaxEdge(acc, o, a, b, thr, different) \in PosArrays(m)
           /\ Improved(RelaxEdge(acc, o, a, b, thr, different), acc, o, a, {b}, m, thr, different)
<1> USE IntervalsAssumption
<1> DEFINE ov == Overlap(o[a], o[b])
           cand == Least(acc.best[a], ov)
           new == RelaxEdge(acc, o, a, b, thr, different)
<1>1. acc.best \in [1 .. m -> 0 .. INF] /\ acc.hops \in [1 .. m -> Nat]
      /\ acc = [best |-> acc.best, hops |-> acc.hops]
  BY DEF PosArrays
<1>2. ov \in Int /\ ov <= NTime
  BY OverlapType
<1>3. (IF acc.best[a] < ov THEN acc.best[a] ELSE ov) = cand
  BY <1>1, <1>2 DEF Least
<1>4. CASE EdgeTaken(acc, o, a, b, thr, different)
  <2>1. new = [best |-> [acc.best EXCEPT ![b] = cand], hops |-> [acc.hops EXCEPT ![b] = acc.hops[a] + 1]]
    BY <1>3, <1>4 DEF RelaxEdge, EdgeTaken
  <2>2. cand \in 0 .. INF /\ acc.hops[a] + 1 \in Nat
    BY <1>1, <1>2, <1>4, SMTT(30) DEF EdgeTaken, Least, INF, NoPath
  <2> HIDE DEF cand, new
  <2>3. new.best \in [1 .. m -> 0 .. INF] /\ new.hops \in [1 .. m -> Nat]
    BY <1>1, <2>1, <2>2
  <2>4. /\ new.best[b] = cand /\ new.hops[b] = acc.hops[a] + 1
        /\ \A c \in 1 .. m : c # b => new.best[c] = acc.best[c] /\ new.hops[c] = acc.hops[c]
    BY <1>1, <2>1
  <2>5. new \in PosArrays(m)
    BY <2>1, <2>3 DEF PosArrays
  <2>6. Improved(new, acc, o, a, {b}, m, thr, different)
    BY <1>4, <2>4 DEF Improved, cand
  <2> QED BY <2>5, <2>6 DEF new
<1>5. CASE ~EdgeTaken(acc, o, a, b, thr, different)
  <2>1. new = acc
    BY <1>3, <1>5 DEF RelaxEdge, EdgeTaken
  <2> QED BY <1>5, <2>1 DEF Improved
<1> QED BY <1>4, <1>5

\* The inner loop improves every later position, each as of the arrays before it.
LEMMA RowEffect ==
    ASSUME NEW m \in Nat, NEW o \in [1 .. m -> Interval], Len(o) = m, NEW acc \in PosArrays(m),
           NEW a \in 1 .. m, NEW thr \in Nat \ {0}, NEW different
    PROVE  /\ Row(acc, a, o, thr, different) \in PosArrays(m)
           /\ Improved(Row(acc, a, o, thr, different), acc, o, a, a + 1 .. m, m, thr, different)
<1> DEFINE A == PosArrays(m)
           Edge(x, k) == RelaxEdge(x, o, a, k, thr, different)
           Body(f) == [k \in 0 .. m |-> IF k <= a THEN acc ELSE Edge(f[k - 1], k)]
           U == CHOOSE f : f = Body(f)
           step == [k \in 1 .. m |-> [x \in A |-> IF k <= a THEN acc ELSE Edge(x, k)]]
<1>1. Row(acc, a, o, thr, different) = U[m]
  BY DEF Row
<1>2. \A k \in 1 .. m, x \in A : Edge(x, k) \in A /\ Improved(Edge(x, k), x, o, a, {k}, m, thr, different)
  BY EdgeEffect
<1> HIDE DEF Edge
<1>3. acc \in A
  OBVIOUS
<1> HIDE DEF A
<1>4. CanStep(m, A, step)
  BY <1>2, <1>3 DEF CanStep
<1>5. PICK f \in [0 .. m -> A] : f[0] = acc /\ \A k \in 1 .. m : f[k] = step[k][f[k - 1]]
  <2> HIDE DEF step
  <2> QED BY <1>3, <1>4, Iterates DEF HasIterates
<1>6. f = Body(f)
  <2>1. \A k \in 1 .. m : f[k] = IF k <= a THEN acc ELSE Edge(f[k - 1], k)
    <3> TAKE k \in 1 .. m
    <3>1. f[k - 1] \in A
      BY <1>5
    <3> QED BY <1>5, <3>1
  <2>2. \A k \in 0 .. m : f[k] = IF k <= a THEN acc ELSE Edge(f[k - 1], k)
    BY <1>5, <2>1
  <2>3. f = [k \in 0 .. m |-> f[k]]
    BY <1>5
  <2>4. f = [k \in 0 .. m |-> IF k <= a THEN acc ELSE Edge(f[k - 1], k)]
    BY <2>2, <2>3
  <2> QED BY <2>4
<1>7. U = Body(U)
  <2> HIDE DEF Body
  <2> QED BY <1>6
<1> HIDE DEF U
<1>8. \A k \in 0 .. m : U[k] = IF k <= a THEN acc ELSE Edge(U[k - 1], k)
  BY <1>7
<1> DEFINE P == {k \in 0 .. m : U[k] \in A /\ Improved(U[k], acc, o, a, a + 1 .. k, m, thr, different)}
<1>9. 0 \in P
  <2>1. U[0] = acc
    BY <1>8
  <2>2. a + 1 .. 0 = {}
    OBVIOUS
  <2> QED BY <1>3, <2>1, <2>2 DEF Improved
<1>10. ASSUME NEW k \in 1 .. m, k - 1 \in P
       PROVE  k \in P
  <2>1. CASE k <= a
    <3>1. U[k] = acc /\ a + 1 .. k = {}
      BY <1>8, <2>1
    <3> QED BY <1>3, <3>1 DEF Improved
  <2>2. CASE a < k
    <3> DEFINE old == U[k - 1]
               new == U[k]
    <3>1. old \in A /\ Improved(old, acc, o, a, a + 1 .. k - 1, m, thr, different)
      BY <1>10
    <3>2. new = Edge(old, k)
      BY <1>8, <2>2
    <3>3. new \in A /\ Improved(new, old, o, a, {k}, m, thr, different)
      BY <1>2, <3>1, <3>2
    <3> HIDE DEF old, new
    <3>4. /\ old.best[a] = acc.best[a] /\ old.hops[a] = acc.hops[a]
          /\ old.best[k] = acc.best[k] /\ old.hops[k] = acc.hops[k]
      BY <3>1 DEF Improved
    <3>5. EdgeTaken(old, o, a, k, thr, different) <=> EdgeTaken(acc, o, a, k, thr, different)
      BY <3>4 DEF EdgeTaken
    <3>6. ASSUME NEW b \in 1 .. m
          PROVE  IF b \in a + 1 .. k /\ EdgeTaken(acc, o, a, b, thr, different)
                 THEN /\ new.best[b] = Least(acc.best[a], Overlap(o[a], o[b]))
                      /\ new.hops[b] = acc.hops[a] + 1
                 ELSE new.best[b] = acc.best[b] /\ new.hops[b] = acc.hops[b]
      <4>1. CASE b = k
        <5>1. b \in a + 1 .. k
          BY <2>2, <4>1
        <5> QED BY <3>3, <3>4, <3>5, <4>1, <5>1 DEF Improved
      <4>2. CASE b # k
        <5>1. new.best[b] = old.best[b] /\ new.hops[b] = old.hops[b]
          BY <3>3, <4>2 DEF Improved
        <5>2. b \in a + 1 .. k <=> b \in a + 1 .. k - 1
          BY <4>2
        <5> QED BY <3>1, <5>1, <5>2 DEF Improved
      <4> QED BY <4>1, <4>2
    <3>7. Improved(new, acc, o, a, a + 1 .. k, m, thr, different)
      BY <3>6 DEF Improved
    <3> QED BY <3>3, <3>7 DEF new
  <2> QED BY <2>1, <2>2
<1> HIDE DEF P
<1>11. 0 .. m \subseteq P
  BY <1>9, <1>10, UpTo
<1>12. m \in P
  BY <1>11
<1> QED BY <1>1, <1>12 DEF P, A

\* new holds at position k what acc holds at the k-th interval.
SameArrays(new, acc, S) ==
    /\ new \in PosArrays(Cardinality(S))
    /\ \A k \in 1 .. Cardinality(S) : /\ new.best[k] = acc.best[InOrder(S)[k]]
                                      /\ new.hops[k] = acc.hops[InOrder(S)[k]]

\* The sorted list, and its order.
LEMMA SortedList ==
    ASSUME NEW S \in SUBSET Interval, AreFirst(S, S)
    PROVE  LET m == Cardinality(S)
               o == InOrder(S)
           IN  /\ m \in Nat /\ Len(o) = m /\ DOMAIN o = 1 .. m
               /\ o \in [1 .. m -> S] /\ o \in [1 .. m -> Interval]
               /\ \A i \in S : \E n \in 1 .. m : o[n] = i
               /\ \A n, k \in 1 .. m : Before(o[n], o[k]) <=> n < k
<1> DEFINE m == Cardinality(S)
           o == InOrder(S)
<1>1. m \in Nat
  BY FiniteIntervals
<1>2. o = [n \in 1 .. m |-> o[n]] /\ DOMAIN o = 1 .. m
  <2> DEFINE F(n) == CHOOSE i \in S : Cardinality({j \in S : Before(j, i)}) = n - 1
  <2>1. o = [n \in 1 .. m |-> F(n)]
    BY DEF InOrder
  <2> HIDE DEF F, m, o
  <2> QED BY <2>1
<1>3. /\ \A n \in 1 .. m : o[n] \in S
      /\ \A i \in S : \E n \in 1 .. m : o[n] = i
      /\ \A n, k \in 1 .. m : n < k => Before(o[n], o[k])
  BY DEF AreFirst
<1> HIDE DEF m, o
<1>4. o \in [1 .. m -> S] /\ o \in [1 .. m -> Interval]
  BY <1>2, <1>3
<1>5. o \in Seq(S)
  BY <1>1, <1>4
<1>6. Len(o) = m
  BY <1>1, <1>2, <1>5
<1>7. ASSUME NEW n \in 1 .. m, NEW k \in 1 .. m, Before(o[n], o[k]), ~(n < k)
      PROVE  FALSE
  <2>1. o[n] \in Interval /\ o[k] \in Interval
    BY <1>4
  <2>2. n = k \/ k < n
    BY <1>1, <1>7
  <2>3. Before(o[k], o[n])
    BY <1>3, <1>7, <2>2
  <2> QED BY <1>7, <2>1, <2>3, BeforeIsOrder
<1> QED BY <1>1, <1>2, <1>3, <1>4, <1>6, <1>7 DEF m, o

\* One iteration of the outer loop, in both forms.
LEMMA RowIsIteration ==
    ASSUME NEW S \in SUBSET Interval, AreFirst(S, S), NEW planes, NEW requirement \in Requirement,
           ~requirement.require_different_plane,
           NEW p, NEW acc \in Arrays(S), SameArrays(p, acc, S), NEW n \in 1 .. Cardinality(S)
    PROVE  SameArrays(Row(p, n, InOrder(S), ThresholdOf(requirement), requirement.require_different_sat),
                      RelaxFrom(acc, InOrder(S)[n], planes, requirement), S)
<1> DEFINE m == Cardinality(S)
           o == InOrder(S)
           thr == ThresholdOf(requirement)
           different == requirement.require_different_sat
           row == Row(p, n, o, thr, different)
           new == RelaxFrom(acc, o[n], planes, requirement)
<1>1. /\ m \in Nat /\ Len(o) = m
      /\ o \in [1 .. m -> S] /\ o \in [1 .. m -> Interval]
      /\ \A k, l \in 1 .. m : Before(o[k], o[l]) <=> k < l
  BY SortedList
<1>2. thr \in Nat \ {0}
  <2>1. requirement.min_overlap_steps \in Int
    BY DEF Requirement
  <2> QED BY <2>1 DEF ThresholdOf, Most
<1>3. /\ p \in PosArrays(m)
      /\ \A k \in 1 .. m : p.best[k] = acc.best[o[k]] /\ p.hops[k] = acc.hops[o[k]]
  BY DEF SameArrays
<1>4. n \in 1 .. m
  OBVIOUS
<1> HIDE DEF m, o, thr
<1>5. row \in PosArrays(m) /\ Improved(row, p, o, n, n + 1 .. m, m, thr, different)
  BY <1>1, <1>2, <1>3, <1>4, RowEffect
<1>6. \A k \in 1 .. m :
         IF Taken(acc, o[n], o[k], planes, requirement)
         THEN /\ new.best[o[k]] = Least(acc.best[o[n]], Overlap(o[n], o[k]))
              /\ new.hops[o[k]] = acc.hops[o[n]] + 1
         ELSE new.best[o[k]] = acc.best[o[k]] /\ new.hops[o[k]] = acc.hops[o[k]]
  <2>1. o[n] \in S /\ \A k \in 1 .. m : o[k] \in S
    BY <1>1, <1>4
  <2> QED BY <2>1, IterationOf
<1>7. ASSUME NEW k \in 1 .. m
      PROVE  Taken(acc, o[n], o[k], planes, requirement)
             <=> k \in n + 1 .. m /\ EdgeTaken(p, o, n, k, thr, different)
  <2>1. k \in n + 1 .. m <=> Before(o[n], o[k])
    BY <1>1, <1>4
  <2>2. p.best[n] = acc.best[o[n]] /\ p.best[k] = acc.best[o[k]]
    BY <1>3, <1>4
  <2>3. MayHandOver(o[n], o[k], planes, requirement) <=>
           /\ o[k].en > o[n].en
           /\ different => o[k].sat # o[n].sat
           /\ Overlap(o[n], o[k]) >= thr
    BY DEF MayHandOver, thr
  <2> QED BY <2>1, <2>2, <2>3 DEF Taken, EdgeTaken
<1> HIDE DEF row, new
<1>8. ASSUME NEW k \in 1 .. m
      PROVE  row.best[k] = new.best[o[k]] /\ row.hops[k] = new.hops[o[k]]
  <2>1. p.best[k] = acc.best[o[k]] /\ p.hops[k] = acc.hops[o[k]]
    BY <1>3
  <2>2. p.best[n] = acc.best[o[n]] /\ p.hops[n] = acc.hops[o[n]]
    BY <1>3, <1>4
  <2> QED BY <1>5, <1>6, <1>7, <2>1, <2>2 DEF Improved
<1> QED BY <1>5, <1>8 DEF SameArrays, row, new, o, m, thr

\* The arrays of the older form are those of the other, at the sorted positions.
LEMMA RelaxedByPosition ==
    ASSUME NEW S \in SUBSET Interval, AreFirst(S, S), NEW planes, NEW requirement \in Requirement,
           ~requirement.require_different_plane
    PROVE  SameArrays(Relaxed(InOrder(S), ThresholdOf(requirement), requirement.require_different_sat),
                      Relaxation(S, planes, requirement)[Cardinality(S)], S)
<1> DEFINE m == Cardinality(S)
           o == InOrder(S)
           thr == ThresholdOf(requirement)
           different == requirement.require_different_sat
           start == [best |-> [k \in 1 .. m |-> IF o[k].st <= 0 THEN INF ELSE NoPath],
                     hops |-> [k \in 1 .. m |-> 0]]
           NextRow(x, n) == Row(x, n, o, thr, different)
           Body(f) == [n \in 0 .. m |-> IF n = 0 THEN start ELSE NextRow(f[n - 1], n)]
           U == CHOOSE f : f = Body(f)
           A == PosArrays(m)
           step == [n \in 1 .. m |-> [x \in A |-> NextRow(x, n)]]
           R == Relaxation(S, planes, requirement)
<1>1. /\ m \in Nat /\ Len(o) = m
      /\ o \in [1 .. m -> S] /\ o \in [1 .. m -> Interval]
  BY SortedList
<1>2. Relaxed(o, thr, different) = U[m]
  <2> HIDE DEF o, m, thr
  <2>1. Len(o) = m
    BY <1>1
  <2> QED BY <2>1 DEF Relaxed
<1>3. Relaxes(R, m, S, planes, requirement)
  BY RelaxationRelaxes
<1>4. \A n \in 1 .. m, p \in A, acc \in Arrays(S) :
         SameArrays(p, acc, S) =>
             SameArrays(NextRow(p, n), RelaxFrom(acc, o[n], planes, requirement), S)
  BY RowIsIteration
<1>5. thr \in Nat \ {0}
  <2>1. requirement.min_overlap_steps \in Int
    BY DEF Requirement
  <2> QED BY <2>1 DEF ThresholdOf, Most
<1> HIDE DEF m, o, thr
<1>6. \A n \in 1 .. m, p \in A : NextRow(p, n) \in A
  BY <1>1, <1>5, RowEffect
<1>7. start \in A
  <2>1. INF \in 0 .. INF /\ NoPath \in 0 .. INF
    BY IntervalsAssumption DEF INF, NoPath
  <2> QED BY <2>1 DEF PosArrays
<1> HIDE DEF NextRow, A
<1>8. CanStep(m, A, step)
  BY <1>6 DEF CanStep
<1> HIDE DEF start
<1>9. PICK f \in [0 .. m -> A] : f[0] = start /\ \A n \in 1 .. m : f[n] = step[n][f[n - 1]]
  <2> HIDE DEF step
  <2> QED BY <1>1, <1>7, <1>8, Iterates, SMTT(30) DEF HasIterates
<1>10. f = Body(f)
  <2>1. \A n \in 1 .. m : f[n] = NextRow(f[n - 1], n)
    <3> TAKE n \in 1 .. m
    <3>1. f[n - 1] \in A
      BY <1>1, <1>9
    <3> QED BY <1>9, <3>1
  <2>2. \A n \in 0 .. m : f[n] = IF n = 0 THEN start ELSE NextRow(f[n - 1], n)
    BY <1>1, <1>9, <2>1
  <2>3. f = [n \in 0 .. m |-> f[n]]
    BY <1>9
  <2>4. f = [n \in 0 .. m |-> IF n = 0 THEN start ELSE NextRow(f[n - 1], n)]
    BY <2>2, <2>3
  <2> QED BY <2>4
<1>11. U = Body(U)
  <2> HIDE DEF Body
  <2> QED BY <1>10
<1> HIDE DEF U
<1>12. U[0] = start /\ \A n \in 1 .. m : U[n] = NextRow(U[n - 1], n)
  BY <1>1, <1>11
<1> DEFINE P == {n \in 0 .. m : U[n] \in A /\ SameArrays(U[n], R[n], S)}
<1>13. 0 \in P
  <2>1. R[0] = Sources(S)
    BY <1>3 DEF Relaxes
  <2>2. ASSUME NEW k \in 1 .. m
        PROVE  start.best[k] = Sources(S).best[o[k]] /\ start.hops[k] = Sources(S).hops[o[k]]
    <3>1. o[k] \in S
      BY <1>1
    <3> QED BY <3>1 DEF start, Sources
  <2>3. SameArrays(start, Sources(S), S)
    BY <1>7, <2>2 DEF SameArrays, A, m, o
  <2> QED BY <1>1, <1>7, <1>12, <2>1, <2>3
<1>14. ASSUME NEW n \in 1 .. m, n - 1 \in P
       PROVE  n \in P
  <2>1. R[n] = RelaxFrom(R[n - 1], o[n], planes, requirement) /\ R[n - 1] \in Arrays(S)
    BY <1>1, <1>3 DEF Relaxes, o
  <2>2. U[n] = NextRow(U[n - 1], n) /\ U[n - 1] \in A /\ SameArrays(U[n - 1], R[n - 1], S)
    BY <1>12, <1>14
  <2>3. U[n] \in A /\ SameArrays(U[n], R[n], S)
    BY <1>4, <1>6, <2>1, <2>2
  <2> QED BY <2>3
<1> HIDE DEF P
<1>15. 0 .. m \subseteq P
  BY <1>1, <1>13, <1>14, UpTo
<1>16. m \in P
  BY <1>1, <1>15
<1> QED BY <1>2, <1>16 DEF P, m, o, thr

-----------------------------------------------------------------------------
\* Among goals there is a best one, and BestGoal is it.
IsBestOf(g, goals, val) ==
    g \in goals /\ \A h \in goals \ {g} : val[g] > val[h] \/ (val[g] = val[h] /\ Before(g, h))

LEMMA BestGoalExists ==
    ASSUME NEW S \in SUBSET Interval, AreFirst(S, S), NEW val \in [S -> 0 .. INF],
           NEW goals \in SUBSET S, goals # {}
    PROVE  IsBestOf(BestGoal(goals, val), goals, val)
<1> DEFINE m == Cardinality(S)
           o == InOrder(S)
           V == {val[g] : g \in goals}
<1>1. /\ m \in Nat /\ o \in [1 .. m -> S]
      /\ \A i \in S : \E n \in 1 .. m : o[n] = i
      /\ \A n, k \in 1 .. m : Before(o[n], o[k]) <=> n < k
  BY SortedList
<1> HIDE DEF m, o
<1>2. INF \in Nat
  BY IntervalsAssumption DEF INF
<1>3. V \in SUBSET Nat /\ V # {} /\ \A v \in V : v <= INF
  BY <1>2
<1>4. PICK v \in V : \A w \in V : w <= v
  <2> HIDE DEF V
  <2> QED BY <1>2, <1>3, GreatestElement
<1> DEFINE K == {k \in 1 .. m : o[k] \in goals /\ val[o[k]] = v}
<1>5. K \in SUBSET Nat /\ K # {}
  <2>1. PICK g \in goals : val[g] = v
    BY <1>4
  <2>2. PICK k \in 1 .. m : o[k] = g
    BY <1>1
  <2> QED BY <2>1, <2>2
<1>6. PICK k \in K : \A l \in K : k <= l
  <2> HIDE DEF K
  <2> QED BY <1>5, LeastElement
<1>7. k \in 1 .. m /\ o[k] \in goals /\ val[o[k]] = v
  OBVIOUS
<1>8. ASSUME NEW h \in goals \ {o[k]}
      PROVE  val[o[k]] > val[h] \/ (val[o[k]] = val[h] /\ Before(o[k], h))
  <2>1. val[h] <= v /\ val[h] \in Nat /\ v \in Nat
    BY <1>3, <1>4
  <2>2. PICK l \in 1 .. m : o[l] = h
    BY <1>1
  <2>3. CASE val[h] = v
    <3>1. l \in K
      BY <2>2, <2>3
    <3>2. k <= l /\ k # l
      BY <1>6, <1>8, <2>2, <3>1
    <3>3. k < l
      BY <1>1, <1>7, <2>2, <3>2
    <3> QED BY <1>1, <1>7, <2>2, <2>3, <3>3
  <2> QED BY <1>7, <2>1, <2>3
<1>9. IsBestOf(o[k], goals, val)
  BY <1>7, <1>8 DEF IsBestOf
<1>10. BestGoal(goals, val) = CHOOSE g : IsBestOf(g, goals, val)
  BY DEF BestGoal, IsBestOf
<1> QED BY <1>9, <1>10

\* Without the plane rule both forms give the same answer.
LEMMA FormsOfTheFreeRequest ==
    ASSUME NEW view, NEW planes, NEW requirement \in Requirement,
           ~requirement.require_different_plane,
           AreFirst(intervals_from_inview(view), intervals_from_inview(view))
    PROVE  SameVerdict(mbb_continuity_cell_req(view, planes, requirement),
                       mbb_continuity_cell(view, requirement.min_overlap_steps,
                                           requirement.require_different_sat))
<1> DEFINE S == intervals_from_inview(view)
           m == Cardinality(S)
           o == InOrder(S)
           p == Relaxed(o, ThresholdOf(requirement), requirement.require_different_sat)
           acc == Relaxation(S, planes, requirement)[m]
           goals == {i \in S : acc.best[i] # NoPath /\ i.en >= NTime - 1}
           places == {k \in DOMAIN o : p.best[k] # NoPath /\ o[k].en >= NTime - 1}
           g == BestGoal(goals, acc.best)
           gi == FirstBest(places, p.best)
           long == mbb_continuity_cell_req(view, planes, requirement)
           short == mbb_continuity_cell(view, requirement.min_overlap_steps,
                                        requirement.require_different_sat)
<1>1. S \in SUBSET Interval
  BY DEF intervals_from_inview
<1>2. long = IF S = {} THEN InfeasibleVerdict(NTime)
             ELSE IF goals = {} THEN InfeasibleVerdict(merged_worst_gap_steps(S))
             ELSE FeasibleVerdict(acc.best[g], acc.hops[g])
  BY DEF mbb_continuity_cell_req
<1>3. short = IF places = {} THEN InfeasibleVerdict(NA)
              ELSE [FeasibleVerdict(p.best[gi], p.hops[gi]) EXCEPT !.worst_gap_steps = NA]
  BY DEF mbb_continuity_cell, ThresholdOf
<1> HIDE DEF S, long, short
<1>4. /\ m \in Nat /\ DOMAIN o = 1 .. m /\ o \in [1 .. m -> S]
      /\ \A i \in S : \E n \in 1 .. m : o[n] = i
      /\ \A n, k \in 1 .. m : Before(o[n], o[k]) <=> n < k
  BY <1>1, SortedList DEF S
<1>5. SameArrays(p, acc, S)
  BY <1>1, RelaxedByPosition DEF S
<1>6. acc \in Arrays(S)
  <2>1. Relaxes(Relaxation(S, planes, requirement), m, S, planes, requirement)
    BY <1>1, RelaxationRelaxes DEF S
  <2> HIDE DEF m
  <2> QED BY <1>4, <2>1 DEF Relaxes
<1>7. \A k \in 1 .. m : p.best[k] = acc.best[o[k]] /\ p.hops[k] = acc.hops[o[k]]
  BY <1>5 DEF SameArrays
<1> HIDE DEF m, o, p, acc
<1>8. \A k \in 1 .. m : k \in places <=> o[k] \in goals
  BY <1>4, <1>7
<1>9. places \subseteq 1 .. m /\ goals \subseteq S
  BY <1>4
<1> HIDE DEF places, goals
<1>10. CASE goals = {}
  <2>1. places = {}
    BY <1>8, <1>9, <1>10
  <2>2. PICK gap : long = InfeasibleVerdict(gap)
    BY <1>2, <1>10
  <2>3. short = InfeasibleVerdict(NA)
    BY <1>3, <2>1
  <2>4. SameVerdict(long, short)
    <3> HIDE DEF long, short
    <3> QED BY <2>2, <2>3 DEF SameVerdict, InfeasibleVerdict
  <2> QED BY <2>4 DEF long, short
<1>11. CASE goals # {}
  <2>1. acc.best \in [S -> 0 .. INF]
    BY <1>6 DEF Arrays
  <2>2. IsBestOf(g, goals, acc.best)
    BY <1>1, <1>9, <1>11, <2>1, BestGoalExists DEF S
  <2>3. g \in goals /\ \A h \in goals \ {g} :
           acc.best[g] > acc.best[h] \/ (acc.best[g] = acc.best[h] /\ Before(g, h))
    BY <2>2 DEF IsBestOf
  <2>4. INF \in Nat /\ \A i \in S : acc.best[i] \in Nat
    BY <2>1, IntervalsAssumption DEF INF
  <2> HIDE DEF g
  <2>5. PICK k \in 1 .. m : o[k] = g
    BY <1>4, <1>9, <2>3
  <2> DEFINE IsFirst(a) == /\ \A l \in places : p.best[l] <= p.best[a]
                           /\ \A l \in places : l < a => p.best[l] < p.best[a]
  <2>6. k \in places
    BY <1>8, <2>3, <2>5
  <2>7. ASSUME NEW l \in places
        PROVE  p.best[l] <= p.best[k] /\ (l < k => p.best[l] < p.best[k])
    <3>1. l \in 1 .. m /\ o[l] \in goals /\ o[l] \in S
      BY <1>4, <1>8, <1>9
    <3>2. p.best[l] = acc.best[o[l]] /\ p.best[k] = acc.best[g] /\ g \in S
      BY <1>7, <1>9, <2>3, <2>5, <3>1
    <3>3. CASE o[l] = g
      <4>1. ~Before(o[l], o[k])
        <5>1. g \in Interval
          BY <1>1, <3>2
        <5> QED BY <2>5, <3>3, <5>1, BeforeIsOrder
      <4> QED BY <1>4, <2>4, <2>5, <3>1, <3>2, <3>3, <4>1
    <3>4. CASE o[l] # g
      <4>1. acc.best[g] > acc.best[o[l]] \/ (acc.best[g] = acc.best[o[l]] /\ Before(o[k], o[l]))
        BY <2>3, <2>5, <3>1, <3>4
      <4>2. Before(o[k], o[l]) => k < l
        BY <1>4, <3>1
      <4> QED BY <1>4, <2>4, <3>1, <3>2, <4>1, <4>2
    <3> QED BY <3>3, <3>4
  <2>8. gi = k
    <3>1. gi = CHOOSE a \in places : IsFirst(a)
      BY DEF FirstBest
    <3>2. k \in places /\ IsFirst(k)
      BY <2>6, <2>7
    <3>3. gi \in places /\ IsFirst(gi)
      <4> HIDE DEF IsFirst, gi
      <4> QED BY <3>1, <3>2
    <3>4. gi \in 1 .. m /\ p.best[gi] \in Nat
      BY <1>7, <1>4, <1>9, <2>4, <3>3
    <3>5. ~(gi < k) /\ ~(k < gi)
      <4>1. p.best[k] \in Nat
        BY <1>7, <1>4, <2>4
      <4> HIDE DEF gi
      <4> QED BY <2>7, <3>2, <3>3, <3>4, <4>1
    <3> HIDE DEF gi
    <3> QED BY <3>4, <3>5, <1>4
  <2>9. S # {} /\ places # {}
    BY <1>9, <2>3, <2>6
  <2> HIDE DEF gi
  <2>10. long = FeasibleVerdict(acc.best[g], acc.hops[g])
    BY <1>2, <1>11, <2>9 DEF g
  <2>11. short = [FeasibleVerdict(acc.best[g], acc.hops[g]) EXCEPT !.worst_gap_steps = NA]
    BY <1>3, <1>7, <2>5, <2>8, <2>9 DEF gi
  <2>12. SameVerdict(long, short)
    BY <2>10, <2>11 DEF SameVerdict, FeasibleVerdict
  <2> QED BY <2>12 DEF long, short
<1> QED BY <1>10, <1>11

-----------------------------------------------------------------------------
\* The request without the plane rule, and how much more it reaches.
Freed(requirement) == [requirement EXCEPT !.require_different_plane = FALSE]

LEMMA FreedType ==
    ASSUME NEW requirement \in Requirement
    PROVE  /\ Freed(requirement) \in Requirement /\ ~Freed(requirement).require_different_plane
           /\ Freed(requirement).min_overlap_steps = requirement.min_overlap_steps
           /\ Freed(requirement).require_different_sat = requirement.require_different_sat
           /\ ThresholdOf(Freed(requirement)) = ThresholdOf(requirement)
BY DEF Freed, Requirement, ThresholdOf

\* One iteration keeps the arrays of the stricter request below.
LEMMA FreedIteration ==
    ASSUME NEW S \in SUBSET Interval, NEW planes, NEW requirement \in Requirement, NEW i \in S,
           NEW acc \in Arrays(S), NEW more \in Arrays(S), \A j \in S : acc.best[j] <= more.best[j]
    PROVE  \A j \in S : RelaxFrom(acc, i, planes, requirement).best[j]
                        <= RelaxFrom(more, i, planes, Freed(requirement)).best[j]
<1> DEFINE x == RelaxFrom(acc, i, planes, requirement)
           y == RelaxFrom(more, i, planes, Freed(requirement))
<1>1. \A j \in S : IF Taken(acc, i, j, planes, requirement)
                   THEN x.best[j] = Least(acc.best[i], Overlap(i, j))
                   ELSE x.best[j] = acc.best[j]
  BY IterationOf
<1>2. \A j \in S : IF Taken(more, i, j, planes, Freed(requirement))
                   THEN y.best[j] = Least(more.best[i], Overlap(i, j))
                   ELSE y.best[j] = more.best[j]
  BY IterationOf, FreedType
<1> HIDE DEF x, y
<1>3. ASSUME NEW j \in S
      PROVE  x.best[j] <= y.best[j]
  <2>1. /\ acc.best[i] \in 0 .. INF /\ acc.best[j] \in 0 .. INF
        /\ more.best[i] \in 0 .. INF /\ more.best[j] \in 0 .. INF
        /\ acc.best[i] <= more.best[i] /\ acc.best[j] <= more.best[j]
    BY DEF Arrays
  <2>2. Overlap(i, j) \in Int
    BY OverlapType
  <2>3. MayHandOver(i, j, planes, requirement) => MayHandOver(i, j, planes, Freed(requirement))
    BY FreedType DEF MayHandOver
  <2>4. INF \in Nat
    BY IntervalsAssumption DEF INF
  <2>5. CASE Taken(acc, i, j, planes, requirement)
    <3>1. acc.best[i] # NoPath /\ Before(i, j) /\ MayHandOver(i, j, planes, Freed(requirement))
      BY <2>3, <2>5 DEF Taken
    <3>2. more.best[i] # NoPath
      BY <2>1, <2>4, <3>1 DEF NoPath
    <3>3. x.best[j] = Least(acc.best[i], Overlap(i, j))
      BY <1>1, <2>5
    <3>4. Least(acc.best[i], Overlap(i, j)) <= Least(more.best[i], Overlap(i, j))
      BY <2>1, <2>2, <2>4 DEF Least
    <3>5. CASE Taken(more, i, j, planes, Freed(requirement))
      BY <1>2, <3>3, <3>4, <3>5
    <3>6. CASE ~Taken(more, i, j, planes, Freed(requirement))
      <4>1. y.best[j] = more.best[j]
        BY <1>2, <3>6
      <4>2. ~(Least(more.best[i], Overlap(i, j)) > more.best[j])
        BY <3>1, <3>2, <3>6 DEF Taken
      <4>3. Least(more.best[i], Overlap(i, j)) \in Int /\ Least(acc.best[i], Overlap(i, j)) \in Int
        BY <2>1, <2>2, <2>4 DEF Least
      <4> QED BY <2>1, <2>4, <3>3, <3>4, <4>1, <4>2, <4>3
    <3> QED BY <3>5, <3>6
  <2>6. CASE ~Taken(acc, i, j, planes, requirement)
    <3>1. x.best[j] = acc.best[j]
      BY <1>1, <2>6
    <3>2. more.best[j] <= y.best[j]
      <4>1. CASE Taken(more, i, j, planes, Freed(requirement))
        <5>1. y.best[j] = Least(more.best[i], Overlap(i, j))
          BY <1>2, <4>1
        <5>2. y.best[j] \in 1 .. NTime
          BY <4>1, FreedType, IterationOf DEF y
        <5>3. more.best[j] = NoPath \/ y.best[j] > more.best[j]
          BY <4>1, <5>1 DEF Taken
        <5> QED BY <2>1, <2>4, <5>2, <5>3 DEF NoPath
      <4>2. CASE ~Taken(more, i, j, planes, Freed(requirement))
        BY <1>2, <2>1, <2>4, <4>2
      <4> QED BY <4>1, <4>2
    <3>3. y.best[j] \in Int
      <4>1. y \in Arrays(S)
        BY FreedType, IterationOf DEF y
      <4> QED BY <2>4, <4>1 DEF Arrays
    <3> QED BY <2>1, <2>4, <3>1, <3>2, <3>3
  <2> QED BY <2>5, <2>6
<1> QED BY <1>3 DEF x, y

\* A path without a handover is one whose bottleneck is still INF.
CountsHandovers(acc, S) ==
    \A i \in S : acc.best[i] # NoPath => (acc.hops[i] = 0 <=> acc.best[i] = INF)

LEMMA RelaxationBounds ==
    ASSUME NEW S \in SUBSET Interval, AreFirst(S, S), NEW planes, NEW requirement \in Requirement
    PROVE  LET acc == Relaxation(S, planes, requirement)[Cardinality(S)]
               more == Relaxation(S, planes, Freed(requirement))[Cardinality(S)]
           IN  /\ acc \in Arrays(S) /\ more \in Arrays(S)
               /\ \A i \in S : acc.best[i] <= more.best[i]
               /\ CountsHandovers(acc, S) /\ CountsHandovers(more, S)
<1> DEFINE m == Cardinality(S)
           o == InOrder(S)
           Q == Relaxation(S, planes, requirement)
           R == Relaxation(S, planes, Freed(requirement))
           P == {n \in 0 .. m : /\ \A i \in S : Q[n].best[i] <= R[n].best[i]
                                /\ CountsHandovers(Q[n], S) /\ CountsHandovers(R[n], S)}
<1>1. m \in Nat /\ o \in [1 .. m -> S]
  BY SortedList
<1>2. Relaxes(Q, m, S, planes, requirement) /\ Relaxes(R, m, S, planes, Freed(requirement))
  BY RelaxationRelaxes, FreedType
<1> HIDE DEF m, Q, R
<1>3. /\ \A n \in 0 .. m : Q[n] \in Arrays(S) /\ R[n] \in Arrays(S)
      /\ Q[0] = Sources(S) /\ R[0] = Sources(S)
      /\ \A n \in 1 .. m : /\ Q[n] = RelaxFrom(Q[n - 1], o[n], planes, requirement)
                           /\ R[n] = RelaxFrom(R[n - 1], o[n], planes, Freed(requirement))
  BY <1>2 DEF Relaxes
<1> HIDE DEF o
<1>4. 0 \in P
  <2>1. INF \in Nat
    BY IntervalsAssumption DEF INF
  <2>2. \A i \in S : Sources(S).best[i] <= Sources(S).best[i]
    BY <2>1 DEF Sources, NoPath
  <2>3. CountsHandovers(Sources(S), S)
    BY DEF Sources, CountsHandovers
  <2> QED BY <1>1, <1>3, <2>2, <2>3
<1>5. ASSUME NEW q \in Requirement, NEW acc \in Arrays(S), NEW i \in S, CountsHandovers(acc, S)
      PROVE  CountsHandovers(RelaxFrom(acc, i, planes, q), S)
  <2> DEFINE new == RelaxFrom(acc, i, planes, q)
  <2>1. \A j \in S : IF Taken(acc, i, j, planes, q)
                     THEN new.hops[j] = acc.hops[i] + 1 /\ new.best[j] \in 1 .. NTime
                     ELSE new.best[j] = acc.best[j] /\ new.hops[j] = acc.hops[j]
    BY IterationOf
  <2> HIDE DEF new
  <2>2. acc.hops[i] \in Nat
    BY DEF Arrays
  <2>3. CountsHandovers(new, S)
    BY <1>5, <2>1, <2>2, IntervalsAssumption DEF CountsHandovers, INF
  <2> QED BY <2>3 DEF new
<1>6. ASSUME NEW n \in 1 .. m, n - 1 \in P
      PROVE  n \in P
  <2>1. n - 1 \in 0 .. m /\ o[n] \in S
    BY <1>1
  <2>2. /\ Q[n - 1] \in Arrays(S) /\ R[n - 1] \in Arrays(S)
        /\ Q[n] = RelaxFrom(Q[n - 1], o[n], planes, requirement)
        /\ R[n] = RelaxFrom(R[n - 1], o[n], planes, Freed(requirement))
    BY <1>3, <2>1
  <2>3. \A i \in S : Q[n].best[i] <= R[n].best[i]
    BY <1>6, <2>1, <2>2, FreedIteration
  <2>4. CountsHandovers(Q[n], S) /\ CountsHandovers(R[n], S)
    BY <1>5, <1>6, <2>1, <2>2, FreedType
  <2> QED BY <1>1, <2>3, <2>4
<1> HIDE DEF P
<1>7. 0 .. m \subseteq P
  BY <1>1, <1>4, <1>6, UpTo
<1>8. m \in P /\ m \in 0 .. m
  BY <1>1, <1>7
<1> QED BY <1>3, <1>8 DEF P, Q, R, m

\* The plane rule takes paths away: what it finds, the older form finds, at
\* least as good.
Bottleneck(v) == IF v.n_handovers = 0 THEN INF ELSE v.worst_overlap_steps

LEMMA PlanesTakeAway ==
    ASSUME NEW view, NEW planes, NEW requirement \in Requirement,
           AreFirst(intervals_from_inview(view), intervals_from_inview(view)),
           mbb_continuity_cell_req(view, planes, requirement).feasible
    PROVE  LET strict == mbb_continuity_cell_req(view, planes, requirement)
               free == mbb_continuity_cell_req(view, planes, Freed(requirement))
           IN  free.feasible /\ Bottleneck(strict) <= Bottleneck(free)
<1> DEFINE S == intervals_from_inview(view)
           m == Cardinality(S)
           acc == Relaxation(S, planes, requirement)[m]
           more == Relaxation(S, planes, Freed(requirement))[m]
           goals == {i \in S : acc.best[i] # NoPath /\ i.en >= NTime - 1}
           wider == {i \in S : more.best[i] # NoPath /\ i.en >= NTime - 1}
           g == BestGoal(goals, acc.best)
           h == BestGoal(wider, more.best)
           strict == mbb_continuity_cell_req(view, planes, requirement)
           free == mbb_continuity_cell_req(view, planes, Freed(requirement))
<1>1. S \in SUBSET Interval
  BY DEF intervals_from_inview
<1>2. strict = IF S = {} THEN InfeasibleVerdict(NTime)
               ELSE IF goals = {} THEN InfeasibleVerdict(merged_worst_gap_steps(S))
               ELSE FeasibleVerdict(acc.best[g], acc.hops[g])
  BY DEF mbb_continuity_cell_req
<1>3. free = IF S = {} THEN InfeasibleVerdict(NTime)
             ELSE IF wider = {} THEN InfeasibleVerdict(merged_worst_gap_steps(S))
             ELSE FeasibleVerdict(more.best[h], more.hops[h])
  BY DEF mbb_continuity_cell_req
<1>4. strict.feasible
  OBVIOUS
<1> HIDE DEF strict, free, S
<1>5. /\ acc \in Arrays(S) /\ more \in Arrays(S)
      /\ \A i \in S : acc.best[i] <= more.best[i]
      /\ CountsHandovers(acc, S) /\ CountsHandovers(more, S)
  BY <1>1, RelaxationBounds DEF S
<1> HIDE DEF m, acc, more
<1>6. /\ acc.best \in [S -> 0 .. INF] /\ more.best \in [S -> 0 .. INF] /\ INF \in Nat
  BY <1>5, IntervalsAssumption DEF Arrays, INF
<1>7. S # {} /\ goals # {}
  <2> HIDE DEF goals, g
  <2>1. \A gap : ~InfeasibleVerdict(gap).feasible
    BY DEF InfeasibleVerdict
  <2> QED BY <1>2, <1>4, <2>1
<1>8. goals \subseteq wider /\ goals \subseteq S /\ wider \subseteq S
  BY <1>5, <1>6 DEF NoPath
<1>9. IsBestOf(g, goals, acc.best) /\ IsBestOf(h, wider, more.best)
  <2> HIDE DEF goals, wider
  <2>1. wider # {}
    BY <1>7, <1>8
  <2>2. IsBestOf(g, goals, acc.best)
    BY <1>1, <1>6, <1>7, <1>8, BestGoalExists DEF S
  <2>3. IsBestOf(h, wider, more.best)
    BY <1>1, <1>6, <1>8, <2>1, BestGoalExists DEF S
  <2> QED BY <2>2, <2>3
<1> HIDE DEF g, h
<1>10. g \in goals /\ h \in wider /\ g \in wider
  BY <1>8, <1>9 DEF IsBestOf
<1>11. acc.best[g] \in 1 .. INF /\ more.best[h] \in 1 .. INF
  BY <1>6, <1>10 DEF NoPath
<1>12. acc.best[g] <= more.best[h]
  <2>1. acc.best[g] <= more.best[g] /\ more.best[g] \in Nat
    BY <1>5, <1>6, <1>10
  <2>2. more.best[g] <= more.best[h]
    <3> HIDE DEF goals, wider
    <3>1. g = h \/ more.best[h] > more.best[g] \/ more.best[h] = more.best[g]
      BY <1>9, <1>10 DEF IsBestOf
    <3> QED BY <1>11, <2>1, <3>1, <1>6
  <2> QED BY <1>6, <1>11, <2>1, <2>2
<1>13. /\ acc.hops[g] = 0 <=> acc.best[g] = INF
       /\ more.hops[h] = 0 <=> more.best[h] = INF
  BY <1>5, <1>10 DEF CountsHandovers
<1>14. strict = FeasibleVerdict(acc.best[g], acc.hops[g]) /\ free = FeasibleVerdict(more.best[h], more.hops[h])
  <2> HIDE DEF goals, wider
  <2> QED BY <1>2, <1>3, <1>7, <1>8 DEF g, h
<1>15. \A n : \A b \in 1 .. INF : (n = 0 <=> b = INF) => Bottleneck(FeasibleVerdict(b, n)) = b
  BY <1>6 DEF Bottleneck, FeasibleVerdict
<1>16. Bottleneck(strict) = acc.best[g] /\ Bottleneck(free) = more.best[h]
  BY <1>11, <1>13, <1>14, <1>15
<1>17. free.feasible
  BY <1>14 DEF FeasibleVerdict
<1> QED BY <1>12, <1>16, <1>17 DEF strict, free

\* The verdict by steps, the verdict as a function and the older form agree: one
\* request, one answer, and the plane rule only takes paths away.
THEOREM FormsCorrect == Spec => []FormsAgree
<1>1. ASSUME TypeOK, IInv, StepsInv
      PROVE  FormsAgree
  <2> SUFFICES ASSUME pc = "done"
               PROVE  LET free == ShortForm(req.min_overlap_steps)
                          Value(v) == IF v.n_handovers = 0 THEN INF ELSE v.worst_overlap_steps
                      IN  /\ result = Map(plane_uid, req)
                          /\ ~req.require_different_plane => SameVerdict(result, free)
                          /\ req.require_different_plane /\ result.feasible =>
                                free.feasible /\ Value(result) <= Value(free)
    BY DEF FormsAgree
  <2> DEFINE free == ShortForm(req.min_overlap_steps)
             freed == mbb_continuity_cell_req(inview, plane_uid, Freed(req))
  <2>1. req \in Requirement
    BY <1>1 DEF TypeOK
  <2>2. result = mbb_continuity_cell_req(inview, plane_uid, req) /\ todo = {}
    BY <1>1 DEF StepsInv
  <2>3. AreFirst(intervals_from_inview(inview), intervals_from_inview(inview))
    <3>1. Visited = ivs /\ ivs = intervals_from_inview(inview)
      BY <1>1, <2>2 DEF Visited, IInv, IntervalsInv, TypeOK
    <3> QED BY <1>1, <3>1 DEF StepsInv
  <2>4. Map(plane_uid, req) = mbb_continuity_cell_req(inview, plane_uid, req)
    BY DEF Map, continuity_map_req
  <2>5. free = mbb_continuity_cell(inview, req.min_overlap_steps, req.require_different_sat)
    BY DEF ShortForm, continuity_map
  <2> HIDE DEF free, freed
  <2>6. ~req.require_different_plane => SameVerdict(result, free)
    BY <2>1, <2>2, <2>3, <2>5, FormsOfTheFreeRequest
  <2>7. ASSUME result.feasible
        PROVE  free.feasible /\ Bottleneck(result) <= Bottleneck(free)
    <3>1. freed.feasible /\ Bottleneck(result) <= Bottleneck(freed)
      BY <2>1, <2>2, <2>3, <2>7, PlanesTakeAway DEF freed
    <3>2. SameVerdict(freed, mbb_continuity_cell(inview, Freed(req).min_overlap_steps,
                                                 Freed(req).require_different_sat))
      BY <2>1, <2>3, FreedType, FormsOfTheFreeRequest DEF freed
    <3>3. SameVerdict(freed, free)
      BY <2>1, <2>5, <3>2, FreedType
    <3>4. freed.feasible = free.feasible /\ Bottleneck(freed) = Bottleneck(free)
      BY <3>3 DEF SameVerdict, Bottleneck
    <3> QED BY <3>1, <3>4
  <2> QED BY <2>2, <2>4, <2>6, <2>7 DEF free, Bottleneck
<1> QED BY <1>1, TypeCorrect, Inductive, StepsAlways, PTL
=============================================================================
