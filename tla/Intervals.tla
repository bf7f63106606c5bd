------------------------------ MODULE Intervals ------------------------------
(***************************************************************************)
(* Visibility intervals of one ground cell and the rules of a handover     *)
(* between two of them (ngso_sls/coverage/continuity.py).                  *)
(***************************************************************************)
EXTENDS Integers, FiniteSets

CONSTANTS
    NTime,      \* number of samples of the evaluation window
    NSat        \* number of satellites

ASSUME IntervalsAssumption == NTime \in Nat \ {0} /\ NSat \in Nat

Times == 0 .. NTime - 1
Sats  == 0 .. NSat - 1

Requirement ==
    [min_overlap_steps       : Int,
     require_different_sat   : BOOLEAN,
     require_different_plane : BOOLEAN]

Interval == [sat : Sats, st : Times, en : Times]

\* Encodings: None in best is NoPath, below every accepted overlap; None in a
\* verdict is NA, the value continuity_map writes for it.
NoPath == 0
NA     == -1
INF    == NTime + 1     \* "no handover yet": above every overlap

Verdict ==
    [feasible            : BOOLEAN,
     worst_overlap_steps : {NA} \cup 1 .. NTime,
     n_handovers         : {NA} \cup Nat,
     worst_gap_steps     : Nat]

InfeasibleVerdict(gap) ==
    [feasible |-> FALSE, worst_overlap_steps |-> NA,
     n_handovers |-> NA, worst_gap_steps |-> gap]

\* Mutant of FeasibleVerdict: the sentinel leaks into the verdict.
FeasibleVerdictWithSentinel(bottleneck, handovers) ==
    [feasible |-> TRUE, worst_overlap_steps |-> bottleneck,
     n_handovers |-> handovers, worst_gap_steps |-> 0]

FeasibleVerdict(bottleneck, handovers) ==
    [feasible |-> TRUE,
     worst_overlap_steps |-> IF bottleneck >= INF THEN NA ELSE bottleneck,
     n_handovers |-> handovers, worst_gap_steps |-> 0]

Least(a, b) == IF a <= b THEN a ELSE b
Most(a, b)  == IF a >= b THEN a ELSE b

-----------------------------------------------------------------------------
(***************************************************************************)
(* A run starts at a rising edge (or at sample 0) and ends at a falling    *)
(* edge (or at the last sample); zip pairs the k-th start with the k-th    *)
(* end, which is the first end not before that start.                      *)
(***************************************************************************)
\* Mutant of Rises: a run in view at sample 0 has no start.
RisesWithoutFirst(view) == {t \in Times : t \in view /\ t - 1 \in Times \ view}

Rises(view) == {t \in Times : t \in view /\ t - 1 \notin view}
Falls(view) == {t \in Times : t \in view /\ t + 1 \notin view}

\* Mutant of intervals_from_inview: a start is paired with every later end.
IntervalsToAnyEnd(inview) ==
    {i \in Interval :
        /\ i.sat \in DOMAIN inview
        /\ i.st \in Rises(inview[i.sat])
        /\ i.en \in Falls(inview[i.sat])
        /\ i.st <= i.en}

\* inview[s]: the samples at which the cell sees satellite s.
intervals_from_inview(inview) ==
    {i \in Interval :
        /\ i.sat \in DOMAIN inview
        /\ i.st \in Rises(inview[i.sat])
        /\ i.en \in Falls(inview[i.sat])
        /\ i.st <= i.en
        /\ \A e \in Falls(inview[i.sat]) : i.st <= e => i.en <= e}

\* ivs.sort(key = (end, start)); the sort is stable over satellites in order.
Before(i, j) ==
    \/ i.en < j.en
    \/ i.en = j.en /\ i.st < j.st
    \/ i.en = j.en /\ i.st = j.st /\ i.sat < j.sat

Overlap(i, j) == Least(i.en, j.en) - Most(i.st, j.st) + 1

ThresholdOf(req) == Most(req.min_overlap_steps, 1)

\* An unknown plane (-1) is conservatively rejected.
PlanesDiffer(a, b) == a >= 0 /\ b >= 0 /\ a # b

\* Mutant of MayHandOver: the plane rule replaces the overlap, not adds to it.
MayHandOverEitherRule(i, j, plane_uid, req) ==
    /\ j.en > i.en
    /\ req.require_different_sat => i.sat # j.sat
    /\ IF req.require_different_plane
       THEN PlanesDiffer(plane_uid[i.sat], plane_uid[j.sat]) /\ Overlap(i, j) >= 1
       ELSE Overlap(i, j) >= ThresholdOf(req)

\* The tests the inner loop makes before it hands over from i to j.
MayHandOver(i, j, plane_uid, req) ==
    /\ j.en > i.en
    /\ req.require_different_sat => i.sat # j.sat
    /\ req.require_different_plane => PlanesDiffer(plane_uid[i.sat], plane_uid[j.sat])
    /\ Overlap(i, j) >= ThresholdOf(req)

Covered(ivs) == UNION {i.st .. i.en : i \in ivs}

GapLengths(ivs) ==
    {n \in 1 .. NTime : \E a \in Times : a .. a + n - 1 \subseteq Times \ Covered(ivs)}

merged_worst_gap_steps(ivs) ==
    IF Times \subseteq Covered(ivs)
    THEN 0
    ELSE CHOOSE n \in GapLengths(ivs) : \A k \in GapLengths(ivs) : k <= n

=============================================================================
