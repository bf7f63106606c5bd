----------------------------- MODULE Continuity -----------------------------
(***************************************************************************)
(* The make-before-break verdict of ONE ground cell                        *)
(* (ngso_sls/coverage/continuity.py).  A cell sees satellites come and go; *)
(* service is continuous when a chain of satellites serves it from the     *)
(* first sample to the last and every handover of the chain has both       *)
(* satellites in view for long enough.                                     *)
(*                                                                         *)
(* The code extracts the visibility intervals, sorts them by their end and *)
(* relaxes them once, front to back, keeping for each interval the best    *)
(* bottleneck overlap with which it can be reached.  The model takes one   *)
(* step per iteration of the outer loop; the inner loop reads only entry i *)
(* and writes each later entry once, so it is one simultaneous update.     *)
(***************************************************************************)
EXTENDS Intervals

CONSTANTS
    PlaneUids,  \* values plane_uid can take, -1 for an unknown plane
    Requests    \* the Requirements a caller asks for

ASSUME ContinuityAssumption ==
    /\ PlaneUids \subseteq Int
    /\ Requests \subseteq Requirement

VARIABLES
    inview,     \* inview[s]: the samples at which the cell sees satellite s
    plane_uid,  \* plane_uid[s]: the orbital plane of satellite s
    req,        \* the Requirement of the request
    pc,         \* "extract", "relax", "done"
    ivs,        \* the usable intervals
    todo,       \* intervals the outer loop has not visited
    best,       \* best[i]: largest bottleneck overlap with which i is reached
    hops,       \* hops[i]: handovers on that path
    result      \* the returned verdict

inputs == <<inview, plane_uid, req>>
vars == <<inview, plane_uid, req, pc, ivs, todo, best, hops, result>>

Threshold == ThresholdOf(req)
Handover(i, j) == MayHandOver(i, j, plane_uid, req)

-----------------------------------------------------------------------------
Init ==
    /\ inview \in [Sats -> SUBSET Times]
    /\ plane_uid \in [Sats -> PlaneUids]
    /\ req \in Requests
    /\ pc = "extract"
    /\ ivs = {} /\ todo = {}
    /\ best = <<>> /\ hops = <<>>
    /\ result = InfeasibleVerdict(0)

\* Extract the intervals; no interval at all is an early return.
Extract ==
    /\ pc = "extract"
    /\ ivs' = intervals_from_inview(inview)
    /\ todo' = ivs'
    /\ best' = [i \in ivs' |-> IF i.st <= 0 THEN INF ELSE NoPath]
    /\ hops' = [i \in ivs' |-> 0]
    /\ IF ivs' = {}
       THEN /\ pc' = "done"
            /\ result' = InfeasibleVerdict(NTime)
       ELSE /\ pc' = "relax"
            /\ UNCHANGED result
    /\ UNCHANGED inputs

\* Mutant of Cand: the last overlap instead of the smallest one.
CandLastOverlap(i, j) == Overlap(i, j)

\* The bottleneck with which j is reached through i.
Cand(i, j) == Least(best[i], Overlap(i, j))

Improves(i, j) ==
    /\ best[i] # NoPath
    /\ j \in todo \ {i}
    /\ Handover(i, j)
    /\ best[j] = NoPath \/ Cand(i, j) > best[j]

\* Mutant of Relax: hops stays with the first path that reached an interval.
RelaxFirstHops(i) ==
    /\ pc = "relax"
    /\ i \in todo
    /\ \A j \in todo \ {i} : Before(i, j)
    /\ todo' = todo \ {i}
    /\ best' = [j \in ivs |-> IF Improves(i, j) THEN Cand(i, j) ELSE best[j]]
    /\ hops' = [j \in ivs |-> IF Improves(i, j) /\ best[j] = NoPath THEN hops[i] + 1 ELSE hops[j]]
    /\ UNCHANGED <<inputs, pc, ivs, result>>

\* One iteration of the outer loop: i is the next interval in sorted order.
Relax(i) ==
    /\ pc = "relax"
    /\ i \in todo
    /\ \A j \in todo \ {i} : Before(i, j)
    /\ todo' = todo \ {i}
    /\ best' = [j \in ivs |-> IF Improves(i, j) THEN Cand(i, j) ELSE best[j]]
    /\ hops' = [j \in ivs |-> IF Improves(i, j) THEN hops[i] + 1 ELSE hops[j]]
    /\ UNCHANGED <<inputs, pc, ivs, result>>

\* Mutant of Goals: the last sample is not required.
GoalsOneEarly == {i \in ivs : best[i] # NoPath /\ i.en >= NTime - 2}

Goals == {i \in ivs : best[i] # NoPath /\ i.en >= NTime - 1}

\* max(goals, key = best): the first of the goals with the largest bottleneck.
IsBestGoal(g) ==
    /\ g \in Goals
    /\ \A h \in Goals \ {g} :
          best[g] > best[h] \/ (best[g] = best[h] /\ Before(g, h))

Infeasible ==
    /\ pc = "relax" /\ todo = {}
    /\ Goals = {}
    /\ pc' = "done"
    /\ result' = InfeasibleVerdict(merged_worst_gap_steps(ivs))
    /\ UNCHANGED <<inputs, ivs, todo, best, hops>>

Feasible(g) ==
    /\ pc = "relax" /\ todo = {}
    /\ IsBestGoal(g)
    /\ pc' = "done"
    /\ result' = FeasibleVerdict(best[g], hops[g])
    /\ UNCHANGED <<inputs, ivs, todo, best, hops>>

Next ==
    \/ Extract
    \/ \E i \in ivs : Relax(i)
    \/ Infeasible
    \/ \E g \in ivs : Feasible(g)

Spec == Init /\ [][Next]_vars

-----------------------------------------------------------------------------
(***************************************************************************)
(* Reference definition: a serving path, as the module's docstring states  *)
(* it.  Interval ends strictly increase along a path, so a path is the set *)
(* of its intervals.                                                       *)
(***************************************************************************)
Adjacent(P, i, j) ==
    /\ i \in P /\ j \in P
    /\ i.en < j.en
    /\ \A k \in P : k.en <= i.en \/ k.en >= j.en

\* P leads from the start of the window to i, by handovers the rules allow.
IsPathTo(P, i) ==
    /\ P \subseteq ivs /\ i \in P
    /\ \A k, l \in P : k.en = l.en => k = l
    /\ \A k \in P : k.en <= i.en
    /\ \A k \in P : k.st <= 0 \/ \E h \in P : h.en < k.en
    /\ \A k, l \in P : Adjacent(P, k, l) => Handover(k, l)

\* Every handover of P keeps both satellites in view for at least w samples.
Guarantees(P, w) == \A k, l \in P : Adjacent(P, k, l) => Overlap(k, l) >= w

IsServingPath(P) == \E i \in P : IsPathTo(P, i) /\ i.en = NTime - 1

-----------------------------------------------------------------------------
(***************************************************************************)
(* Properties                                                              *)
(***************************************************************************)

\* Every variable has its type; best and hops are indexed by the intervals.
TypeOK ==
    /\ inview \in [Sats -> SUBSET Times]
    /\ plane_uid \in [Sats -> PlaneUids]
    /\ req \in Requirement
    /\ pc \in {"extract", "relax", "done"}
    /\ ivs \subseteq Interval
    /\ todo \subseteq ivs
    /\ pc # "extract" => best \in [ivs -> 0 .. INF] /\ hops \in [ivs -> Nat]
    /\ result \in Verdict

\* The extracted intervals cover exactly the samples at which some satellite
\* is in view, and two intervals of one satellite neither overlap nor touch:
\* pairing rises with falls loses no sample and splits no run
\* (intervals_from_inview).
IntervalsAreMaximalRuns ==
    pc # "extract" =>
        /\ \A s \in Sats : Covered({i \in ivs : i.sat = s}) = inview[s]
        /\ \A i, j \in ivs : i.sat = j.sat /\ i # j => i.en + 1 < j.st \/ j.en + 1 < i.st

\* One forward pass over the intervals sorted by end decides exactly whether
\* a serving path exists (the topological-relaxation claim in the code).
FeasibleIffServingPath ==
    pc = "done" =>
        (result.feasible <=> \E P \in SUBSET ivs : IsServingPath(P))

\* worst_overlap_steps is the largest overlap some serving path guarantees at
\* each of its handovers; no serving path guarantees more.  NA means a serving
\* path without any handover.
WorstOverlapIsBestBottleneck ==
    pc = "done" /\ result.feasible =>
        LET w == IF result.worst_overlap_steps = NA
                 THEN INF ELSE result.worst_overlap_steps
        IN  /\ \E P \in SUBSET ivs : IsServingPath(P) /\ Guarantees(P, w)
            /\ \A P \in SUBSET ivs :
                  IsServingPath(P) /\ Guarantees(P, w + 1) => w = INF

\* n_handovers belongs to the path whose bottleneck is reported: one serving
\* path has that many handovers AND that guaranteed overlap, and the overlap is
\* NA exactly when there is no handover.  The code keeps hops and best in two
\* arrays that are updated together.
HandoversOfReportedPath ==
    pc = "done" /\ result.feasible =>
        \E P \in SUBSET ivs :
            /\ IsServingPath(P)
            /\ Cardinality(P) = result.n_handovers + 1
            /\ result.worst_overlap_steps # NA => Guarantees(P, result.worst_overlap_steps)
            /\ result.worst_overlap_steps = NA <=> Cardinality(P) = 1

\* A feasible cell is in view of some satellite at every sample, so the
\* literal 0 it reports as worst gap is the measured one (the code does not
\* measure it on that branch).
FeasibleIsGapless ==
    pc = "done" /\ result.feasible =>
        /\ Times \subseteq UNION {inview[s] : s \in Sats}
        /\ result.worst_gap_steps = merged_worst_gap_steps(ivs)

\* require_different_sat rules out no handover: the runs of one satellite
\* never overlap, so the flag cannot change a verdict.
DifferentSatIsImplied ==
    \A i, j \in ivs : i.sat = j.sat /\ j.en > i.en => Overlap(i, j) < Threshold

-----------------------------------------------------------------------------
(***************************************************************************)
(* The inductive invariant behind the theorems of ContinuityProofs.        *)
(***************************************************************************)

\* The intervals are the ones of the input.
IntervalsInv == pc # "extract" => ivs = intervals_from_inview(inview)

\* Nothing is extracted before Extract.
EmptyInv == pc = "extract" => ivs = {}

\* Every reached interval has a path with its bottleneck and hop count.
ReachedInv ==
    pc # "extract" =>
        \A i \in ivs : best[i] # NoPath =>
            \E P \in SUBSET ivs :
                /\ IsPathTo(P, i)
                /\ IsFiniteSet(P) /\ Cardinality(P) = hops[i] + 1
                /\ best[i] = INF => hops[i] = 0
                /\ best[i] # INF => Guarantees(P, best[i])

\* Visited intervals come before the unvisited ones.
OrderInv ==
    pc # "extract" =>
        \A i \in ivs \ todo, j \in todo : Before(i, j)

\* Every handover out of a visited interval is accounted for, and no source
\* loses its initial value.
RelaxedInv ==
    pc # "extract" =>
        /\ \A i \in ivs : i.st <= 0 => best[i] = INF
        /\ \A i \in ivs \ todo, j \in ivs :
              best[i] # NoPath /\ Handover(i, j) => best[j] >= Cand(i, j)

\* The verdict is read off the relaxed arrays.
DoneInv ==
    pc = "done" =>
        /\ todo = {}
        /\ ~result.feasible => Goals = {}
        /\ result.feasible =>
              \E g \in ivs :
                /\ IsBestGoal(g)
                /\ result.n_handovers = hops[g]
                /\ result.worst_overlap_steps = IF best[g] >= INF THEN NA ELSE best[g]
                /\ result.worst_gap_steps = 0

IInv == EmptyInv /\ IntervalsInv /\ ReachedInv /\ OrderInv /\ RelaxedInv /\ DoneInv

=============================================================================
