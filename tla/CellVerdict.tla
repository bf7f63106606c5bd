----------------------------- MODULE CellVerdict -----------------------------
(***************************************************************************)
(* The make-before-break verdict of one cell as a function of its          *)
(* visibility (mbb_continuity_cell_req), for the modules that need the     *)
(* verdict and not the steps that lead to it; Continuity has the steps.    *)
(***************************************************************************)
EXTENDS Intervals

InOrder(ivs) ==
    [n \in 1 .. Cardinality(ivs) |->
        CHOOSE i \in ivs : Cardinality({j \in ivs : Before(j, i)}) = n - 1]

\* One iteration of the outer loop; acc holds the arrays best and hops.
RelaxFrom(acc, i, plane_uid, req) ==
    LET cand(j)   == Least(acc.best[i], Overlap(i, j))
        better(j) == /\ acc.best[i] # NoPath
                     /\ Before(i, j)
                     /\ MayHandOver(i, j, plane_uid, req)
                     /\ acc.best[j] = NoPath \/ cand(j) > acc.best[j]
    IN  [best |-> [j \in DOMAIN acc.best |-> IF better(j) THEN cand(j) ELSE acc.best[j]],
         hops |-> [j \in DOMAIN acc.hops |-> IF better(j) THEN acc.hops[i] + 1 ELSE acc.hops[j]]]

\* The arrays before the first iteration: a run in view at sample 0 is a source.
Sources(ivs) ==
    [best |-> [i \in ivs |-> IF i.st <= 0 THEN INF ELSE NoPath],
     hops |-> [i \in ivs |-> 0]]

\* Relaxation(ivs, plane_uid, req)[n]: the arrays after n iterations.
Relaxation(ivs, plane_uid, req) ==
    LET order == InOrder(ivs)
        acc[n \in 0 .. Cardinality(ivs)] ==
            IF n = 0 THEN Sources(ivs)
            ELSE RelaxFrom(acc[n - 1], order[n], plane_uid, req)
    IN  acc

\* The best goal, the first one in sorted order among equals.
BestGoal(goals, best) ==
    CHOOSE g \in goals : \A h \in goals \ {g} :
        best[g] > best[h] \/ (best[g] = best[h] /\ Before(g, h))

mbb_continuity_cell_req(inview, plane_uid, req) ==
    LET ivs     == intervals_from_inview(inview)
        relaxed == Relaxation(ivs, plane_uid, req)[Cardinality(ivs)]
        goals   == {i \in ivs : relaxed.best[i] # NoPath /\ i.en >= NTime - 1}
        g       == BestGoal(goals, relaxed.best)
    IN  IF ivs = {} THEN InfeasibleVerdict(NTime)
        ELSE IF goals = {} THEN InfeasibleVerdict(merged_worst_gap_steps(ivs))
        ELSE FeasibleVerdict(relaxed.best[g], relaxed.hops[g])

=============================================================================
