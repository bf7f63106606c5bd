----------------------------- MODULE ContinuityMap -----------------------------
(***************************************************************************)
(* continuity_map: the verdict of every cell, in the two forms the code    *)
(* keeps.  The form with three arguments calls mbb_continuity_cell, which  *)
(* has arrays by position where CellVerdict has functions of intervals;    *)
(* the form with planes and a requirement calls mbb_continuity_cell_req.   *)
(***************************************************************************)
EXTENDS CellVerdict, Sequences

\* Mutant of RelaxEdge: an equal bottleneck replaces the path found first.
RelaxEdgeOnTie(acc, ivs, i, j, thr, require_different_sat) ==
    LET ov   == Overlap(ivs[i], ivs[j])
        cand == IF acc.best[i] < ov THEN acc.best[i] ELSE ov
    IN  IF /\ acc.best[i] # NoPath
           /\ ivs[j].en > ivs[i].en
           /\ require_different_sat => ivs[j].sat # ivs[i].sat
           /\ ov >= thr
           /\ acc.best[j] = NoPath \/ cand >= acc.best[j]
        THEN [best |-> [acc.best EXCEPT ![j] = cand],
              hops |-> [acc.hops EXCEPT ![j] = acc.hops[i] + 1]]
        ELSE acc

\* The body of the inner loop: positions i < j of the sorted list.
RelaxEdge(acc, ivs, i, j, thr, require_different_sat) ==
    LET ov   == Overlap(ivs[i], ivs[j])
        cand == IF acc.best[i] < ov THEN acc.best[i] ELSE ov
    IN  IF /\ acc.best[i] # NoPath
           /\ ivs[j].en > ivs[i].en
           /\ require_different_sat => ivs[j].sat # ivs[i].sat
           /\ ov >= thr
           /\ acc.best[j] = NoPath \/ cand > acc.best[j]
        THEN [best |-> [acc.best EXCEPT ![j] = cand],
              hops |-> [acc.hops EXCEPT ![j] = acc.hops[i] + 1]]
        ELSE acc

\* for j in range(i + 1, m): the arrays after the positions up to m.
Row(acc, i, ivs, thr, require_different_sat) ==
    LET upto[j \in 0 .. Len(ivs)] ==
            IF j <= i THEN acc
            ELSE RelaxEdge(upto[j - 1], ivs, i, j, thr, require_different_sat)
    IN  upto[Len(ivs)]

\* for i in range(m).
Relaxed(ivs, thr, require_different_sat) ==
    LET start == [best |-> [k \in 1 .. Len(ivs) |-> IF ivs[k].st <= 0 THEN INF ELSE NoPath],
                  hops |-> [k \in 1 .. Len(ivs) |-> 0]]
        rows[i \in 0 .. Len(ivs)] ==
            IF i = 0 THEN start ELSE Row(rows[i - 1], i, ivs, thr, require_different_sat)
    IN  rows[Len(ivs)]

\* max(goals, key = best): the first of the largest.
FirstBest(goals, best) ==
    CHOOSE g \in goals :
        /\ \A h \in goals : best[h] <= best[g]
        /\ \A h \in goals : h < g => best[h] < best[g]

mbb_continuity_cell(view, min_overlap_steps, require_different_sat) ==
    LET ivs     == InOrder(intervals_from_inview(view))
        relaxed == Relaxed(ivs, Most(min_overlap_steps, 1), require_different_sat)
        goals   == {i \in DOMAIN ivs : relaxed.best[i] # NoPath /\ ivs[i].en >= NTime - 1}
        gi      == FirstBest(goals, relaxed.best)
    IN  IF goals = {} THEN InfeasibleVerdict(NA)
        ELSE [FeasibleVerdict(relaxed.best[gi], relaxed.hops[gi]) EXCEPT !.worst_gap_steps = NA]

-----------------------------------------------------------------------------
\* views: the visibility of each cell.
continuity_map(views, min_overlap_steps, require_different_sat) ==
    [c \in DOMAIN views |->
        mbb_continuity_cell(views[c], min_overlap_steps, require_different_sat)]

continuity_map_req(views, plane_uid, requirement) ==
    [c \in DOMAIN views |-> mbb_continuity_cell_req(views[c], plane_uid, requirement)]
=============================================================================
