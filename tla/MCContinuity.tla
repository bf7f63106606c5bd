---------------------------- MODULE MCContinuity ----------------------------
(***************************************************************************)
(* Every visibility matrix of three satellites over five samples, the      *)
(* fewest at which a longer chain of handovers beats a shorter one (runs   *)
(* 0-2, 1-3 and 2-4), without planes; and, under the different-plane rule, *)
(* every assignment of known and unknown planes to satellites that do not  *)
(* come back once they have left.                                          *)
(***************************************************************************)
EXTENDS Continuity, ContinuityMap

Ask(overlap, sat, plane) ==
    [min_overlap_steps |-> overlap, require_different_sat |-> sat,
     require_different_plane |-> plane]

\* 0 is floored to 1 and 2 rejects short overlaps.
MCRequests == {Ask(0, FALSE, FALSE), Ask(2, TRUE, FALSE), Ask(2, TRUE, TRUE)}

\* Two known planes and the unknown one; planes are only compared, so the first
\* known one can be called 0.
MCPlanes == {-1, 0, 1}

\* The requests of the search: planes matter to the rule that looks at them.
Asked ==
    IF req.require_different_plane
    THEN \A s \in Sats :
            /\ Cardinality(Rises(inview[s])) <= 1
            /\ plane_uid[s] = 1 => \E r \in Sats : r < s /\ plane_uid[r] = 0
    ELSE \A s \in Sats : plane_uid[s] = -1

MCInit == Init /\ Asked

MCSpec == MCInit /\ [][Next]_vars

-----------------------------------------------------------------------------
(***************************************************************************)
(* What the result has to do with those of other calls on the same cell.   *)
(***************************************************************************)
Map(planes, requirement) == continuity_map_req(<<inview>>, planes, requirement)[1]
ShortForm(overlap) == continuity_map(<<inview>>, overlap, req.require_different_sat)[1]

SameVerdict(v, w) ==
    /\ v.feasible = w.feasible
    /\ v.worst_overlap_steps = w.worst_overlap_steps
    /\ v.n_handovers = w.n_handovers

\* The verdict was written more than once, and all of it agrees: the verdict by
\* steps is the verdict as a function, which ShardedCoverage uses, and where the
\* older form of the call is asked the same question it gives the same answer;
\* its tests and callers run one relaxation, the coverage kernel the other.
\* Asking for different planes takes paths away: it never makes a cell feasible
\* and never raises the overlap of one that is (no handover counts as INF).
FormsAgree ==
    pc = "done" =>
        LET free == ShortForm(req.min_overlap_steps)
            Bottleneck(v) == IF v.n_handovers = 0 THEN INF ELSE v.worst_overlap_steps
        IN  /\ result = Map(plane_uid, req)
            /\ ~req.require_different_plane => SameVerdict(result, free)
            /\ req.require_different_plane /\ result.feasible =>
                  free.feasible /\ Bottleneck(result) <= Bottleneck(free)

===========================================================================
