--------------------------------- MODULE Sweep ---------------------------------
(***************************************************************************)
(* The minimum-satellite sweeps: one coverage run per candidate shape, in  *)
(* grid order, then the smallest constellation per requirement.            *)
(*                                                                         *)
(* A coverage run is abstracted to what a sweep reads of it: per cell, the *)
(* samples with at least k satellites in view, and the make-before-break   *)
(* verdict.  A feasible cell is in view at every sample (theorem           *)
(* GaplessCorrect of ContinuityProofs).                                    *)
(***************************************************************************)
EXTENDS Integers, Sequences, FiniteSets

CONSTANTS
    Cells, Samples,     \* H3 cells of the area, samples of the window
    Ks,                 \* k_values
    PlanesRanges,       \* values the planes sliders can produce
    InclinationRanges,  \* values of incl_values
    SppValues,          \* sats per plane, in order
    Target,             \* target_availability, in samples of Samples
    Grade,              \* area_grade, in cells
    MaxGridCells,       \* max_grid_cells
    None

\* range(first, last + 1, step) of a step above 0.
Increasing(s) == \A i, j \in DOMAIN s : i < j => s[i] < s[j]

\* An empty range of planes counts as its first value, the one compute uses then.
ASSUME SweepAssumption ==
    /\ Samples \in Nat \ {0} /\ Target \in 0 .. Samples
    /\ IsFiniteSet(Cells) /\ Grade \in 0 .. Cardinality(Cells)
    /\ Ks \subseteq Nat \ {0} /\ None \notin Nat
    /\ SppValues \in Seq(Nat \ {0}) /\ Increasing(SppValues)
    /\ \A P \in PlanesRanges : P \in Seq(Nat \ {0}) /\ P # <<>> /\ Increasing(P)
    /\ InclinationRanges \subseteq Seq(Int) \ {<<>>}
    /\ MaxGridCells \in Nat

\* What a coverage run can report: fewer satellites are easier to see, and a
\* feasible cell is covered throughout.
Reports ==
    {r \in [Cells -> [avail : [Ks -> 0 .. Samples], feasible : BOOLEAN]] :
        \A c \in Cells :
            /\ \A k, l \in Ks : k <= l => r[c].avail[l] <= r[c].avail[k]
            /\ r[c].feasible /\ 1 \in Ks => r[c].avail[1] = Samples}

VARIABLES
    mode,       \* "coverage_vs_N", "min_N_vs_incl" or "multi_shape"
    gate,       \* whether continuity_overlap_s is set
    grid,       \* the candidates, in order
    rows,       \* the candidates evaluated so far, with their figures
    progress,   \* the last value reported
    pc          \* "idle", "sweep", "done" or "refused"

vars == <<mode, gate, grid, rows, progress, pc>>

-----------------------------------------------------------------------------
\* Rows of a table in reading order.
Table(outer, inner, row(_, _)) ==
    [i \in 1 .. Len(outer) * Len(inner) |->
        row(outer[(i - 1) \div Len(inner) + 1], inner[((i - 1) % Len(inner)) + 1])]

Shape(planes, spp, inc) == [planes |-> planes, spp |-> spp, inc |-> inc]
N(shape) == shape.planes * shape.spp

\* MinSatSweep.compute: a range of planes decides first, and then only the
\* first inclination counts.
ModeOf(planes, incs) ==
    IF Len(planes) > 1 THEN "multi_shape"
    ELSE IF Len(incs) <= 1 THEN "coverage_vs_N" ELSE "min_N_vs_incl"

GridOf(planes, incs) ==
    IF Len(planes) > 1
    THEN Table(planes, SppValues, LAMBDA P, s : Shape(P, s, incs[1]))
    ELSE Table(incs, SppValues, LAMBDA i, s : Shape(planes[1], s, i))

Press(planes, incs, g) ==
    /\ pc = "idle"
    /\ mode' = ModeOf(planes, incs) /\ gate' = g
    /\ grid' = GridOf(planes, incs)
    /\ pc' = IF mode' = "multi_shape" /\ Len(grid') > MaxGridCells THEN "refused" ELSE "sweep"
    /\ UNCHANGED <<rows, progress>>

\* Mutant of Pct: cells strictly above the target.
PctAbove(r, k) == Cardinality({c \in Cells : r[c].avail[k] > Target})

Pct(r, k) == Cardinality({c \in Cells : r[c].avail[k] >= Target})
PctMbb(r) == Cardinality({c \in Cells : r[c].feasible})

Row(shape, r) ==
    [shape |-> shape, pct |-> [k \in Ks |-> Pct(r, k)],
     mbb |-> IF gate THEN PctMbb(r) ELSE None]

\* What is reported after candidate i: inclination_sweep adds the candidates of
\* the inclinations before.
Done(i) == i

\* One candidate: a coverage run, its row, the progress callback.
Evaluate(r) ==
    /\ pc = "sweep" /\ Len(rows) < Len(grid)
    /\ rows' = Append(rows, Row(grid[Len(rows) + 1], r))
    /\ progress' = Done(Len(rows) + 1)
    /\ UNCHANGED <<mode, gate, grid, pc>>

Finish ==
    /\ pc = "sweep" /\ Len(rows) = Len(grid)
    /\ pc' = "done"
    /\ UNCHANGED <<mode, gate, grid, rows, progress>>

Stop == pc \in {"done", "refused"} /\ UNCHANGED vars

-----------------------------------------------------------------------------
(***************************************************************************)
(* The results, over a set I of row indices: all rows, or those of one     *)
(* inclination.                                                            *)
(***************************************************************************)
SmallestN(I) ==
    IF I = {} THEN None
    ELSE CHOOSE m \in {N(rows[i].shape) : i \in I} : \A i \in I : m <= N(rows[i].shape)

Meets(i, k) == rows[i].pct[k] >= Grade
MbbPass(i) == rows[i].mbb >= Grade

min_N_by_k(I, k) == SmallestN({i \in I : Meets(i, k)})
min_N_mbb(I) == IF gate THEN SmallestN({i \in I : MbbPass(i)}) ELSE None

\* Mutant of Passes: one level suffices.
PassesAny(i) == (\E k \in Ks : Meets(i, k)) /\ (gate => MbbPass(i))

Passes(i) == (\A k \in Ks : Meets(i, k)) /\ (gate => MbbPass(i))

\* (N, planes), lexicographically.
Precedes(s, t) == N(s) < N(t) \/ (N(s) = N(t) /\ s.planes < t.planes)

Winners == {i \in DOMAIN rows : Passes(i)}
Pareto == {i \in Winners : \A j \in Winners \ {i} : Precedes(rows[i].shape, rows[j].shape)}

\* The indices a minimum is taken over.
Groups ==
    IF mode = "min_N_vs_incl"
    THEN {{i \in DOMAIN rows : rows[i].shape.inc = s.inc} : s \in {grid[i] : i \in DOMAIN grid}}
    ELSE {DOMAIN rows}

-----------------------------------------------------------------------------
Init ==
    /\ mode = "coverage_vs_N" /\ gate = FALSE /\ grid = <<>> /\ rows = <<>>
    /\ progress = 0 /\ pc = "idle"

Next ==
    \/ \E planes \in PlanesRanges, incs \in InclinationRanges, g \in BOOLEAN : Press(planes, incs, g)
    \/ \E r \in Reports : Evaluate(r)
    \/ Finish \/ Stop

Spec == Init /\ [][Next]_vars

-----------------------------------------------------------------------------
(***************************************************************************)
(* Properties                                                              *)
(***************************************************************************)
TypeOK ==
    /\ mode \in {"coverage_vs_N", "min_N_vs_incl", "multi_shape"}
    /\ gate \in BOOLEAN
    /\ Len(rows) <= Len(grid)
    /\ \A i \in DOMAIN rows :
          /\ rows[i].shape = grid[i]
          /\ rows[i].pct \in [Ks -> 0 .. Cardinality(Cells)]
          /\ rows[i].mbb \in (0 .. Cardinality(Cells)) \cup {None}
    /\ progress \in 0 .. Len(grid)
    /\ pc \in {"idle", "sweep", "done", "refused"}

\* a is reached, with no more satellites than b, wherever b is reached.
NeedsNoMore(a, b) == b # None => a # None /\ a <= b

\* The make-before-break gate is "a strictly stronger requirement than the k=1
\* availability grade": a size that passes it passes k=1, so the smallest size
\* never is smaller; and more satellites in view never need fewer satellites.
HarderNeedsMore ==
    pc = "done" =>
        \A I \in Groups :
            /\ 1 \in Ks => NeedsNoMore(min_N_by_k(I, 1), min_N_mbb(I))
            /\ \A k, l \in Ks : k <= l => NeedsNoMore(min_N_by_k(I, k), min_N_by_k(I, l))

\* A 2-D sweep marks one candidate exactly if some candidate meets every
\* requirement; it meets them all, none that does is smaller, and no single
\* requirement's minimum exceeds it.
OneSmallestWinner ==
    pc = "done" /\ mode = "multi_shape" =>
        LET feasible == {i \in DOMAIN rows :
                            /\ \A k \in Ks : rows[i].pct[k] >= Grade
                            /\ gate => rows[i].mbb >= Grade}
        IN  /\ Cardinality(Pareto) = IF feasible = {} THEN 0 ELSE 1
            /\ \A i \in Pareto :
                  /\ i \in feasible
                  /\ \A j \in feasible : N(rows[i].shape) <= N(rows[j].shape)
                  /\ \A k \in Ks : NeedsNoMore(min_N_by_k(DOMAIN rows, k), N(rows[i].shape))
                  /\ gate => NeedsNoMore(min_N_mbb(DOMAIN rows), N(rows[i].shape))

=============================================================================
