----------------------------- MODULE OracleCoverage -----------------------------
(***************************************************************************)
(* beam_candidates_to_coverage: the link predictor's segments, read in any *)
(* order, gathered per ground point and sample time into sets of           *)
(* satellites, and reduced to the shape of a coverage result.              *)
(*                                                                         *)
(* A segment is a record: parsed (the id has its form), point, sat (sat_of *)
(* of its antenna), start, step, platforms (how many it lists), acc (the   *)
(* samples, numbered from 0) and rows, whether acc really is one row per   *)
(* platform; the code does not see the last one.                           *)
(***************************************************************************)
EXTENDS Integers, FiniteSets

CONSTANTS
    Segments,       \* segments an instance may hold
    KValues,        \* satellites asked for at once
    None,           \* no result yet
    ValueError      \* no parseable segments

\* Results for points P, by k.
Results(P) == [P -> [KValues -> [good : Nat, of : Nat]]]

OracleCoverageAssumption ==
    /\ KValues \subseteq Nat \ {0}
    /\ \A e \in Segments :
          /\ e.parsed \in BOOLEAN /\ e.rows \in BOOLEAN
          /\ e.start \in Int /\ e.step \in Nat \ {0} /\ e.platforms \in Nat
          /\ e.acc \in [0 .. Cardinality(DOMAIN e.acc) - 1 -> BOOLEAN]
          /\ IsFiniteSet(DOMAIN e.acc)
    /\ None # ValueError
    /\ \A P \in SUBSET {e.point : e \in Segments} : None \notin Results(P) /\ ValueError \notin Results(P)

Length(acc) == Cardinality(DOMAIN acc)

\* The code tells the two layouts apart by the number of samples alone: it can be
\* right only if rows are complete, and one series is no multiple of the platforms.
LayoutIsClear ==
    \A e \in Segments :
        IF e.rows THEN e.platforms > 0 /\ Length(e.acc) % e.platforms = 0
        ELSE e.platforms < 2 \/ Length(e.acc) = 0 \/ Length(e.acc) % e.platforms # 0
AtLeastOne(n) == IF n = 0 THEN 1 ELSE n

VARIABLES
    entities,   \* what was read
    todo,       \* the entities the loop has not visited
    points,     \* points[p][t]: satellites accessible, for the times that have any
    time_grid,
    result      \* None, ValueError or the counts of samples

vars == <<entities, todo, points, time_grid, result>>

-----------------------------------------------------------------------------
\* "either one series per segment, or platforms x samples (row-major)"
NSamp(e) ==
    LET n_plat == AtLeastOne(e.platforms)
    IN  IF Length(e.acc) % n_plat # 0 THEN Length(e.acc) ELSE Length(e.acc) \div n_plat

Series(e) ==
    LET n      == NSamp(e)
        n_plat == AtLeastOne(e.platforms)
    IN  [i \in 0 .. n - 1 |->
            IF Length(e.acc) = n THEN e.acc[i]
            ELSE \E p \in 0 .. n_plat - 1 : e.acc[p * n + i]]

SampleTimes(e) == {e.start + i * e.step : i \in DOMAIN Series(e)}
TimesInView(e) == {e.start + i * e.step : i \in {j \in DOMAIN Series(e) : Series(e)[j]}}

Skipped(e) == ~e.parsed \/ Length(e.acc) = 0

At(slot, t) == IF t \in DOMAIN slot THEN slot[t] ELSE {}
SlotOf(p) == IF p \in DOMAIN points THEN points[p] ELSE [t \in {} |-> {}]

\* Mutant of WithSat: a later segment replaces what was found at a time.
WithSatReplaced(slot, e) ==
    [t \in DOMAIN slot \cup TimesInView(e) |->
        IF t \in TimesInView(e) THEN {e.sat} ELSE At(slot, t)]

WithSat(slot, e) ==
    [t \in DOMAIN slot \cup TimesInView(e) |->
        At(slot, t) \cup IF t \in TimesInView(e) THEN {e.sat} ELSE {}]

\* One iteration; the order of the entities is the one the Store sends.
Visit(e) ==
    /\ e \in todo
    /\ todo' = todo \ {e}
    /\ IF Skipped(e)
       THEN UNCHANGED <<points, time_grid>>
       ELSE /\ time_grid' = time_grid \cup SampleTimes(e)
            /\ points' = [p \in DOMAIN points \cup {e.point} |->
                             IF p = e.point THEN WithSat(SlotOf(p), e) ELSE points[p]]
    /\ UNCHANGED <<entities, result>>

\* availability_by_k[k][i]: the share of the grid, as its two numbers.
Counts(p) ==
    [k \in KValues |-> [good |-> Cardinality({t \in time_grid : Cardinality(At(points[p], t)) >= k}),
                        of   |-> Cardinality(time_grid)]]

Reduce ==
    /\ todo = {} /\ result = None
    /\ result' = IF DOMAIN points = {} THEN ValueError ELSE [p \in DOMAIN points |-> Counts(p)]
    /\ UNCHANGED <<entities, todo, points, time_grid>>

Stop == result # None /\ UNCHANGED vars

Init ==
    /\ entities \in SUBSET Segments /\ todo = entities
    /\ points = [p \in {} |-> 0] /\ time_grid = {}
    /\ result = None

Next == (\E e \in Segments : Visit(e)) \/ Reduce \/ Stop

Spec == Init /\ [][Next]_vars

-----------------------------------------------------------------------------
(***************************************************************************)
(* Reference: what the segments say, read in their true layout.            *)
(***************************************************************************)
Read == {e \in entities : ~Skipped(e)}

TrueSamples(e) == IF e.rows THEN Length(e.acc) \div e.platforms ELSE Length(e.acc)

\* The instants e samples, and those at which its satellite can be reached.
Sampled(e) == {e.start + i * e.step : i \in 0 .. TrueSamples(e) - 1}
Reached(e) ==
    {e.start + (j % TrueSamples(e)) * e.step : j \in {i \in DOMAIN e.acc : e.acc[i]}}

Times == UNION {Sampled(e) : e \in Read}
InView(p, t) == {e.sat : e \in {f \in Read : f.point = p /\ t \in Reached(f)}}

Share(p, k) == Cardinality({t \in Times : Cardinality(InView(p, t)) >= k})

-----------------------------------------------------------------------------
(***************************************************************************)
(* Properties                                                              *)
(***************************************************************************)
Done == result \notin {None, ValueError}

TypeOK ==
    /\ todo \subseteq entities /\ entities \subseteq Segments
    /\ DOMAIN points \subseteq {e.point : e \in Segments}
    /\ \A p \in DOMAIN points :
          DOMAIN points[p] \subseteq time_grid /\ \A t \in DOMAIN points[p] : points[p][t] # {}
    /\ Done => \A p \in DOMAIN points : \A k \in KValues :
          result[p][k].good \in 0 .. result[p][k].of /\ result[p][k].of > 0

\* Whatever the order, the result has a point for each one the segments name,
\* and counts the distinct satellites in view at each sample time: antennas of
\* one satellite, and buckets that meet at a sample, do not count twice.  There
\* is an error only if no segment could be used.
ResultIsUnion ==
    /\ result = ValueError => Read = {}
    /\ Done => /\ DOMAIN result = {e.point : e \in Read}
               /\ \A p \in DOMAIN result, k \in KValues :
                     result[p][k] = [good |-> Share(p, k), of |-> Cardinality(Times)]
=============================================================================
