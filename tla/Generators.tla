------------------------------- MODULE Generators -------------------------------
(***************************************************************************)
(* From the widgets of a Walker panel to the elements of its satellites:   *)
(* build_constellation, the generators of constellation/model.py, and      *)
(* constellation_model up to the concatenation (ConstellationConcat).      *)
(* The same Walker arithmetic is written out again in two scripts.         *)
(*                                                                         *)
(* Angles are in units of 1 / Circle of a turn; every constellation built  *)
(* divides Circle.  An element row keeps raan, inc, a and M; eccentricity  *)
(* and the argument of perigee are copied like inc.                        *)
(***************************************************************************)
EXTENDS Integers, FiniteSets, Sequences, SequencesExt

CONSTANTS
    Circle,     \* units of a turn
    Panels,     \* states of the widgets: [scenario, planes1, spp1, phase1, shell2_on, ...]
    Presets,    \* JIO_SCENARIOS: name |-> sequence of shells
    CUSTOM,     \* "Custom (Walker)"
    None

\* walker_model refuses T satellites that P planes do not share evenly; an angle
\* of the constellation is a whole number of units.
Fits(T, P) == T \in Nat \ {0} /\ P \in Nat \ {0} /\ T % P = 0 /\ Circle % T = 0

GeneratorsAssumption ==
    /\ Circle \in Nat \ {0}
    /\ \A name \in DOMAIN Presets :
        /\ Presets[name] \in Seq([kind : {"legacy"}, T : Nat, P : Nat, F : Nat, a : Int, inc : Int])
        /\ \A n \in DOMAIN Presets[name] : Fits(Presets[name][n].T, Presets[name][n].P)
    /\ \A w \in Panels :
        IF w.scenario # CUSTOM THEN w.scenario \in DOMAIN Presets
        ELSE /\ {w.alt1, w.inc1, w.alt2, w.inc2} \subseteq Int /\ {w.phase1, w.phase2} \subseteq Nat
             /\ {w.planes1, w.spp1, w.planes2, w.spp2} \subseteq Nat
             /\ Fits(w.planes1 * w.spp1, w.planes1) /\ Fits(w.planes2 * w.spp2, w.planes2)

VARIABLES
    panel,      \* the widgets
    shells,     \* Constellation.shells; <<>> before it is built
    parts       \* constellation_model: the models of the shells visited so far

vars == <<panel, shells, parts>>

-----------------------------------------------------------------------------
(***************************************************************************)
(* The generators                                                          *)
(***************************************************************************)
\* n steps of a turn divided by `of'.
Angle(n, of) == (n * Circle) \div of

\* Mutant of Row: anomalies are not reduced to a turn.
RowUnreduced(a, inc, raan, M) == [a |-> a, inc |-> inc, raan |-> raan % Circle, M |-> M]

Row(a, inc, raan, M) == [a |-> a, inc |-> inc, raan |-> raan % Circle, M |-> M % Circle]

Below(r, q) ==
    \/ r.raan < q.raan
    \/ r.raan = q.raan /\ r.inc < q.inc
    \/ r.raan = q.raan /\ r.inc = q.inc /\ r.a < q.a

\* np.unique(return_inverse) on (raan, inc, a): the rank of a row's plane.
physical_plane_uid(elems) ==
    LET keys == {[elems[k] EXCEPT !.M = 0] : k \in DOMAIN elems}
    IN  [k \in DOMAIN elems |-> Cardinality({q \in keys : Below(q, elems[k])})]

Model(elems, slots) ==
    [elems |-> elems, plane_uid |-> physical_plane_uid(elems), slot_id |-> slots]

\* Mutant of walker_model: the phasing runs along the satellites, not the planes.
walker_model_per_satellite(template, T, P, F) ==
    LET S == T \div P
        p(k) == (k - 1) \div S
        s(k) == (k - 1) % S
    IN  Model([k \in 1 .. T |-> Row(template.a, template.inc, Angle(p(k), P),
                  Angle(s(k), S) + Angle((k - 1) * F, T))],
              [k \in 1 .. T |-> s(k)])

\* P planes of S satellites, plane by plane.
walker_model(template, T, P, F) ==
    LET S == T \div P
        p(k) == (k - 1) \div S
        s(k) == (k - 1) % S
    IN  Model([k \in 1 .. T |-> Row(template.a, template.inc, Angle(p(k), P),
                  Angle(s(k), S) + Angle(p(k) * F, T))],
              [k \in 1 .. T |-> s(k)])

\* What a plane or a slot does not say, the template does.
Given(x, default) == IF x = None THEN default ELSE x

\* planes[i] = [raan, phases, a, inc].
explicit_planes_model(template, planes) ==
    LET OfPlane(pl) == [s \in DOMAIN pl.phases |->
            [row |-> Row(Given(pl.a, template.a), Given(pl.inc, template.inc), pl.raan, pl.phases[s]),
             slot |-> s - 1]]
        rows == FlattenSeq([i \in DOMAIN planes |-> OfPlane(planes[i])])
    IN  Model([k \in DOMAIN rows |-> rows[k].row], [k \in DOMAIN rows |-> rows[k].slot])

\* slots[k] = [raan, M, slot_id, a, inc].
phase_slot_model(template, slots) ==
    Model([k \in DOMAIN slots |-> Row(Given(slots[k].a, template.a), Given(slots[k].inc, template.inc),
                                      slots[k].raan, slots[k].M)],
          [k \in DOMAIN slots |-> slots[k].slot_id])

\* Of a legacy Shell only the elements are taken: its slots are numbered through.
LegacyModel(sh) ==
    [walker_model([a |-> sh.a, inc |-> sh.inc], sh.T, sh.P, sh.F)
        EXCEPT !.slot_id = [k \in 1 .. sh.T |-> k - 1]]

\* GeneralizedShell.to_model, and the Shell of the panels and the presets.
ModelOf(sh) ==
    CASE sh.kind = "legacy" -> LegacyModel(sh)
      [] sh.kind = "walker" -> walker_model(sh.template, sh.T, sh.P, sh.F)
      [] sh.kind = "explicit_planes" -> explicit_planes_model(sh.template, sh.planes)
      [] sh.kind = "phase_slot" -> phase_slot_model(sh.template, sh.slots)

-----------------------------------------------------------------------------
(***************************************************************************)
(* The panel                                                               *)
(***************************************************************************)
Least(x, y) == IF x < y THEN x ELSE y

CustomShell(planes, spp, phase, alt, inc) ==
    [kind |-> "legacy", T |-> planes * spp, P |-> planes, F |-> Least(phase, planes - 1), a |-> alt, inc |-> inc]

\* build_constellation, and the builder of the live panel.
Build ==
    /\ shells = <<>>
    /\ shells' =
          IF panel.scenario # CUSTOM THEN Presets[panel.scenario]
          ELSE <<CustomShell(panel.planes1, panel.spp1, panel.phase1, panel.alt1, panel.inc1)>>
               \o IF panel.shell2_on
                  THEN <<CustomShell(panel.planes2, panel.spp2, panel.phase2, panel.alt2, panel.inc2)>>
                  ELSE <<>>
    /\ UNCHANGED <<panel, parts>>

\* One turn of constellation_model.
Part ==
    /\ Len(parts) < Len(shells)
    /\ parts' = Append(parts, ModelOf(shells[Len(parts) + 1]))
    /\ UNCHANGED <<panel, shells>>

\* The user changes the panel and runs again: nothing is kept of the last run.
Touch ==
    /\ shells # <<>> /\ Len(parts) = Len(shells)
    /\ panel' \in Panels
    /\ shells' = <<>> /\ parts' = <<>>

Init == panel \in Panels /\ shells = <<>> /\ parts = <<>>

Next == Build \/ Part \/ Touch

Spec == Init /\ [][Next]_vars

-----------------------------------------------------------------------------
(***************************************************************************)
(* Properties                                                              *)
(***************************************************************************)
\* raan_deg and true_anomaly_deg as jio_min_scenario and transform_fss01_model
\* compute them for satellite k of a Walker shape.
ScriptAngles(k, P, S, F) ==
    LET p == (k - 1) \div S
        s == (k - 1) % S
    IN  [raan |-> p * (Circle \div P),
         M |-> ((s * (Circle \div S)) + (p * F * (Circle \div (P * S)))) % Circle]

\* The shape of a shell as explicit planes and as slots.
AsPlanes(sh) ==
    LET S == sh.T \div sh.P
    IN  [i \in 1 .. sh.P |->
            [raan |-> Angle(i - 1, sh.P), a |-> None, inc |-> None,
             phases |-> [s \in 1 .. S |->
                Angle(s - 1, S) + Angle((i - 1) * sh.F, sh.T)]]]

AsSlots(m) ==
    [k \in DOMAIN m.elems |-> [raan |-> m.elems[k].raan, M |-> m.elems[k].M,
                               slot_id |-> m.slot_id[k], a |-> None, inc |-> None]]

\* A Walker shell looks the same from each of its planes, over the seam between
\* the last plane and the first as well, whatever F the panel allows; its
\* satellites are apart, and those with one plane_uid are a plane.
WalkerIsSymmetric(sh, m) ==
    LET Turned(r) == Row(r.a, r.inc, r.raan + Angle(1, sh.P), r.M + Angle(sh.F, sh.T))
    IN  /\ Cardinality(ToSet(m.elems)) = sh.T
        /\ {Turned(r) : r \in ToSet(m.elems)} = ToSet(m.elems)
        /\ \A k, l \in DOMAIN m.elems :
              m.plane_uid[k] = m.plane_uid[l] <=> m.elems[k].raan = m.elems[l].raan

\* The shape of a legacy shell in the three ways a shell can be written down.
ByShape(sh) ==
    [kind |-> "walker", template |-> [a |-> sh.a, inc |-> sh.inc], T |-> sh.T, P |-> sh.P, F |-> sh.F]
ByPlanes(sh) ==
    [kind |-> "explicit_planes", template |-> [a |-> sh.a, inc |-> sh.inc], planes |-> AsPlanes(sh)]
BySlots(sh, m) ==
    [kind |-> "phase_slot", template |-> [a |-> sh.a, inc |-> sh.inc], slots |-> AsSlots(m)]

\* However a Walker shell is written down, by shape, plane by plane or slot by
\* slot, it becomes the same model, and the scripts that generate models for an
\* instance put every satellite where the analysis puts it; and it is symmetric.
GeneratorsAgree ==
    \A n \in DOMAIN parts :
        LET sh == shells[n]
            m == ModelOf(ByShape(sh))
        IN  /\ WalkerIsSymmetric(sh, m)
            /\ parts[n].elems = m.elems /\ parts[n].plane_uid = m.plane_uid
            /\ ModelOf(ByPlanes(sh)) = m /\ ModelOf(BySlots(sh, m)) = m
            /\ \A k \in 1 .. sh.T :
                  [raan |-> m.elems[k].raan, M |-> m.elems[k].M]
                      = ScriptAngles(k, sh.P, sh.T \div sh.P, sh.F)
=============================================================================
