----------------------------- MODULE MCConstellation -----------------------------
(***************************************************************************)
(* A constellation from the panel to an instance and back: the elements of *)
(* a panel's shells (Generators), put behind one another                   *)
(* (ConstellationConcat), made into a model (ModelGen, with the script it  *)
(* came from, TransformModel) that the NMTS adapter reads back; and the    *)
(* adapter on recordings of a store that changes (Recording).  They share  *)
(* no state: a behaviour is one of one of them.                            *)
(***************************************************************************)
EXTENDS Recording

CONSTANTS
    Templates, Constellations, Sites, RefEpochs, INSTALLED, WITHDRAWN, SEMIMAJOR_AXIS, PHASING_F,
    NModels, NSatOf, Uids,
    Turn, Panels, Presets, CUSTOM

VARIABLES
    user,
    template, elems, plane_uid, n_sites, ref_epoch_s,
    gen, cloned, slot_count, out, out_rels, prov,
    models, next, offset, plane_parts,
    panel, shells, parts

Gen == INSTANCE TransformModel WITH pc <- gen, i <- cloned

Concat == INSTANCE ConstellationConcat
Gens == INSTANCE Generators WITH Circle <- Turn

ASSUME ConstellationAssumption ==
    /\ Gen!ModelGenAssumption /\ Gen!TransformAssumption
    /\ Concat!ConcatAssumption /\ Gens!GeneratorsAssumption

-----------------------------------------------------------------------------
\* An eccentric orbit's true anomalies 1 to 3 are one unit ahead of the mean.
MCCircle == 8
MCMeanAnomaly ==
    [ecc \in {0, 1} |->
        [nu \in 0 .. 7 |-> IF ecc = 0 THEN nu
                          ELSE CASE nu \in 1 .. 3 -> nu - 1 [] nu \in 5 .. 7 -> (nu + 1) % 8
                                 [] OTHER -> nu]]
MCMeanMotion == (0 :> 0) @@ (1 :> 3) @@ (2 :> 1)

\* Platforms over every mix of motions: circular and eccentric orbits, two epochs,
\* two altitudes, a geodetic entry, no entry, and an entry that is Keplerian only
\* in second place.
Kepler(a, ecc, nu, epoch) ==
    [arm |-> "keplerian_elements", kepler |-> [a |-> a, ecc |-> ecc, nu |-> nu, epoch |-> epoch]]
Geodetic == [arm |-> "geodetic_wgs84", kepler |-> None]
MCMotions == {<<>>, <<Geodetic>>, <<Geodetic, Kepler(1, 0, 2, 1)>>,
              <<Kepler(1, 0, 2, 0)>>, <<Kepler(1, 1, 2, 1)>>, <<Kepler(2, 0, 0, 2)>>}

MCStateNumber == (INSTALLED :> 3) @@ (WITHDRAWN :> 4)

\* Two templates: a small one, and one with a second satellite and terminal, an
\* inter-satellite link end and a feeder relationship, all of which must go.
Rel(a, z) == [a |-> a, z |-> z]
Named(f, k, part) == [family |-> f, number |-> k, part |-> part]
Sat(k, part) == Named("satellite", k, part)
Ut(k, part) == Named("user-terminal", k, part)
Gw(part) == Named("gateway", 0, part)

SmallTemplate ==
    [ents |-> <<Sat(1, "platform"), Ut(1, "platform"), Ut(1, "route-fn"),
                Gw("platform"), Gw("route-fn")>>,
     rels |-> <<Rel(Ut(1, "platform"), Ut(1, "route-fn")), Rel(Gw("platform"), Gw("route-fn"))>>]

FullTemplate ==
    [ents |-> <<Gw("platform"), Sat(1, "platform"), Sat(1, "antenna"), Sat(2, "platform"),
                Ut(1, "platform"), Ut(1, "route-fn"), Ut(2, "route-fn"),
                Gw("route-fn"), Named("drop", 1, "oisl")>>,
     rels |-> <<Rel(Sat(1, "platform"), Sat(1, "antenna")), Rel(Gw("platform"), Gw("route-fn")),
                Rel(Sat(1, "platform"), Named("drop", 1, "oisl")),
                Rel(Gw("platform"), Sat(2, "platform")),
                Rel(Ut(1, "platform"), Ut(1, "route-fn"))>>]

MCTemplates == {SmallTemplate, FullTemplate}

\* Up to three satellites in up to three planes, the unknown plane -1 included,
\* and the Walker constellations of up to two planes of up to two satellites:
\* their anomalies, 45 degrees a unit, written out.
Rows == [a : {1}, ecc : {0}, M : {0, 2}]
Shell(anomalies, planes) ==
    [elems |-> [k \in DOMAIN anomalies |-> [a |-> 1, ecc |-> 0, M |-> anomalies[k]]],
     plane_uid |-> planes]
MCConstellations ==
    UNION {[elems : [1 .. n -> Rows], plane_uid : [1 .. n -> {-1, 0, 3}]] : n \in 0 .. 3}
        \cup {Shell(<<0>>, <<0>>), Shell(<<0, 4>>, <<0, 0>>), Shell(<<0, 4>>, <<0, 1>>),
              Shell(<<0, 4, 2, 6>>, <<0, 0, 1, 1>>)}

\* Three models to concatenate, of one or two satellites with every assignment of
\* planes 0, 1, 2 and unknown: models that know no plane, and ids with holes.
MCNSatOf == [m \in 0 .. 2 |-> IF m = 2 THEN 1 ELSE 2]
MCUids == -1 .. 2

\* Up to four planes of up to three satellites, F beyond the number of planes, a
\* second shell, and a preset of two.
MCPanels ==
    [scenario : {"Custom (Walker)"}, planes1 : 1 .. 4, spp1 : 1 .. 3, phase1 : 0 .. 4,
     alt1 : {1}, inc1 : {1}, shell2_on : BOOLEAN,
     planes2 : {3}, spp2 : {2}, phase2 : {1}, alt2 : {1}, inc2 : {2}]
        \cup
    [scenario : {"Full"}, planes1 : {1}, spp1 : {1}, phase1 : {0}, alt1 : {1}, inc1 : {1},
     shell2_on : {FALSE}, planes2 : {1}, spp2 : {1}, phase2 : {0}, alt2 : {1}, inc2 : {1}]
MCPresets ==
    [name \in {"Full"} |-> <<[kind |-> "legacy", T |-> 12, P |-> 4, F |-> 1, a |-> 1, inc |-> 1],
                             [kind |-> "legacy", T |-> 4, P |-> 2, F |-> 1, a |-> 1, inc |-> 2]>>]

-----------------------------------------------------------------------------
generator == <<template, elems, plane_uid, n_sites, ref_epoch_s,
               gen, cloned, slot_count, out, out_rels, prov>>
concat == <<models, next, offset, plane_parts>>
widgets == <<panel, shells, parts>>
MCvars == <<user, vars, generator, concat, widgets>>

\* Who does not take part in a behaviour has one of its initial states.
MCInit ==
    /\ user \in {"record", "build_model", "concat", "panel"}
    /\ user # "record" =>
          stored_as = "dict" /\ platforms = [id \in Ids |-> None] /\ intents = <<INSTALLED>>
    /\ user # "build_model" => template = SmallTemplate /\ elems = <<>> /\ n_sites = 0
    /\ user # "concat" => models = [m \in Concat!Models |-> [s \in Concat!SatsOf(m) |-> 0]]
    /\ user # "panel" => panel \in {w \in Panels : w.scenario = "Full"}
    /\ Init /\ Gen!Init /\ Concat!Init /\ Gens!Init

RecordStep == user = "record" /\ Next /\ UNCHANGED <<user, generator, concat, widgets>>
BuildStep == user = "build_model" /\ Gen!Next /\ UNCHANGED <<user, vars, concat, widgets>>
ConcatStep == user = "concat" /\ Concat!Next /\ UNCHANGED <<user, vars, generator, widgets>>
PanelStep == user = "panel" /\ Gens!Next /\ UNCHANGED <<user, vars, generator, concat>>

MCNext == RecordStep \/ BuildStep \/ ConcatStep \/ PanelStep

MCSpec == MCInit /\ [][MCNext]_MCvars

-----------------------------------------------------------------------------
(***************************************************************************)
(* The properties are those of the modules, stated there.                  *)
(***************************************************************************)
\* ModelGen: ids are unique, and the model refers to nothing it does not contain.
ModelIsConsistent == Gen!ModelIsConsistent

\* TransformModel: the script and the generator build the same rows.
TransformAgrees == Gen!TransformAgrees

\* ModelGen: the adapter reads back the constellation a model was built from.
CircularComesBack == Gen!CircularComesBack

\* ConstellationConcat: shells neither merge planes nor split those of one another.
PlanesArePreserved == Concat!PlanesArePreserved

\* Generators: one shell, however written down, is one model, the Walker pattern.
GeneratorsAgree == Gens!GeneratorsAgree
=============================================================================
