----------------------------- MODULE TransformModel -----------------------------
(***************************************************************************)
(* tools/transform_fss01_model.py: the script build_model came from.  It   *)
(* clones the same template for a Walker constellation whose shape is a    *)
(* constant, with plane and slot computed from the satellite's number      *)
(* where build_model counts them.  Ids and blocks are those of ModelGen.   *)
(* Anomalies are in units of 360 / Circle degrees.                         *)
(***************************************************************************)
EXTENDS ModelGen

CONSTANTS SEMIMAJOR_AXIS, PHASING_F

\* None is none of the families.
TransformAssumption == None \notin {"drop", "sat", "ut"}

-----------------------------------------------------------------------------
\* The clone family an id belongs to; None is global.
owned(id) ==
    CASE id.family = "drop" -> "drop"
      [] id.family = "satellite" -> "sat"
      [] id.family = "user-terminal" -> "ut"
      [] OTHER -> None

\* sat_tpl, sat_rel_tpl; ut_tpl, ut_rel_tpl.
FirstOf(fam, id) == owned(id) = fam /\ id.number = 1
Tpl(fam) == At(template.ents, {n \in DOMAIN template.ents : FirstOf(fam, template.ents[n])})
RelTpl(fam) == At(template.rels, {n \in DOMAIN template.rels : /\ FirstOf(fam, template.rels[n].a)
                                                               /\ FirstOf(fam, template.rels[n].z)})

KeptEnts == At(template.ents, {n \in DOMAIN template.ents : owned(template.ents[n]) = None})
kept_rels == At(template.rels, {n \in DOMAIN template.rels : /\ owned(template.rels[n].a) = None
                                                             /\ owned(template.rels[n].z) = None})

\* Of a satellite: its plane and slot, from 0, and its anomaly.
p(k, SATS_PER_PLANE) == (k - 1) \div SATS_PER_PLANE
s(k, SATS_PER_PLANE) == (k - 1) % SATS_PER_PLANE
ta(k, N_PLANES, SATS_PER_PLANE) ==
    (s(k, SATS_PER_PLANE) * (Circle \div SATS_PER_PLANE)
        + p(k, SATS_PER_PLANE) * PHASING_F * (Circle \div (N_PLANES * SATS_PER_PLANE))) % Circle

SatBlock(id, k, N_PLANES, SATS_PER_PLANE) ==
    [id |-> Renumbered(id, k),
     grid |-> <<p(k, SATS_PER_PLANE) + 1, s(k, SATS_PER_PLANE) + 1>>,
     kepler |-> IF id.part # "platform" THEN None
                ELSE [a |-> SEMIMAJOR_AXIS, ecc |-> 0,
                      nu |-> ta(k, N_PLANES, SATS_PER_PLANE), epoch |-> ref_epoch_s]]

\* One turn of a loop: the blocks of a template for number k.
SatBlocks(k, N_PLANES, SATS_PER_PLANE) ==
    LET tpl == Tpl("sat") IN [b \in DOMAIN tpl |-> SatBlock(tpl[b], k, N_PLANES, SATS_PER_PLANE)]
UtBlocks(k) ==
    LET tpl == Tpl("ut") IN [b \in DOMAIN tpl |-> Block(Renumbered(tpl[b], k))]
RelClones(fam, k) ==
    LET tpl == RelTpl(fam)
    IN  [b \in DOMAIN tpl |-> [a |-> Renumbered(tpl[b].a, k), z |-> Renumbered(tpl[b].z, k)]]

EntityBlocks(N_PLANES, SATS_PER_PLANE, N_UTS) ==
    [b \in DOMAIN KeptEnts |-> Block(KeptEnts[b])]
        \o FlattenSeq([k \in 1 .. N_PLANES * SATS_PER_PLANE |-> SatBlocks(k, N_PLANES, SATS_PER_PLANE)])
        \o FlattenSeq([k \in 1 .. N_UTS |-> UtBlocks(k)])

new_rels(N_SATS, N_UTS) ==
    kept_rels \o FlattenSeq([k \in 1 .. N_SATS |-> RelClones("sat", k)])
              \o FlattenSeq([k \in 1 .. N_UTS |-> RelClones("ut", k)])

Requests(N_UTS) ==
    FlattenSeq([k \in 1 .. N_UTS |-> <<[head |-> PopRoute, end |-> TerminalRoute(k)],
                                       [head |-> TerminalRoute(k), end |-> PopRoute]>>])

-----------------------------------------------------------------------------
\* The constellation of the script's constants, as the arguments of build_model.
Walker(N_PLANES, SATS_PER_PLANE) ==
    [elems |-> [k \in 1 .. N_PLANES * SATS_PER_PLANE |->
                  [a |-> SEMIMAJOR_AXIS, ecc |-> 0, M |-> ta(k, N_PLANES, SATS_PER_PLANE)]],
     plane_uid |-> [k \in 1 .. N_PLANES * SATS_PER_PLANE |-> p(k, SATS_PER_PLANE)]]

\* The Model-tab generator and the script it was taken from build the same rows
\* of the same Walker constellation: the plane and the slot that build_model
\* counts are those the script computes, and every id is in the same place.
TransformAgrees ==
    pc = "done" =>
        \A planes, per_plane \in 1 .. Len(elems) :
            [elems |-> elems, plane_uid |-> plane_uid] = Walker(planes, per_plane) =>
                /\ out = EntityBlocks(planes, per_plane, n_sites)
                /\ out_rels = new_rels(Len(elems), n_sites)
                /\ prov = Requests(n_sites)
=============================================================================
