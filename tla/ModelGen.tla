-------------------------------- MODULE ModelGen --------------------------------
(***************************************************************************)
(* modelgen.build_model: clones the satellite-1 and user-terminal-1        *)
(* subtrees of a template once per satellite and per site, passes the rest *)
(* of the template through, and adds two demands per user terminal.        *)
(*                                                                         *)
(* An id is its family, its number and the part of the subtree it names;   *)
(* the text substitution changes the number.  Family "drop" stands for the *)
(* ids that contain "oisl" or "-to-satellite-".                            *)
(***************************************************************************)
EXTENDS NmtsAdapter

CONSTANTS
    Templates,      \* possible templates: [ents, rels] with sequences of ids and pairs
    Constellations, \* possible arguments (elems, plane_uid)
    Sites,          \* possible numbers of user-terminal sites
    RefEpochs       \* possible values of ref_epoch_s

Id(family, number, part) == [family |-> family, number |-> number, part |-> part]
PopRoute == Id("gateway", 0, "route-fn")

IdRecords == [family : STRING, number : Nat, part : STRING]

\* A relationship of a template joins entities of the template; a template has
\* one platform of satellite-1, and a terminal and a point of presence to route
\* demands between.
ModelGenAssumption ==
    /\ \A t \in Templates :
        /\ t.ents \in Seq(IdRecords) /\ IsInjective(t.ents)
        /\ t.rels \in Seq([a : ToSet(t.ents), z : ToSet(t.ents)])
        /\ {PopRoute, Id("user-terminal", 1, "route-fn"), Id("satellite", 1, "platform")}
              \subseteq ToSet(t.ents)
    /\ Sites \subseteq Nat /\ RefEpochs \subseteq Int
    /\ \A c \in Constellations :
        /\ c.plane_uid \in Seq(Int) /\ Len(c.plane_uid) = Len(c.elems)
        /\ c.elems \in Seq([a : DOMAIN MeanMotion, ecc : DOMAIN MeanAnomaly, M : 0 .. Circle - 1])

VARIABLES
    template, elems, plane_uid, n_sites, ref_epoch_s,   \* the arguments
    pc,             \* "sort", "satellites", "terminals", "done"
    i,              \* satellites or terminals cloned so far
    slot_count,     \* slot_count[p]: satellites of plane p so far
    out,            \* entity_blocks: [id, grid, kepler]
    out_rels,       \* relationship_blocks: [a, z]
    prov            \* provisioning_entities: [head, end]

arguments == <<template, elems, plane_uid, n_sites, ref_epoch_s>>
vars == <<arguments, pc, i, slot_count, out, out_rels, prov>>

-----------------------------------------------------------------------------
Clones == {"satellite", "user-terminal"}

\* _family gives None for these.
PassesThrough(id) == id.family \notin Clones \cup {"drop"}

IsTemplate(id, family) == id.family = family /\ id.number = 1

Block(id) == [id |-> id, grid |-> None, kepler |-> None]

\* Mutant of KeptRels: relationships that join two families are kept as well.
KeptRelsAnyFamily(family) ==
    At(template.rels, {n \in DOMAIN template.rels : \/ IsTemplate(template.rels[n].a, family)
                                                    \/ IsTemplate(template.rels[n].z, family)})

KeptRels(family) ==
    At(template.rels, {n \in DOMAIN template.rels : /\ IsTemplate(template.rels[n].a, family)
                                                    /\ IsTemplate(template.rels[n].z, family)})

\* The two classifying loops: what is neither kept nor a template is dropped.
Sort ==
    /\ pc = "sort"
    /\ LET kept == At(template.ents, {n \in DOMAIN template.ents : PassesThrough(template.ents[n])})
       IN  out' = [b \in DOMAIN kept |-> Block(kept[b])]
    /\ out_rels' = At(template.rels, {n \in DOMAIN template.rels :
                                         /\ PassesThrough(template.rels[n].a)
                                         /\ PassesThrough(template.rels[n].z)})
    /\ pc' = "satellites" /\ i' = 0
    /\ UNCHANGED <<arguments, slot_count, prov>>

\* planes: the rank of a plane_uid among those in use.
PlaneRank(p) == Cardinality({q \in ToSet(plane_uid) : q < p})

\* Mutant of SlotOf: one counter for all planes.
SlotOfAll(s) == s

\* The slot satellite s gets: the next of its plane.
SlotOf(s) == slot_count[PlaneRank(plane_uid[s])] + 1

\* The text substitution on an id, an endpoint: satellite-1- -> satellite-i-.
Renumbered(id, k) == [id EXCEPT !.number = k]

\* Mutant of PatchedKepler: the template's epoch stays.
PatchedKeplerNoEpoch(s) ==
    [a |-> elems[s].a, ecc |-> elems[s].ecc, nu |-> elems[s].M, epoch |-> 0]

\* The Keplerian elements patched into satellite s's platform: the anomaly of
\* the row goes into true_anomaly_deg.
PatchedKepler(s) ==
    [a |-> elems[s].a, ecc |-> elems[s].ecc, nu |-> elems[s].M, epoch |-> ref_epoch_s]

SatelliteBlock(id, s) ==
    [id |-> Renumbered(id, s),
     grid |-> <<PlaneRank(plane_uid[s]) + 1, SlotOf(s)>>,
     kepler |-> IF id.part = "platform" THEN PatchedKepler(s) ELSE None]

RenumberedRels(rels, k) ==
    [r \in DOMAIN rels |-> [a |-> Renumbered(rels[r].a, k), z |-> Renumbered(rels[r].z, k)]]

TemplateOf(family) ==
    At(template.ents, {n \in DOMAIN template.ents : IsTemplate(template.ents[n], family)})

Satellite ==
    /\ pc = "satellites" /\ i < Len(elems)
    /\ i' = i + 1
    /\ slot_count' = [slot_count EXCEPT ![PlaneRank(plane_uid[i'])] = @ + 1]
    /\ LET sat_tpl == TemplateOf("satellite")
       IN  out' = out \o [b \in DOMAIN sat_tpl |-> SatelliteBlock(sat_tpl[b], i')]
    /\ out_rels' = out_rels \o RenumberedRels(KeptRels("satellite"), i')
    /\ UNCHANGED <<arguments, pc, prov>>

SatellitesDone ==
    /\ pc = "satellites" /\ i = Len(elems)
    /\ pc' = "terminals" /\ i' = 0
    /\ UNCHANGED <<arguments, slot_count, out, out_rels, prov>>

TerminalRoute(k) == Id("user-terminal", k, "route-fn")

\* A site's subtree, and its demands in both directions.
Terminal ==
    /\ pc = "terminals" /\ i < n_sites
    /\ i' = i + 1
    /\ LET ut_tpl == TemplateOf("user-terminal")
       IN  out' = out \o [b \in DOMAIN ut_tpl |-> Block(Renumbered(ut_tpl[b], i'))]
    /\ out_rels' = out_rels \o RenumberedRels(KeptRels("user-terminal"), i')
    /\ prov' = prov \o <<[head |-> PopRoute, end |-> TerminalRoute(i')],
                         [head |-> TerminalRoute(i'), end |-> PopRoute]>>
    /\ UNCHANGED <<arguments, pc, slot_count>>

Return ==
    /\ pc = "terminals" /\ i = n_sites
    /\ pc' = "done"
    /\ UNCHANGED <<arguments, i, slot_count, out, out_rels, prov>>

Stop == pc = "done" /\ UNCHANGED vars

-----------------------------------------------------------------------------
Init ==
    /\ template \in Templates
    /\ \E c \in Constellations : elems = c.elems /\ plane_uid = c.plane_uid
    /\ n_sites \in Sites /\ ref_epoch_s \in RefEpochs
    /\ pc = "sort" /\ i = 0 /\ out = <<>> /\ out_rels = <<>> /\ prov = <<>>
    /\ slot_count = [p \in 0 .. Cardinality(ToSet(plane_uid)) - 1 |-> 0]

Next == Sort \/ Satellite \/ SatellitesDone \/ Terminal \/ Return \/ Stop

Spec == Init /\ [][Next]_vars

-----------------------------------------------------------------------------
(***************************************************************************)
(* Properties                                                              *)
(***************************************************************************)
TypeOK ==
    /\ pc \in {"sort", "satellites", "terminals", "done"}
    /\ i \in 0 .. (IF pc \in {"sort", "satellites"} THEN Len(elems) ELSE n_sites)
    /\ \A p \in DOMAIN slot_count : slot_count[p] \in 0 .. Len(elems)
    /\ Len(prov) = IF pc \in {"terminals", "done"} THEN 2 * i ELSE 0

BlockIds == {out[b].id : b \in DOMAIN out}

\* The finished model can be inserted and refers to nothing it does not contain,
\* whatever of the template was dropped or renumbered: no id is generated twice,
\* and endpoints of relationships and ends of demands are among the ids.
ModelIsConsistent ==
    pc = "done" =>
        /\ Cardinality(BlockIds) = Len(out)
        /\ \A r \in ToSet(out_rels) : {r.a, r.z} \subseteq BlockIds
        /\ \A d \in ToSet(prov) : {d.head, d.end} \subseteq BlockIds

\* The platforms of the model as the adapter finds them in the store.
Platforms ==
    LET blocks == At(out, {n \in DOMAIN out : out[n].id.part = "platform"})
    IN  [b \in DOMAIN blocks |->
           [id |-> blocks[b].id, kind |-> "ek_platform", repr |-> "proto", external |-> FALSE,
            motion |-> <<[repr |-> "proto", kepler |-> blocks[b].kepler,
                          arm |-> IF blocks[b].kepler = None THEN "geodetic_wgs84"
                                  ELSE "keplerian_elements"]>>]]

PulledBack == platforms_to_elements(Platforms, {}, None, FALSE)

\* Pulling the generated model gives back the constellation it was built from,
\* at its epoch: one satellite each, none of the ground platforms.
CircularComesBack ==
    pc = "done" /\ elems # <<>> /\ (\A s \in DOMAIN elems : elems[s].ecc = 0) =>
        PulledBack.elems = elems /\ PulledBack.ref_epoch_s = ref_epoch_s
=============================================================================
