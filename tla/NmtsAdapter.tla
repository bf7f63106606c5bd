------------------------------ MODULE NmtsAdapter ------------------------------
(***************************************************************************)
(* From NMTS platforms to orbital elements, and the accessors that read    *)
(* the same fields from protobuf messages and from JSON dictionaries.      *)
(*                                                                         *)
(* A platform's motion is a sequence of entries, each a oneof: arm says    *)
(* which field is set.  The two representations differ in what reading a   *)
(* field that is not set gives: None from a dictionary, a default instance *)
(* from a message (_access.py).  Angles are numbers modulo Circle.         *)
(***************************************************************************)
EXTENDS Integers, Sequences, FiniteSets, FiniteSetsExt, SequencesExt

CONSTANTS
    Circle,             \* units of a full turn
    MeanAnomaly,        \* MeanAnomaly[e][nu]: _true_to_mean
    MeanMotion,         \* MeanMotion[a]: units of angle per unit of time
    None

ASSUME NmtsAdapterAssumption ==
    /\ Circle \in Nat \ {0} /\ 0 \in DOMAIN MeanAnomaly /\ None \notin Int
    /\ \A e \in DOMAIN MeanAnomaly : MeanAnomaly[e] \in [0 .. Circle - 1 -> 0 .. Circle - 1]
    /\ \A nu \in 0 .. Circle - 1 : MeanAnomaly[0][nu] = nu
    /\ \A a \in DOMAIN MeanMotion : MeanMotion[a] \in Nat

\* An all-zero KeplerianElements, what an unset message field reads as.
DefaultKepler == [a |-> 0, ecc |-> 0, nu |-> 0, epoch |-> 0]

-----------------------------------------------------------------------------
\* What a loop that appends some of its items collects: the entries of s at the
\* positions P, in the order of s.
Position(P, k) == CHOOSE n \in P : Cardinality({m \in P : m <= n}) = k
At(s, P) == [k \in 1 .. Cardinality(P) |-> s[Position(P, k)]]

-----------------------------------------------------------------------------
(***************************************************************************)
(* _access.                                                                *)
(***************************************************************************)
\* _get(entry, "keplerian_elements").
GetKepler(entry) ==
    IF entry.arm = "keplerian_elements" THEN entry.kepler
    ELSE IF entry.repr = "proto" THEN DefaultKepler ELSE None

\* Mutant of KeplerOf: the arm of the oneof is not looked at.
KeplerOfUnchecked(entry) == GetKepler(entry)

\* _kepler: the elements of an entry whose set arm they are, else None.
KeplerOf(entry) ==
    IF entry.repr = "proto" /\ entry.arm # "keplerian_elements" THEN None ELSE GetKepler(entry)

\* bool(_get(platform, "is_external_system", False)): a message is truthy,
\* present or not.
TruthyExternal(p) == p.repr = "proto" \/ p.external

\* _is_external: presence for a message, the value for a dictionary.
IsExternal(p) == p.external

-----------------------------------------------------------------------------
(***************************************************************************)
(* platforms_to_elements.  Entities are given in the order of the store.   *)
(***************************************************************************)
IsPlatform(e) == e.kind = "ek_platform"

\* Only the first motion entry counts.
FirstKepler(p) == IF p.motion = <<>> THEN None ELSE KeplerOf(p.motion[1])

IsServed(p, include_external) == FirstKepler(p) # None /\ (IsExternal(p) => include_external)

SkipReason(p) ==
    IF FirstKepler(p) = None THEN "non-Keplerian motion" ELSE "external-system platform"

Served(entities, include_external) ==
    At(entities, {n \in DOMAIN entities : /\ IsPlatform(entities[n])
                                          /\ IsServed(entities[n], include_external)})

Epochs(rows) == {FirstKepler(p).epoch : p \in ToSet(rows)}

\* Mutant of MeanAnomalyAt: propagated the wrong way.
MeanAnomalyBackwards(kepler, t) ==
    (MeanAnomaly[kepler.ecc][kepler.nu] - MeanMotion[kepler.a] * (t - kepler.epoch)) % Circle

\* The mean anomaly at time t of elements given at their own epoch.
MeanAnomalyAt(kepler, t) ==
    (MeanAnomaly[kepler.ecc][kepler.nu] + MeanMotion[kepler.a] * (t - kepler.epoch)) % Circle

antenna_ids_for(platform_id, relationships) ==
    {r.z : r \in {s \in relationships : s.kind = "rk_contains" /\ s.a = platform_id}}

\* t_ref: given, or the earliest epoch of a served platform.
RefEpoch(rows, ref_epoch_s) ==
    IF ref_epoch_s # None THEN ref_epoch_s
    ELSE IF rows = <<>> THEN 0 ELSE Min(Epochs(rows))

platforms_to_elements(entities, relationships, ref_epoch_s, include_external) ==
    LET rows  == Served(entities, include_external)
        t_ref == RefEpoch(rows, ref_epoch_s)
    IN  [elems |-> [i \in DOMAIN rows |->
                      [a |-> FirstKepler(rows[i]).a, ecc |-> FirstKepler(rows[i]).ecc,
                       M |-> MeanAnomalyAt(FirstKepler(rows[i]), t_ref)]],
         meta |-> [i \in DOMAIN rows |->
                     [sat_id |-> rows[i].id,
                      antenna_ids |-> antenna_ids_for(rows[i].id, relationships)]],
         skipped |-> {[sat_id |-> p.id, reason |-> SkipReason(p)] :
                        p \in {q \in ToSet(entities) :
                                 IsPlatform(q) /\ ~IsServed(q, include_external)}},
         ref_epoch_s |-> t_ref]

\* probe_store: how many platforms it announces as "keplerian served".
probe_served(entities) ==
    Cardinality({n \in DOMAIN entities : /\ IsPlatform(entities[n])
                                         /\ FirstKepler(entities[n]) # None
                                         /\ ~TruthyExternal(entities[n])})

-----------------------------------------------------------------------------
\* The elements as they are dt later.
Propagated(elems, dt) ==
    [i \in DOMAIN elems |-> [elems[i] EXCEPT !.M = (@ + MeanMotion[elems[i].a] * dt) % Circle]]

=============================================================================
