------------------------------ MODULE JioScenario ------------------------------
(***************************************************************************)
(* The scenario script of the Jio instance (jio_min_scenario.py): a        *)
(* Walker constellation, gateways wired to a point of presence, terminals  *)
(* and their demands.  Every node gets its MPLS labels and its router      *)
(* address from a counter of its kind and a base; nothing but the bases    *)
(* keeps them apart, on one network.                                       *)
(*                                                                         *)
(* A channel is named by who sends on it; carriers, gains, positions and   *)
(* codes are left out.  The point of presence comes from another script.   *)
(***************************************************************************)
EXTENDS Integers, FiniteSets

CONSTANTS
    N_PLANES, SATS_PER_PLANE,
    NGateways,      \* len(GATEWAYS)
    NUts            \* len(INDIA_RES3_CENTERS)

\* What the bases and the octets of an address leave room for.
JioAssumption ==
    /\ N_PLANES \in 1 .. 256 /\ SATS_PER_PLANE \in 1 .. 255
    /\ N_PLANES * SATS_PER_PLANE <= 2000
    /\ NGateways \in 1 .. 255 /\ NUts \in 0 .. 5000

VARIABLES
    pc,             \* "gateways", "links", "satellites", "terminals", "demands", "done"
    i, plane, slot, \* of the satellite loops
    k,              \* of the loop over gateways, links, terminals or demands
    nodes,          \* network nodes of the fragments built so far
    links,          \* [a, z]: a gateway's number and the interface of the pop
    policies        \* [a, b]: ids of the route functions a demand joins

sat_loop == <<i, plane, slot>>
built == <<nodes, links, policies>>
vars == <<pc, sat_loop, k, built>>

-----------------------------------------------------------------------------
\* A front end: the channels it sends and receives on.
FrontEnd(tx, rx) == [tx |-> tx, rx |-> rx]

\* Mutant of build_satellite: the user downlink counts from the feeder's base.
build_satellite_one_base(n, pl, sl) ==
    [kind |-> "satellite", number |-> n,
     node_sid |-> 40000 + n, adjacency_sids |-> {50000 + n, 50001 + n},
     router_id |-> <<10, 1, pl, sl + 1>>,
     front_ends |-> {FrontEnd({"feeder-sat", "feeder-sat-2"}, {"feeder-gw", "feeder-gw-2"}),
                     FrontEnd({"user-sat", "user-sat-2"}, {}),
                     FrontEnd({}, {"user-ut", "user-ut-2"})}]

build_satellite(n, pl, sl) ==
    [kind |-> "satellite", number |-> n,
     node_sid |-> 40000 + n, adjacency_sids |-> {50000 + n, 52000 + n},
     router_id |-> <<10, 1, pl, sl + 1>>,
     front_ends |-> {FrontEnd({"feeder-sat", "feeder-sat-2"}, {"feeder-gw", "feeder-gw-2"}),
                     FrontEnd({"user-sat", "user-sat-2"}, {}),
                     FrontEnd({}, {"user-ut", "user-ut-2"})}]

build_gateway(g) ==
    [kind |-> "gateway", number |-> g,
     node_sid |-> 39000 + g, adjacency_sids |-> {49000 + g},
     router_id |-> <<10, 0, 1, g + 1>>,
     front_ends |-> {FrontEnd({"feeder-gw"}, {"feeder-sat"})}]

\* Mutant of build_ut: the terminal sends and receives on its own channel.
build_ut_deaf(j) ==
    [kind |-> "user-terminal", number |-> j,
     node_sid |-> 44000 + j, adjacency_sids |-> {54000 + j},
     router_id |-> <<10, 2, j \div 250, (j % 250) + 1>>,
     front_ends |-> {FrontEnd({"user-ut"}, {"user-ut"})}]

build_ut(j) ==
    [kind |-> "user-terminal", number |-> j,
     node_sid |-> 44000 + j, adjacency_sids |-> {54000 + j},
     router_id |-> <<10, 2, j \div 250, (j % 250) + 1>>,
     front_ends |-> {FrontEnd({"user-ut"}, {"user-sat"})}]

pop_ifaces == <<"wan0", "wan0-2">>

\* The id of a node's route function.
Route(kind, n) == <<kind, n>>
PopRoute == Route("pop", 0)

-----------------------------------------------------------------------------
Gateway ==
    /\ pc = "gateways" /\ k < NGateways
    /\ nodes' = nodes \cup {build_gateway(k)}
    /\ k' = k + 1
    /\ UNCHANGED <<pc, sat_loop, links, policies>>

\* The third gateway and the ones after it get the first interface again.
Link ==
    /\ pc = "links" /\ k < NGateways
    /\ links' = links \cup {[a |-> k, z |-> IF k < 2 THEN pop_ifaces[k + 1] ELSE "wan0"]}
    /\ k' = k + 1
    /\ UNCHANGED <<pc, sat_loop, nodes, policies>>

\* One turn of the inner loop over slots; i runs along.
Satellite ==
    /\ pc = "satellites" /\ plane < N_PLANES /\ slot < SATS_PER_PLANE
    /\ nodes' = nodes \cup {build_satellite(i, plane, slot)}
    /\ i' = i + 1 /\ slot' = slot + 1
    /\ UNCHANGED <<pc, plane, k, links, policies>>

NextPlane ==
    /\ pc = "satellites" /\ plane < N_PLANES /\ slot = SATS_PER_PLANE
    /\ plane' = plane + 1 /\ slot' = 0
    /\ UNCHANGED <<pc, i, k, built>>

Terminal ==
    /\ pc = "terminals" /\ k < NUts
    /\ nodes' = nodes \cup {build_ut(k)}
    /\ k' = k + 1
    /\ UNCHANGED <<pc, sat_loop, links, policies>>

\* build_provisioning: ProvisioningBuilder.create_bidirectional.
Demand ==
    /\ pc = "demands" /\ k < NUts
    /\ policies' = policies \cup {[a |-> PopRoute, b |-> Route("user-terminal", k)],
                                  [a |-> Route("user-terminal", k), b |-> PopRoute]}
    /\ k' = k + 1
    /\ UNCHANGED <<pc, sat_loop, nodes, links>>

GoOn(from, at_end, to) ==
    /\ pc = from /\ at_end
    /\ pc' = to /\ k' = 0
    /\ UNCHANGED <<sat_loop, built>>

LoopEnds ==
    \/ GoOn("gateways", k = NGateways, "links")
    \/ GoOn("links", k = NGateways, "satellites")
    \/ GoOn("satellites", plane = N_PLANES, "terminals")
    \/ GoOn("terminals", k = NUts, "demands")
    \/ GoOn("demands", k = NUts, "done")

-----------------------------------------------------------------------------
Init ==
    /\ pc = "gateways" /\ i = 0 /\ plane = 0 /\ slot = 0 /\ k = 0
    /\ nodes = {} /\ links = {} /\ policies = {}

Stop == pc = "done" /\ UNCHANGED vars

Next == Gateway \/ Link \/ Satellite \/ NextPlane \/ Terminal \/ Demand \/ LoopEnds \/ Stop

Spec == Init /\ [][Next]_vars

-----------------------------------------------------------------------------
(***************************************************************************)
(* Properties                                                              *)
(***************************************************************************)
Sids(n) == {n.node_sid} \cup n.adjacency_sids

\* On one network no label means two things and no address two routers, and an
\* address has octets: whatever the counters of the three kinds have come to.
LabelsAreUnique ==
    /\ \A m, n \in nodes : m # n =>
          Sids(m) \cap Sids(n) = {} /\ m.router_id # n.router_id
    /\ \A n \in nodes : n.node_sid \notin n.adjacency_sids /\ \A o \in 1 .. 4 : n.router_id[o] \in 0 .. 255

FrontEnds == UNION {n.front_ends : n \in nodes}

\* The finished scenario can carry its demands: every front end that sends is
\* heard by another one, every gateway is wired, and every terminal has its
\* demands in both directions and no others exist.
DemandsCanBeServed ==
    pc = "done" =>
        /\ \A f \in FrontEnds : f.tx # {} => \E h \in FrontEnds \ {f} : f.tx \cap h.rx # {}
        /\ {l.a : l \in links} = {n.number : n \in {m \in nodes : m.kind = "gateway"}}
        /\ LET terminals == {Route(n.kind, n.number) : n \in {m \in nodes : m.kind = "user-terminal"}}
           IN  policies = {[a |-> PopRoute, b |-> t] : t \in terminals}
                              \cup {[a |-> t, b |-> PopRoute] : t \in terminals}

-----------------------------------------------------------------------------
(***************************************************************************)
(* The invariant of the loops: each kind has been built up to its counter, *)
(* and the counter of satellites is the place of plane and slot; so have   *)
(* the links and the demands.                                              *)
(***************************************************************************)
\* What a loop of n turns has passed, before, while and after pc = here.
Passed(here, before, n) ==
    IF pc = here THEN 0 .. k - 1 ELSE IF pc \in before THEN {} ELSE 0 .. n - 1

Gateways == Passed("gateways", {}, NGateways)
Wired == Passed("links", {"gateways"}, NGateways)
Terminals == Passed("terminals", {"gateways", "links", "satellites"}, NUts)
Served == Passed("demands", {"gateways", "links", "satellites", "terminals"}, NUts)

\* Planes and slots the loops have passed.
Places ==
    {c \in (0 .. N_PLANES - 1) \X (0 .. SATS_PER_PLANE - 1) :
        c[1] < plane \/ (c[1] = plane /\ c[2] < slot)}

SatelliteAt(c) == build_satellite(c[1] * SATS_PER_PLANE + c[2], c[1], c[2])

Counters ==
    /\ pc \in {"gateways", "links", "satellites", "terminals", "demands", "done"}
    /\ plane \in 0 .. N_PLANES /\ slot \in 0 .. SATS_PER_PLANE
    /\ plane = N_PLANES => slot = 0
    /\ pc \in {"terminals", "demands", "done"} => plane = N_PLANES
    /\ i = plane * SATS_PER_PLANE + slot
    /\ k \in Nat
    /\ pc \in {"gateways", "links"} => k <= NGateways
    /\ pc \in {"terminals", "demands"} => k <= NUts

NodesBuilt ==
    nodes = {build_gateway(g) : g \in Gateways} \cup {SatelliteAt(c) : c \in Places}
                \cup {build_ut(j) : j \in Terminals}

LinksBuilt == {l.a : l \in links} = Wired

PoliciesBuilt ==
    policies = {[a |-> PopRoute, b |-> Route("user-terminal", j)] : j \in Served}
                   \cup {[a |-> Route("user-terminal", j), b |-> PopRoute] : j \in Served}

LoopInv == Counters /\ NodesBuilt /\ LinksBuilt /\ PoliciesBuilt
=============================================================================
