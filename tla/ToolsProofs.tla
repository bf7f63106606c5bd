------------------------------- MODULE ToolsProofs -------------------------------
(***************************************************************************)
(* Of the programs beside the kernels (MCTools): the scenario script gives *)
(* no label and no address twice and can carry its demands, for every      *)
(* shape, number of gateways and number of terminals the bases leave room  *)
(* for; what a sample of the Listen stream reports is what the stream did; *)
(* the mirror serves the bytes its inventory is about; a dump of a live    *)
(* store that has a manifest is whole; and a report that can be read is of *)
(* one window, whichever of its two programs died on the way.              *)
(***************************************************************************)
EXTENDS MCTools, Sequences, SequenceTheorems, FiniteSetTheorems, TLAPS

-----------------------------------------------------------------------------
(***************************************************************************)
(* The place of a satellite in row-major order                             *)
(***************************************************************************)
\* Two places with one number are one place.
LEMMA PlaceOfNumber ==
    ASSUME NEW S \in Nat, NEW p \in Nat, NEW q \in Nat, NEW s \in 0 .. S - 1, NEW t \in 0 .. S - 1,
           p * S + s = q * S + t
    PROVE  p = q /\ s = t
<1>1. ASSUME NEW a \in Nat, NEW b \in Nat, a < b
      PROVE  a * S + S <= b * S
    <2>1. PICK d \in Nat : b = a + 1 + d
        <3>1. b - a - 1 \in Nat /\ b = a + 1 + (b - a - 1)
            BY <1>1
        <3> QED
            BY <3>1
    <2>2. b * S = a * S + S + d * S
        BY <2>1
    <2>3. d * S \in Nat /\ a * S \in Nat
        OBVIOUS
    <2> QED
        BY <2>2, <2>3
<1>2. p * S \in Nat /\ q * S \in Nat
    OBVIOUS
<1>3. ~(p < q)
    BY <1>1, <1>2
<1>4. ~(q < p)
    BY <1>1, <1>2
<1> QED
    BY <1>2, <1>3, <1>4

\* The number of a place is below the number of places.
LEMMA NumberInRange ==
    ASSUME NEW N \in Nat, NEW S \in Nat, NEW p \in 0 .. N - 1, NEW s \in 0 .. S - 1
    PROVE  p * S + s \in 0 .. N * S - 1
<1>1. PICK d \in Nat : N = p + 1 + d
    <2>1. N - p - 1 \in Nat /\ N = p + 1 + (N - p - 1)
        OBVIOUS
    <2> QED
        BY <2>1
<1>2. N * S = p * S + S + d * S
    BY <1>1
<1>3. d * S \in Nat /\ p * S \in Nat /\ N * S \in Nat
    OBVIOUS
<1> QED
    BY <1>2, <1>3

-----------------------------------------------------------------------------
(***************************************************************************)
(* The loops                                                               *)
(***************************************************************************)
LEMMA InitLoops == ASSUME JioAssumption, Init PROVE LoopInv
<1>1. SATS_PER_PLANE \in Nat /\ N_PLANES \in Nat /\ N_PLANES >= 1 /\ NGateways \in Nat
    BY DEF JioAssumption
<1>2. Counters
    BY <1>1 DEF Init, Counters
<1>3. Gateways = {} /\ Wired = {} /\ Terminals = {} /\ Served = {}
    BY DEF Init, Passed, Gateways, Wired, Terminals, Served
<1>4. Places = {}
    BY <1>1 DEF Init, Places
<1>5. NodesBuilt
    BY <1>3, <1>4 DEF Init, NodesBuilt
<1>6. LinksBuilt
    BY <1>3 DEF Init, LinksBuilt
<1>7. PoliciesBuilt
    BY <1>3 DEF Init, PoliciesBuilt
<1> QED
    BY <1>2, <1>5, <1>6, <1>7 DEF LoopInv

\* A turn of a loop adds its number to what the loop has passed, and leaves
\* what other loops have passed alone; so does the step to the next loop.
LEMMA PassedOne ==
    ASSUME NEW here, NEW before, NEW n \in Nat,
           k \in Nat, k' = k + 1, pc' = pc
    PROVE  /\ pc = here => Passed(here, before, n)' = Passed(here, before, n) \cup {k}
           /\ pc # here => Passed(here, before, n)' = Passed(here, before, n)
BY DEF Passed

\* The satellite that is built is the one of its place.
LEMMA SatelliteBuilt ==
    ASSUME JioAssumption, LoopInv, Satellite
    PROVE  LoopInv'
<1> USE DEF JioAssumption
<1>1. Counters /\ pc = "satellites" /\ plane < N_PLANES /\ slot < SATS_PER_PLANE
    BY DEF LoopInv, Satellite
<1>2. plane \in 0 .. N_PLANES - 1 /\ slot \in 0 .. SATS_PER_PLANE - 1
    BY <1>1 DEF Counters
<1>3. Counters'
    <2>1. plane * SATS_PER_PLANE \in Nat
        BY <1>2
    <2> QED
        BY <1>1, <1>2, <2>1 DEF Counters, Satellite
<1>4. Gateways' = Gateways /\ Terminals' = Terminals /\ Wired' = Wired /\ Served' = Served
    BY DEF Satellite, Passed, Gateways, Terminals, Wired, Served
<1>5. Places' = Places \cup {<<plane, slot>>}
    BY <1>2 DEF Satellite, Places
<1>6. nodes' = nodes \cup {SatelliteAt(<<plane, slot>>)}
    BY <1>1 DEF Satellite, SatelliteAt, Counters
<1>7. NodesBuilt'
    BY <1>4, <1>5, <1>6 DEF LoopInv, NodesBuilt
<1>8. LinksBuilt' /\ PoliciesBuilt'
    BY <1>4 DEF LoopInv, LinksBuilt, PoliciesBuilt, Satellite
<1> QED
    BY <1>3, <1>7, <1>8 DEF LoopInv

LEMMA StepLoops == ASSUME JioAssumption, LoopInv, [Next]_vars PROVE LoopInv'
<1>0. NGateways \in Nat /\ NUts \in Nat /\ N_PLANES \in Nat /\ SATS_PER_PLANE \in Nat
    BY DEF JioAssumption
<1> USE <1>0
<1>1. CASE Gateway
    <2>1. Counters'
        BY <1>1 DEF LoopInv, Counters, Gateway, sat_loop
    <2>2. Places' = Places
        BY <1>1 DEF Gateway, Places, sat_loop
    <2>3. /\ Gateways' = Gateways \cup {k}
          /\ Terminals' = Terminals /\ Wired' = Wired /\ Served' = Served
        BY <1>1, PassedOne DEF Gateway, Gateways, Terminals, Wired, Served, LoopInv, Counters
    <2>4. nodes' = nodes \cup {build_gateway(k)} /\ links' = links /\ policies' = policies
        BY <1>1 DEF Gateway
    <2> QED
        BY <2>1, <2>2, <2>3, <2>4 DEF LoopInv, NodesBuilt, LinksBuilt, PoliciesBuilt
<1>2. CASE Link
    <2>1. Counters'
        BY <1>2 DEF LoopInv, Counters, Link, sat_loop
    <2>2. Places' = Places
        BY <1>2 DEF Link, Places, sat_loop
    <2>3. /\ Wired' = Wired \cup {k}
          /\ Terminals' = Terminals /\ Gateways' = Gateways /\ Served' = Served
        BY <1>2, PassedOne DEF Link, Gateways, Terminals, Wired, Served, LoopInv, Counters
    <2>4. PICK z : links' = links \cup {[a |-> k, z |-> z]}
        BY <1>2 DEF Link
    <2>5. {l.a : l \in links'} = {l.a : l \in links} \cup {k}
        <3> DEFINE new == [a |-> k, z |-> z]
        <3>1. new.a = k /\ links' = links \cup {new}
            BY <2>4
        <3> HIDE DEF new
        <3> QED
            BY <3>1
    <2>6. nodes' = nodes /\ policies' = policies
        BY <1>2 DEF Link
    <2>7. LinksBuilt'
        BY <2>3, <2>5 DEF LoopInv, LinksBuilt
    <2> QED
        BY <2>1, <2>2, <2>3, <2>6, <2>7 DEF LoopInv, NodesBuilt, PoliciesBuilt
<1>3. CASE Satellite
    BY <1>3, SatelliteBuilt
<1>4. CASE NextPlane
    <2>1. Counters'
        BY <1>4 DEF LoopInv, Counters, NextPlane, JioAssumption
    <2>2. /\ Gateways' = Gateways /\ Terminals' = Terminals /\ Wired' = Wired /\ Served' = Served
          /\ UNCHANGED <<nodes, links, policies>>
        BY <1>4 DEF NextPlane, Passed, Gateways, Terminals, Wired, Served, built
    <2>3. Places' = Places
        BY <1>4 DEF NextPlane, Places, LoopInv, Counters
    <2> QED
        BY <2>1, <2>2, <2>3 DEF LoopInv, NodesBuilt, LinksBuilt, PoliciesBuilt
<1>5. CASE Terminal
    <2>1. Counters'
        <3>1. UNCHANGED <<pc, i, plane, slot>> /\ k' = k + 1 /\ pc = "terminals" /\ k < NUts
            BY <1>5 DEF Terminal, sat_loop
        <3>2. k' \in Nat /\ k' <= NUts
            BY <3>1 DEF LoopInv, Counters
        <3> QED
            BY <3>1, <3>2 DEF LoopInv, Counters
    <2>2. Places' = Places
        BY <1>5 DEF Terminal, Places, sat_loop
    <2>3. /\ Terminals' = Terminals \cup {k}
          /\ Gateways' = Gateways /\ Wired' = Wired /\ Served' = Served
        BY <1>5, PassedOne DEF Terminal, Gateways, Terminals, Wired, Served, LoopInv, Counters
    <2>4. nodes' = nodes \cup {build_ut(k)} /\ links' = links /\ policies' = policies
        BY <1>5 DEF Terminal
    <2> QED
        BY <2>1, <2>2, <2>3, <2>4 DEF LoopInv, NodesBuilt, LinksBuilt, PoliciesBuilt
<1>6. CASE Demand
    <2>1. Counters'
        <3>1. UNCHANGED <<pc, i, plane, slot>> /\ k' = k + 1 /\ pc = "demands" /\ k < NUts
            BY <1>6 DEF Demand, sat_loop
        <3>2. k' \in Nat /\ k' <= NUts
            BY <3>1 DEF LoopInv, Counters
        <3> QED
            BY <3>1, <3>2 DEF LoopInv, Counters
    <2>2. Places' = Places
        BY <1>6 DEF Demand, Places, sat_loop
    <2>3. /\ Served' = Served \cup {k}
          /\ Gateways' = Gateways /\ Wired' = Wired /\ Terminals' = Terminals
        BY <1>6, PassedOne DEF Demand, Gateways, Terminals, Wired, Served, LoopInv, Counters
    <2>4. /\ policies' = policies \cup {[a |-> PopRoute, b |-> Route("user-terminal", k)],
                                        [a |-> Route("user-terminal", k), b |-> PopRoute]}
          /\ UNCHANGED <<nodes, links>>
        BY <1>6 DEF Demand
    <2>5. PoliciesBuilt'
        BY <2>3, <2>4 DEF LoopInv, PoliciesBuilt, Route, PopRoute
    <2> QED
        BY <2>1, <2>2, <2>3, <2>4, <2>5 DEF LoopInv, NodesBuilt, LinksBuilt
<1>7. CASE LoopEnds
    <2>1. UNCHANGED <<i, plane, slot, nodes, links, policies>>
        BY <1>7 DEF LoopEnds, GoOn, sat_loop, built
    <2>2. Counters'
        <3>1. k' = 0 /\ pc' \in {"links", "satellites", "terminals", "demands", "done"}
            BY <1>7 DEF LoopEnds, GoOn
        <3>2. pc' \in {"terminals", "demands", "done"} => plane' = N_PLANES
            BY <1>7, <2>1 DEF LoopEnds, GoOn, LoopInv, Counters
        <3>3. 0 <= NGateways /\ 0 <= NUts
            OBVIOUS
        <3> QED
            BY <2>1, <3>1, <3>2, <3>3 DEF LoopInv, Counters
    <2>3. Places' = Places
        BY <2>1 DEF Places
    <2>4. Gateways' = Gateways /\ Wired' = Wired
        BY <1>7 DEF LoopEnds, GoOn, Passed, Gateways, Wired, LoopInv, Counters
    <2>5. Terminals' = Terminals /\ Served' = Served
        BY <1>7 DEF LoopEnds, GoOn, Passed, Terminals, Served, LoopInv, Counters
    <2> QED
        BY <2>1, <2>2, <2>3, <2>4, <2>5 DEF LoopInv, NodesBuilt, LinksBuilt, PoliciesBuilt
<1>8. CASE Stop \/ UNCHANGED vars
    <2>1. UNCHANGED <<pc, i, plane, slot, k, nodes, links, policies>>
        BY <1>8 DEF Stop, vars, sat_loop, built
    <2>2. Gateways' = Gateways /\ Wired' = Wired /\ Terminals' = Terminals /\ Served' = Served
        BY <2>1 DEF Passed, Gateways, Wired, Terminals, Served
    <2>3. Places' = Places
        BY <2>1 DEF Places
    <2> QED
        BY <2>1, <2>2, <2>3 DEF LoopInv, Counters, NodesBuilt, LinksBuilt, PoliciesBuilt
<1> QED
    BY <1>1, <1>2, <1>3, <1>4, <1>5, <1>6, <1>7, <1>8 DEF Next

-----------------------------------------------------------------------------
(***************************************************************************)
(* The kinds of nodes                                                      *)
(***************************************************************************)
IsGateway(x) == \E g \in Nat : g < 255 /\ x = build_gateway(g)

IsSatellite(x) ==
    \E n, p, t \in Nat : n < 2000 /\ p < 256 /\ t < 255 /\ x = build_satellite(n, p, t)

IsTerminal(x) == \E j \in Nat : j < 5000 /\ x = build_ut(j)

\* The counters stay within the room of their bases.
LEMMA CountersInRange ==
    ASSUME JioAssumption, LoopInv
    PROVE  /\ \A g \in Gateways : g \in Nat /\ g < 255
           /\ \A j \in Terminals : j \in Nat /\ j < 5000
<1>1. NGateways \in Nat /\ NGateways <= 255 /\ NUts \in Nat /\ NUts <= 5000
    BY DEF JioAssumption
<1>2. k \in Nat /\ (pc = "gateways" => k <= NGateways) /\ (pc = "terminals" => k <= NUts)
    BY DEF LoopInv, Counters
<1>3. \A g \in Gateways : g \in Nat /\ g < 255
    BY <1>1, <1>2 DEF Passed, Gateways
<1>4. \A j \in Terminals : j \in Nat /\ j < 5000
    BY <1>1, <1>2 DEF Passed, Terminals
<1> QED
    BY <1>3, <1>4

\* So does the number of a place.
LEMMA PlaceIsSatellite ==
    ASSUME JioAssumption, NEW c \in Places
    PROVE  IsSatellite(SatelliteAt(c))
<1> DEFINE p == c[1]
           s == c[2]
           N == N_PLANES
           S == SATS_PER_PLANE
           n == p * S + s
<1>1. N \in 1 .. 256 /\ S \in 1 .. 255 /\ N * S <= 2000
    BY DEF JioAssumption
<1>2. p \in 0 .. N - 1 /\ s \in 0 .. S - 1
    BY DEF Places
<1>3. SatelliteAt(c) = build_satellite(n, p, s)
    BY DEF SatelliteAt
<1> HIDE DEF p, s, N, S
<1>4. n \in 0 .. N * S - 1
    BY <1>1, <1>2, NumberInRange
<1>5. n \in Nat /\ n < 2000
    BY <1>1, <1>2, <1>4
<1> HIDE DEF n
<1>6. p \in Nat /\ p < 256 /\ s \in Nat /\ s < 255
    BY <1>1, <1>2
<1> QED
    BY <1>3, <1>5, <1>6 DEF IsSatellite

LEMMA KindOfNode ==
    ASSUME JioAssumption, LoopInv, NEW x \in nodes
    PROVE  \/ IsGateway(x)
           \/ \E c \in Places : x = SatelliteAt(c)
           \/ IsTerminal(x)
<1>1. /\ \A g \in Gateways : g \in Nat /\ g < 255
      /\ \A j \in Terminals : j \in Nat /\ j < 5000
    BY CountersInRange
<1>2. \/ \E g \in Gateways : x = build_gateway(g)
      \/ \E c \in Places : x = SatelliteAt(c)
      \/ \E j \in Terminals : x = build_ut(j)
    BY DEF LoopInv, NodesBuilt
<1> QED
    BY <1>1, <1>2 DEF IsGateway, IsTerminal

-----------------------------------------------------------------------------
(***************************************************************************)
(* Labels                                                                  *)
(***************************************************************************)
\* Two nodes that share no label and no address.
Apart(m, n) == Sids(m) \cap Sids(n) = {} /\ m.router_id # n.router_id

\* A node whose own labels differ and whose address has octets.
Proper(n) == n.node_sid \notin n.adjacency_sids /\ \A o \in 1 .. 4 : n.router_id[o] \in 0 .. 255

LEMMA GatewayIsProper == ASSUME NEW x, IsGateway(x) PROVE Proper(x)
BY DEF IsGateway, Proper, build_gateway

LEMMA SatelliteIsProper == ASSUME NEW x, IsSatellite(x) PROVE Proper(x)
BY DEF IsSatellite, Proper, build_satellite

LEMMA TerminalIsProper == ASSUME NEW x, IsTerminal(x) PROVE Proper(x)
<1>1. PICK j \in Nat : j < 5000 /\ x = build_ut(j)
    BY DEF IsTerminal
<1>2. j \div 250 \in 0 .. 255 /\ (j % 250) + 1 \in 0 .. 255
    BY <1>1
<1> QED
    BY <1>1, <1>2 DEF Proper, build_ut

LEMMA TwoGateways ==
    ASSUME NEW x, NEW y, IsGateway(x), IsGateway(y), x # y PROVE Apart(x, y)
<1>1. PICK g \in Nat, h \in Nat : g < 255 /\ h < 255 /\ x = build_gateway(g) /\ y = build_gateway(h)
    BY DEF IsGateway
<1>2. g # h
    BY <1>1
<1> QED
    BY <1>1, <1>2 DEF Apart, Sids, build_gateway

\* Different satellites have different numbers.
LEMMA TwoSatellites ==
    ASSUME JioAssumption, NEW c \in Places, NEW d \in Places, SatelliteAt(c) # SatelliteAt(d)
    PROVE  Apart(SatelliteAt(c), SatelliteAt(d))
<1> DEFINE p == c[1]
           s == c[2]
           q == d[1]
           t == d[2]
           N == N_PLANES
           S == SATS_PER_PLANE
           n == p * S + s
           m == q * S + t
<1>1. N \in 1 .. 256 /\ S \in 1 .. 255 /\ N * S <= 2000
    BY DEF JioAssumption
<1>2. p \in 0 .. N - 1 /\ q \in 0 .. N - 1 /\ s \in 0 .. S - 1 /\ t \in 0 .. S - 1
    BY DEF Places
<1>3. SatelliteAt(c) = build_satellite(n, p, s) /\ SatelliteAt(d) = build_satellite(m, q, t)
    BY DEF SatelliteAt
<1> HIDE DEF p, q, s, t, N, S
<1>4. n \in 0 .. N * S - 1 /\ m \in 0 .. N * S - 1
    BY <1>1, <1>2, NumberInRange
<1>5. n \in Nat /\ n < 2000 /\ m \in Nat /\ m < 2000
    BY <1>1, <1>2, <1>4
<1>6. p # q \/ s # t
    BY <1>3
<1>7. n # m
    BY <1>1, <1>2, <1>6, PlaceOfNumber
<1> HIDE DEF n, m
<1>8. p \in Nat /\ q \in Nat /\ s \in Nat /\ s < 255 /\ t \in Nat /\ t < 255
    BY <1>1, <1>2
<1>9. Apart(build_satellite(n, p, s), build_satellite(m, q, t))
    BY <1>5, <1>6, <1>7, <1>8 DEF Apart, Sids, build_satellite
<1> QED
    BY <1>3, <1>9

LEMMA TwoTerminals ==
    ASSUME NEW x, NEW y, IsTerminal(x), IsTerminal(y), x # y PROVE Apart(x, y)
<1>1. PICK j \in Nat, l \in Nat : j < 5000 /\ l < 5000 /\ x = build_ut(j) /\ y = build_ut(l)
    BY DEF IsTerminal
<1>2. j # l
    BY <1>1
<1>3. ~(j \div 250 = l \div 250 /\ (j % 250) + 1 = (l % 250) + 1)
    BY <1>2
<1> QED
    BY <1>1, <1>2, <1>3 DEF Apart, Sids, build_ut

\* Nodes of different kinds: the bases are far enough apart.
LEMMA GatewayAndSatellite ==
    ASSUME NEW x, NEW y, IsGateway(x), IsSatellite(y) PROVE Apart(x, y) /\ Apart(y, x)
BY DEF IsGateway, IsSatellite, Apart, Sids, build_gateway, build_satellite

LEMMA GatewayAndTerminal ==
    ASSUME NEW x, NEW y, IsGateway(x), IsTerminal(y) PROVE Apart(x, y) /\ Apart(y, x)
BY DEF IsGateway, IsTerminal, Apart, Sids, build_gateway, build_ut

LEMMA SatelliteAndTerminal ==
    ASSUME NEW x, NEW y, IsSatellite(x), IsTerminal(y) PROVE Apart(x, y) /\ Apart(y, x)
BY DEF IsSatellite, IsTerminal, Apart, Sids, build_satellite, build_ut

\* Two nodes, case by case of their kinds.
LEMMA NodesApart ==
    ASSUME JioAssumption, LoopInv, NEW x \in nodes, NEW y \in nodes, x # y
    PROVE  Apart(x, y)
<1> DEFINE Placed(z) == \E c \in Places : z = SatelliteAt(c)
<1>1. IsGateway(x) \/ Placed(x) \/ IsTerminal(x)
    BY KindOfNode
<1>2. IsGateway(y) \/ Placed(y) \/ IsTerminal(y)
    BY KindOfNode
<1>3. Placed(x) /\ Placed(y) => Apart(x, y)
    BY TwoSatellites
<1>4. (Placed(x) => IsSatellite(x)) /\ (Placed(y) => IsSatellite(y))
    BY PlaceIsSatellite
<1> HIDE DEF Placed
<1>5. CASE IsGateway(x)
    BY <1>2, <1>4, <1>5, TwoGateways, GatewayAndSatellite, GatewayAndTerminal
<1>6. CASE Placed(x)
    BY <1>2, <1>3, <1>4, <1>6, GatewayAndSatellite, SatelliteAndTerminal
<1>7. CASE IsTerminal(x)
    BY <1>2, <1>4, <1>7, TwoTerminals, GatewayAndTerminal, SatelliteAndTerminal
<1> QED
    BY <1>1, <1>5, <1>6, <1>7

LEMMA LabelsFollow == ASSUME JioAssumption, LoopInv PROVE LabelsAreUnique
<1>1. ASSUME NEW x \in nodes, NEW y \in nodes, x # y
      PROVE  Sids(x) \cap Sids(y) = {} /\ x.router_id # y.router_id
    BY <1>1, NodesApart DEF Apart
<1>2. ASSUME NEW x \in nodes PROVE Proper(x)
    BY KindOfNode, PlaceIsSatellite, GatewayIsProper, SatelliteIsProper, TerminalIsProper
<1> QED
    BY <1>1, <1>2 DEF LabelsAreUnique, Proper

\* "No label means two things, no address two routers": for every scenario the
\* script can be given within the room of its bases.
THEOREM LabelsCorrect == ASSUME JioAssumption PROVE Spec => []LabelsAreUnique
<1>1. Init => LoopInv
    BY InitLoops
<1>2. LoopInv /\ [Next]_vars => LoopInv'
    BY StepLoops
<1>3. LoopInv => LabelsAreUnique
    BY LabelsFollow
<1> QED
    BY <1>1, <1>2, <1>3, PTL DEF Spec

-----------------------------------------------------------------------------
(***************************************************************************)
(* The finished scenario                                                   *)
(***************************************************************************)
\* When the script is over there is a node of every number of each kind, and
\* only those.
LEMMA AllBuilt ==
    ASSUME JioAssumption, LoopInv, pc = "done"
    PROVE  /\ Gateways = 0 .. NGateways - 1 /\ Wired = 0 .. NGateways - 1
           /\ Terminals = 0 .. NUts - 1 /\ Served = 0 .. NUts - 1
           /\ <<0, 0>> \in Places
           /\ \A x \in nodes : \/ \E g \in Gateways : x = build_gateway(g)
                              \/ \E c \in Places : x = SatelliteAt(c)
                              \/ \E j \in Terminals : x = build_ut(j)
<1>1. Gateways = 0 .. NGateways - 1 /\ Wired = 0 .. NGateways - 1
    BY DEF Passed, Gateways, Wired
<1>2. Terminals = 0 .. NUts - 1 /\ Served = 0 .. NUts - 1
    BY DEF Passed, Terminals, Served
<1>3. N_PLANES \in 1 .. 256 /\ SATS_PER_PLANE \in 1 .. 255 /\ plane = N_PLANES
    BY DEF JioAssumption, LoopInv, Counters
<1>4. <<0, 0>> \in Places
    BY <1>3 DEF Places
<1> QED
    BY <1>1, <1>2, <1>4 DEF LoopInv, NodesBuilt

\* Gateways and terminals are numbers the addresses have room for.
LEMMA CountsInRange ==
    ASSUME JioAssumption
    PROVE  NGateways \in 1 .. 255 /\ NUts \in 0 .. 5000
    BY DEF JioAssumption

\* Every front end that sends is heard: the feeder link joins gateways and
\* satellites both ways, and so does the user link terminals and satellites.
LEMMA EveryoneIsHeard ==
    ASSUME JioAssumption, LoopInv, pc = "done", NUts # 0,
           NEW f \in FrontEnds, f.tx # {}
    PROVE  \E h \in FrontEnds \ {f} : f.tx \cap h.rx # {}
<1> DEFINE OfGateway == FrontEnd({"feeder-gw"}, {"feeder-sat"})
           Feeder == FrontEnd({"feeder-sat", "feeder-sat-2"}, {"feeder-gw", "feeder-gw-2"})
           Down == FrontEnd({"user-sat", "user-sat-2"}, {})
           Up == FrontEnd({}, {"user-ut", "user-ut-2"})
           OfTerminal == FrontEnd({"user-ut"}, {"user-sat"})
<1>1. \A g : build_gateway(g).front_ends = {OfGateway} /\ build_gateway(g).kind = "gateway"
    BY DEF build_gateway
<1>2. \A c : SatelliteAt(c).front_ends = {Feeder, Down, Up}
    BY DEF SatelliteAt, build_satellite
<1>3. \A j : build_ut(j).front_ends = {OfTerminal}
    BY DEF build_ut
<1>4. 0 \in Gateways /\ 0 \in Terminals /\ <<0, 0>> \in Places
    <2>1. NGateways \in 1 .. 255 /\ NUts \in 0 .. 5000
        BY CountsInRange
    <2>2. 0 \in 0 .. NGateways - 1 /\ 0 \in 0 .. NUts - 1
        BY <2>1
    <2>3. Gateways = 0 .. NGateways - 1 /\ Terminals = 0 .. NUts - 1 /\ <<0, 0>> \in Places
        BY AllBuilt, ZenonT(60)
    <2> QED
        BY <2>2, <2>3
<1>5. {build_gateway(0), SatelliteAt(<<0, 0>>), build_ut(0)} \subseteq nodes
    BY <1>4 DEF LoopInv, NodesBuilt
<1>6. {OfGateway, Feeder, Down, Up, OfTerminal} \subseteq FrontEnds
    BY <1>1, <1>2, <1>3, <1>5 DEF FrontEnds
<1>7. f \in {OfGateway, Feeder, Down, Up, OfTerminal}
    <2>1. PICK x \in nodes : f \in x.front_ends
        BY DEF FrontEnds
    <2>2. \/ \E g \in Gateways : x = build_gateway(g)
          \/ \E c \in Places : x = SatelliteAt(c)
          \/ \E j \in Terminals : x = build_ut(j)
        BY AllBuilt
    <2> QED
        BY <1>1, <1>2, <1>3, <2>1, <2>2
<1>8. /\ OfGateway # Feeder /\ Down # OfTerminal /\ OfTerminal # Up
      /\ OfGateway.tx \cap Feeder.rx # {} /\ Feeder.tx \cap OfGateway.rx # {}
      /\ Down.tx \cap OfTerminal.rx # {} /\ OfTerminal.tx \cap Up.rx # {} /\ Up.tx = {}
    <2>1. /\ OfGateway.tx = {"feeder-gw"} /\ OfGateway.rx = {"feeder-sat"}
          /\ Feeder.tx = {"feeder-sat", "feeder-sat-2"} /\ Feeder.rx = {"feeder-gw", "feeder-gw-2"}
          /\ Down.tx = {"user-sat", "user-sat-2"} /\ Down.rx = {}
          /\ Up.tx = {} /\ Up.rx = {"user-ut", "user-ut-2"}
          /\ OfTerminal.tx = {"user-ut"} /\ OfTerminal.rx = {"user-sat"}
        BY DEF FrontEnd
    <2> HIDE DEF OfGateway, Feeder, Down, Up, OfTerminal
    <2> QED
        BY <2>1
<1> HIDE DEF OfGateway, Feeder, Down, Up, OfTerminal
<1> QED
    BY <1>6, <1>7, <1>8

\* The numbers of the gateways and of the terminals, from the nodes.
LEMMA NumbersOfKinds ==
    ASSUME JioAssumption, LoopInv, pc = "done"
    PROVE  /\ {n.number : n \in {m \in nodes : m.kind = "gateway"}} = Gateways
           /\ {Route(n.kind, n.number) : n \in {m \in nodes : m.kind = "user-terminal"}}
                  = {Route("user-terminal", j) : j \in Terminals}
<1>1. \A g : build_gateway(g).kind = "gateway" /\ build_gateway(g).number = g
    BY DEF build_gateway
<1>2. \A c : SatelliteAt(c).kind = "satellite"
    BY DEF SatelliteAt, build_satellite
<1>3. \A j : build_ut(j).kind = "user-terminal" /\ build_ut(j).number = j
    BY DEF build_ut
<1>4. {m \in nodes : m.kind = "gateway"} = {build_gateway(g) : g \in Gateways}
    BY <1>1, <1>2, <1>3 DEF LoopInv, NodesBuilt
<1>5. {m \in nodes : m.kind = "user-terminal"} = {build_ut(j) : j \in Terminals}
    BY <1>1, <1>2, <1>3 DEF LoopInv, NodesBuilt
<1> QED
    BY <1>1, <1>3, <1>4, <1>5

LEMMA DemandsFollow == ASSUME JioAssumption, NUts # 0, LoopInv PROVE DemandsCanBeServed
<1> SUFFICES ASSUME pc = "done" PROVE DemandsCanBeServed
    BY DEF DemandsCanBeServed
<1>1. \A f \in FrontEnds : f.tx # {} => \E h \in FrontEnds \ {f} : f.tx \cap h.rx # {}
    BY EveryoneIsHeard
<1>2. {l.a : l \in links} = {n.number : n \in {m \in nodes : m.kind = "gateway"}}
    BY AllBuilt, NumbersOfKinds DEF LoopInv, LinksBuilt
<1> DEFINE terminals == {Route(n.kind, n.number) : n \in {m \in nodes : m.kind = "user-terminal"}}
<1>3. terminals = {Route("user-terminal", j) : j \in Served}
    BY AllBuilt, NumbersOfKinds
<1> HIDE DEF terminals
<1>4. policies = {[a |-> PopRoute, b |-> t] : t \in terminals}
                     \cup {[a |-> t, b |-> PopRoute] : t \in terminals}
    BY <1>3 DEF LoopInv, PoliciesBuilt
<1> QED
    BY <1>1, <1>2, <1>4 DEF DemandsCanBeServed, terminals

\* "The finished scenario can carry its demands": for every such scenario with a
\* terminal.  (Without one nobody hears the user downlink of a satellite.)
THEOREM DemandsCorrect == ASSUME JioAssumption, NUts # 0 PROVE Spec => []DemandsCanBeServed
<1>1. Init => LoopInv
    BY InitLoops
<1>2. LoopInv /\ [Next]_vars => LoopInv'
    BY StepLoops
<1>3. LoopInv => DemandsCanBeServed
    BY DemandsFollow
<1> QED
    BY <1>1, <1>2, <1>3, PTL DEF Spec

-----------------------------------------------------------------------------
(***************************************************************************)
(* The sampler                                                             *)
(***************************************************************************)
\* The counts are the server's until a chunk is given up; the other two ends of
\* a sample leave behind what led to them.
SampleInv ==
    /\ now \in Nat
    /\ sent.complete = None \/ sent.complete \in Nat
    /\ sent = [dump |-> sent.dump, live |-> sent.live, complete |-> sent.complete]
    /\ dump_n \in Nat /\ live_n \in Nat
    /\ dump_done_at = sent.complete /\ live_n = sent.live
    /\ sample # "timeout" => dump_n = sent.dump
    /\ sample = "timeout" => dump_done_at = None /\ now > DumpTimeout /\ dump_n > 0
    /\ sample = "returned" => ended \/ (sent.complete # None /\ now - sent.complete >= Window)

LEMMA InitSample == ASSUME Sampler!QuantumSamplerAssumption, Sampler!Init PROVE SampleInv
BY DEF Sampler!Init, SampleInv

LEMMA StepSample ==
    ASSUME Sampler!QuantumSamplerAssumption, SampleInv, [Sampler!Next]_Sampler!vars
    PROVE  SampleInv'
<1>0. Window \in Nat /\ DumpTimeout \in Nat /\ MaxChunk \in Nat /\ None \notin Int
    BY DEF Sampler!QuantumSamplerAssumption
<1> USE <1>0
<1>1. CASE Sampler!Tick
    BY <1>1 DEF SampleInv, Sampler!Tick, Sampler!result
<1>2. CASE Sampler!DumpComplete
    BY <1>2 DEF SampleInv, Sampler!DumpComplete
<1>3. CASE Sampler!StreamEnds \/ Sampler!StreamFails \/ Sampler!DeadlineExceeded
    BY <1>3 DEF SampleInv, Sampler!StreamEnds, Sampler!StreamFails, Sampler!DeadlineExceeded, Sampler!result
<1>4. ASSUME NEW n \in 0 .. MaxChunk, Sampler!DumpChunk(n)
      PROVE  SampleInv'
    <2>1. sample = "reading" /\ dump_n = sent.dump /\ dump_done_at = None
        BY <1>4 DEF SampleInv, Sampler!DumpChunk
    <2>2. /\ sent' = [dump |-> sent.dump + n, live |-> sent.live, complete |-> sent.complete]
          /\ UNCHANGED <<now, dump_done_at, live_n, ended>>
        BY <1>4 DEF SampleInv, Sampler!DumpChunk
    <2>3. \/ n > 0 /\ now > DumpTimeout /\ dump_n' = dump_n + 1 /\ sample' = "timeout"
          \/ dump_n' = dump_n + n /\ sample' = "reading"
        BY <1>4, <2>1 DEF Sampler!DumpChunk
    <2> QED
        BY <2>1, <2>2, <2>3 DEF SampleInv
<1>5. ASSUME NEW n \in 0 .. MaxChunk, Sampler!LiveChunk(n)
      PROVE  SampleInv'
    <2>1. sample = "reading" /\ dump_done_at # None /\ dump_n = sent.dump
        BY <1>5 DEF SampleInv, Sampler!LiveChunk
    <2>2. /\ sent' = [dump |-> sent.dump, live |-> sent.live + n, complete |-> sent.complete]
          /\ live_n' = live_n + n
          /\ UNCHANGED <<now, dump_n, dump_done_at, ended>>
        BY <1>5 DEF SampleInv, Sampler!LiveChunk
    <2>3. \/ sample' = "returned" /\ now - dump_done_at >= Window
          \/ sample' = "reading"
        BY <1>5, <2>1 DEF Sampler!LiveChunk, Sampler!WindowOver
    <2> QED
        BY <2>1, <2>2, <2>3 DEF SampleInv
<1>6. CASE Sampler!Stop \/ UNCHANGED Sampler!vars
    BY <1>6 DEF SampleInv, Sampler!Stop, Sampler!vars, Sampler!result
<1> QED
    BY <1>1, <1>2, <1>3, <1>4, <1>5, <1>6 DEF Sampler!Next

\* "What a sample says is so", for every window, timeout and size of the chunks.
THEOREM SampleCorrect ==
    ASSUME Sampler!QuantumSamplerAssumption PROVE Sampler!Spec => []SampleIsOfTheStream
<1>1. Sampler!Init => SampleInv
    BY InitSample
<1>2. SampleInv /\ [Sampler!Next]_Sampler!vars => SampleInv'
    BY StepSample
<1>3. SampleInv => SampleIsOfTheStream
    BY DEF SampleInv, SampleIsOfTheStream, Sampler!SampleIsOfTheStream
<1> QED
    BY <1>1, <1>2, <1>3, PTL DEF Sampler!Spec

-----------------------------------------------------------------------------
(***************************************************************************)
(* The mirror                                                              *)
(***************************************************************************)
\* What the operator's order of publishing and withdrawing keeps of the files.
PairsPublished ==
    /\ idx \subseteq Paths /\ withdrawn \subseteq Paths /\ idx \cap withdrawn = {}
    /\ grib = [p \in Paths |-> grib[p]]
    /\ \A p \in Paths : grib[p] \in 0 .. Length[p] \cup {None}
    /\ \A p \in idx \cup withdrawn : grib[p] \in {Length[p], None}
    /\ \A p \in idx : grib[p] = Length[p]

\* What the inventory of a pair, found for a path, says of the files: nothing where
\* the path is unsettled, else that its GRIB is whole or not there.
Found(path, pair) ==
    /\ path \in Paths /\ pair \in {path, Wildcard}
    /\ pair = path => path \in idx \cup withdrawn
    /\ pair = Wildcard => has_wildcard
    /\ path \notin unsettled => grib[path] = IF pair = Wildcard THEN None ELSE Length[path]

\* Ranges are asked for with an inventory held, and a new one is asked for without.
Asked ==
    request # None =>
        /\ request.path \in Paths /\ request.is_idx \in BOOLEAN
        /\ request.is_idx => request.range = None /\ held = None
        /\ ~request.is_idx =>
              held # None /\ request.path = held.path /\ request.range \in Mirror!Ranges

\* The file about to be opened is of the path asked for or the wildcard pair; where
\* the path is settled, a GRIB is of the pair of the inventory held.
Opened ==
    fixture # None =>
        /\ request # None
        /\ request.is_idx => Found(request.path, fixture)
        /\ ~request.is_idx =>
              /\ fixture \in {request.path, Wildcard}
              /\ fixture = Wildcard => has_wildcard
              /\ request.path \notin unsettled => fixture = held.pair

MirrorInv ==
    /\ PairsPublished
    /\ held # None => Found(held.path, held.pair)
    /\ Asked /\ Opened
    /\ Mirror!OffsetsMatchGrib

LEMMA InitMirror == ASSUME Mirror!GfsMirrorAssumption, Mirror!Init PROVE MirrorInv
<1>1. PairsPublished
    BY DEF Mirror!Init, PairsPublished
<1>2. held = None /\ request = None /\ fixture = None /\ reply = None
    BY DEF Mirror!Init
<1> QED
    BY <1>1, <1>2 DEF MirrorInv, Asked, Opened, Mirror!OffsetsMatchGrib

\* What the operator does leaves files published in order, and changes no GRIB of a
\* path that stays settled.
LEMMA OperatorKeeps ==
    ASSUME Mirror!GfsMirrorAssumption, PairsPublished, NEW p \in Paths,
           \/ Mirror!PublishGrib(p) \/ Mirror!PublishIdx(p)
           \/ Mirror!WithdrawIdx(p) \/ Mirror!WithdrawGrib(p)
    PROVE  /\ PairsPublished'
           /\ UNCHANGED <<has_wildcard, held, request, fixture, reply>>
           /\ idx \cup withdrawn \subseteq (idx \cup withdrawn)'
           /\ unsettled \subseteq unsettled'
           /\ \A path \in Paths : path \notin unsettled' => grib'[path] = grib[path]
<1> USE DEF PairsPublished
<1>1. CASE Mirror!PublishGrib(p)
    <2>1. Length[p] \in Nat /\ grib[p] \in 0 .. Length[p] \cup {None} /\ grib[p] # Length[p]
        BY <1>1 DEF Mirror!PublishGrib, Mirror!GfsMirrorAssumption
    <2>2. (IF grib[p] = None THEN 0 ELSE grib[p] + 1) \in 0 .. Length[p]
        BY <2>1
    <2> QED
        BY <1>1, <2>2 DEF Mirror!PublishGrib
<1>2. CASE Mirror!PublishIdx(p)
    BY <1>2 DEF Mirror!PublishIdx
<1>3. CASE Mirror!WithdrawIdx(p)
    BY <1>3 DEF Mirror!WithdrawIdx
<1>4. CASE Mirror!WithdrawGrib(p)
    BY <1>4 DEF Mirror!WithdrawGrib
<1> QED
    BY <1>1, <1>2, <1>3, <1>4

LEMMA OperatorStep ==
    ASSUME Mirror!GfsMirrorAssumption, MirrorInv, NEW p \in Paths,
           \/ Mirror!PublishGrib(p) \/ Mirror!PublishIdx(p)
           \/ Mirror!WithdrawIdx(p) \/ Mirror!WithdrawGrib(p)
    PROVE  MirrorInv'
<1>1. /\ PairsPublished'
      /\ UNCHANGED <<has_wildcard, held, request, fixture, reply>>
      /\ idx \cup withdrawn \subseteq (idx \cup withdrawn)'
      /\ unsettled \subseteq unsettled'
      /\ \A path \in Paths : path \notin unsettled' => grib'[path] = grib[path]
    BY OperatorKeeps DEF MirrorInv
<1>2. ASSUME NEW path, NEW pair, Found(path, pair)
      PROVE  Found(path, pair)'
    BY <1>1, <1>2 DEF Found
<1>3. (held # None => Found(held.path, held.pair))'
    BY <1>1, <1>2 DEF MirrorInv, Found
<1>4. Asked'
    BY <1>1 DEF MirrorInv, Asked, Mirror!Ranges
<1>5. Opened'
    BY <1>1, <1>2 DEF MirrorInv, Asked, Opened, Found
<1>6. Mirror!OffsetsMatchGrib'
    BY <1>1 DEF MirrorInv, Mirror!OffsetsMatchGrib
<1> QED
    BY <1>1, <1>3, <1>4, <1>5, <1>6 DEF MirrorInv

\* The exact file is looked for first, then the wildcard file of the same kind.
LEMMA ResolveFinds ==
    ASSUME Mirror!GfsMirrorAssumption, MirrorInv, Mirror!Resolve
    PROVE  MirrorInv'
<1>1. /\ request # None /\ fixture = None /\ reply = None
      /\ request.path \in Paths /\ request.path # Wildcard
      /\ request.is_idx \in BOOLEAN /\ (request.is_idx => held = None)
    BY DEF Mirror!Resolve, MirrorInv, Asked, Mirror!GfsMirrorAssumption
<1>2. UNCHANGED <<has_wildcard, idx, grib, withdrawn, held>>
    BY DEF Mirror!Resolve, Mirror!files
<1>3. PairsPublished'
    BY <1>2 DEF MirrorInv, PairsPublished
<1>4. unsettled' = IF request.is_idx THEN Mirror!HalfThere ELSE unsettled
    BY DEF Mirror!Resolve, Mirror!LookedUp
<1>5. (held # None => Found(held.path, held.pair))'
    BY <1>1, <1>2, <1>4 DEF MirrorInv, Found
<1>6. CASE reply' = Mirror!Answer(404, None) /\ request' = None /\ UNCHANGED fixture
    <2>1. Asked' /\ Opened'
        BY <1>1, <1>6 DEF Asked, Opened
    <2>2. Mirror!OffsetsMatchGrib'
        BY <1>6 DEF Mirror!OffsetsMatchGrib, Mirror!Answer
    <2> QED
        BY <1>3, <1>5, <2>1, <2>2 DEF MirrorInv
<1>7. CASE /\ UNCHANGED <<reply, request>>
           /\ \/ fixture' = request.path /\ Mirror!IsFile(request.path, request.is_idx)
              \/ /\ fixture' = Wildcard /\ Mirror!IsFile(Wildcard, request.is_idx)
                 /\ ~Mirror!IsFile(request.path, request.is_idx)
    <2>1. Asked' /\ Mirror!OffsetsMatchGrib'
        BY <1>1, <1>2, <1>7 DEF MirrorInv, Asked, Mirror!OffsetsMatchGrib, Mirror!Ranges
    <2>2. CASE request.is_idx
        <3>1. \/ fixture' = request.path /\ request.path \in idx
              \/ fixture' = Wildcard /\ has_wildcard /\ request.path \notin idx
            BY <1>1, <1>7, <2>2 DEF Mirror!IsFile
        <3>2. request.path \in idx => grib[request.path] = Length[request.path]
            BY DEF MirrorInv, PairsPublished
        <3>3. request.path \notin idx /\ request.path \notin unsettled' => grib[request.path] = None
            BY <1>1, <1>4, <2>2 DEF Mirror!HalfThere
        <3>4. Found(request.path, fixture)'
            BY <1>1, <1>2, <1>7, <3>1, <3>2, <3>3 DEF Found
        <3> QED
            BY <1>1, <1>3, <1>5, <1>7, <2>1, <2>2, <3>4 DEF MirrorInv, Opened
    <2>3. CASE ~request.is_idx
        <3>1. \/ fixture' = request.path /\ grib[request.path] # None
              \/ fixture' = Wildcard /\ has_wildcard /\ grib[request.path] = None
            BY <1>1, <1>7, <2>3 DEF Mirror!IsFile
        <3>2. held # None /\ request.path = held.path /\ Found(held.path, held.pair)
            BY <1>1, <2>3 DEF MirrorInv, Asked
        <3>3. Length[request.path] # None
            BY <1>1 DEF Mirror!GfsMirrorAssumption
        <3>4. request.path \notin unsettled => fixture' = held.pair
            BY <1>1, <3>1, <3>2, <3>3 DEF Found
        <3> QED
            BY <1>1, <1>2, <1>3, <1>4, <1>5, <1>7, <2>1, <2>3, <3>1, <3>4 DEF MirrorInv, Opened
    <2> QED
        BY <1>1, <2>2, <2>3
<1> QED
    BY <1>6, <1>7 DEF Mirror!Resolve

\* The bytes of a 206 are those of the range that the file has, and the file is whole
\* unless its path is unsettled beside a wildcard pair.
LEMMA RangeSent ==
    ASSUME Mirror!GfsMirrorAssumption, MirrorInv, Mirror!SendRanged
    PROVE  MirrorInv'
<1> DEFINE r == request.range
           size == Mirror!Bytes(fixture)
           end == Mirror!LastByte(r, size)
<1>1. /\ fixture # None /\ request # None /\ ~request.is_idx /\ held # None
      /\ request.path = held.path /\ r \in Mirror!Ranges
      /\ Found(held.path, held.pair) /\ held.path \in Paths
      /\ fixture \in {held.path, Wildcard} /\ (fixture = Wildcard => has_wildcard)
      /\ held.path \notin unsettled => fixture = held.pair
    BY DEF Mirror!SendRanged, MirrorInv, Asked, Opened, Found
<1>2. held.path # Wildcard /\ None \notin Nat
      /\ Length[held.path] \in Nat \ {0} /\ Length[Wildcard] \in Nat \ {0}
    BY <1>1 DEF Mirror!GfsMirrorAssumption
<1>3. size \in 0 .. Length[fixture]
    <2>1. CASE fixture = Wildcard
        BY <1>2, <2>1 DEF Mirror!Bytes
    <2>2. CASE fixture = held.path
        <3>1. grib[held.path] # None
            BY <1>2, <2>2 DEF Mirror!SendRanged, Mirror!IsFile
        <3>2. grib[held.path] \in 0 .. Length[held.path] \cup {None}
            BY <1>1 DEF MirrorInv, PairsPublished
        <3> QED
            BY <1>2, <2>2, <3>1, <3>2 DEF Mirror!Bytes
    <2> QED
        BY <1>1, <2>1, <2>2
<1>4. ~has_wildcard \/ held.path \notin unsettled => fixture = held.pair /\ size = Length[held.pair]
    <2>1. SUFFICES ASSUME ~has_wildcard \/ held.path \notin unsettled
                   PROVE  fixture = held.pair /\ size = Length[held.pair]
        OBVIOUS
    <2>2. fixture = held.pair
        BY <1>1, <2>1 DEF Found
    <2>3. CASE fixture = Wildcard
        BY <2>2, <2>3 DEF Mirror!Bytes
    <2>4. CASE fixture = held.path
        <3>1. grib[held.path] # None /\ held.path \in idx \cup withdrawn
            BY <1>1, <1>2, <2>2, <2>4 DEF Mirror!SendRanged, Mirror!IsFile, Found
        <3>2. grib[held.path] = Length[held.path]
            BY <3>1 DEF MirrorInv, PairsPublished
        <3> QED
            BY <1>2, <2>2, <2>4, <3>2 DEF Mirror!Bytes
    <2> QED
        BY <1>1, <2>2, <2>3, <2>4
<1>5. r.first \in Nat /\ (r.last = None \/ r.last \in Nat)
    BY <1>1 DEF Mirror!Ranges, Mirror!GfsMirrorAssumption
<1>6. Length[fixture] \in Nat /\ size \in Nat
    BY <1>1, <1>2, <1>3
<1>7. UNCHANGED <<has_wildcard, idx, grib, withdrawn, unsettled, held>> /\ fixture' = None /\ request' = None
    BY DEF Mirror!SendRanged, Mirror!files
<1>8. PairsPublished' /\ (held # None => Found(held.path, held.pair))' /\ Asked' /\ Opened'
    BY <1>7 DEF MirrorInv, PairsPublished, Found, Asked, Opened
<1>9. \/ reply' = Mirror!Answer(416, fixture)
      \/ /\ r.first <= end
         /\ reply' = [Mirror!Answer(206, fixture) EXCEPT !.bytes = r.first .. end, !.total = size]
    <2>1. r.first \in Int /\ end \in Int
        BY <1>5, <1>6 DEF Mirror!LastByte
    <2>2. reply' = IF r.first > end THEN Mirror!Answer(416, fixture)
                   ELSE [Mirror!Answer(206, fixture) EXCEPT !.bytes = r.first .. end, !.total = size]
        BY DEF Mirror!SendRanged
    <2> HIDE DEF r, size, end
    <2> QED
        BY <2>1, <2>2
<1> HIDE DEF size
<1>10. r.first .. end = {b \in 0 .. size - 1 : r.first <= b /\ (r.last # None => b <= r.last)}
    BY <1>5, <1>6 DEF Mirror!LastByte
<1>11. Mirror!OffsetsMatchGrib'
    <2>1. CASE reply' = Mirror!Answer(416, fixture)
        BY <2>1 DEF Mirror!OffsetsMatchGrib, Mirror!Answer
    <2>2. CASE /\ r.first <= end
               /\ reply' = [Mirror!Answer(206, fixture) EXCEPT !.bytes = r.first .. end, !.total = size]
        <3>1. /\ reply'.status = 206 /\ reply'.pair = fixture /\ reply'.range = r
              /\ reply'.bytes = r.first .. end /\ reply'.total = size
            BY <2>2 DEF Mirror!Answer
        <3>2. r.first .. end # {} /\ size \in 1 .. Length[fixture]
            <4>1. end \in Int /\ end <= size - 1
                BY <1>5, <1>6 DEF Mirror!LastByte
            <4> HIDE DEF end, r
            <4>2. r.first \in Nat /\ r.first <= end
                BY <1>5, <2>2 DEF r
            <4> QED
                BY <1>3, <1>6, <4>1, <4>2
        <3> HIDE DEF r, end
        <3> QED
            BY <1>1, <1>4, <1>7, <1>10, <3>1, <3>2 DEF Mirror!OffsetsMatchGrib
    <2> QED
        BY <1>9, <2>1, <2>2
<1> QED
    BY <1>8, <1>11 DEF MirrorInv

LEMMA StepMirror ==
    ASSUME Mirror!GfsMirrorAssumption, MirrorInv, [Mirror!Next]_Mirror!vars
    PROVE  MirrorInv'
<1>1. ASSUME NEW p \in Paths, Mirror!AskIdx(p)
      PROVE  MirrorInv'
    <2>1. /\ request = None /\ request' = [path |-> p, is_idx |-> TRUE, range |-> None]
          /\ held' = None /\ reply' = None
          /\ UNCHANGED <<has_wildcard, idx, grib, withdrawn, unsettled, fixture>>
        BY <1>1 DEF Mirror!AskIdx, Mirror!files
    <2>2. PairsPublished' /\ Mirror!OffsetsMatchGrib'
        BY <2>1 DEF MirrorInv, PairsPublished, Mirror!OffsetsMatchGrib
    <2>3. Asked' /\ Opened'
        BY <2>1 DEF MirrorInv, Asked, Opened
    <2> QED
        BY <2>1, <2>2, <2>3 DEF MirrorInv
<1>2. ASSUME NEW r \in Mirror!Ranges, Mirror!AskRange(r)
      PROVE  MirrorInv'
    <2>1. /\ request = None /\ held # None /\ reply' = None
          /\ request' = [path |-> held.path, is_idx |-> FALSE, range |-> r]
          /\ UNCHANGED <<has_wildcard, idx, grib, withdrawn, unsettled, held, fixture>>
        BY <1>2 DEF Mirror!AskRange, Mirror!files
    <2>2. PairsPublished' /\ Mirror!OffsetsMatchGrib' /\ (held # None => Found(held.path, held.pair))'
        BY <2>1 DEF MirrorInv, PairsPublished, Found, Mirror!OffsetsMatchGrib
    <2>3. Asked' /\ Opened'
        BY <2>1 DEF MirrorInv, Found, Asked, Opened, Mirror!Ranges
    <2> QED
        BY <2>2, <2>3 DEF MirrorInv
<1>3. CASE Mirror!OpenFails
    <2>1. /\ reply' = Mirror!Answer(0, None) /\ fixture' = None /\ request' = None
          /\ UNCHANGED <<has_wildcard, idx, grib, withdrawn, unsettled, held>>
        BY <1>3 DEF Mirror!OpenFails, Mirror!files
    <2>2. PairsPublished' /\ (held # None => Found(held.path, held.pair))' /\ Asked' /\ Opened'
        BY <2>1 DEF MirrorInv, PairsPublished, Found, Asked, Opened
    <2>3. Mirror!OffsetsMatchGrib'
        BY <2>1 DEF Mirror!OffsetsMatchGrib, Mirror!Answer
    <2> QED
        BY <2>2, <2>3 DEF MirrorInv
<1>4. CASE Mirror!SendIdx
    <2>1. /\ fixture # None /\ request.is_idx /\ reply' = Mirror!Answer(200, fixture)
          /\ held' = [path |-> request.path, pair |-> fixture]
          /\ fixture' = None /\ request' = None
          /\ UNCHANGED <<has_wildcard, idx, grib, withdrawn, unsettled>>
        BY <1>4 DEF Mirror!SendIdx, Mirror!files
    <2>2. Found(request.path, fixture) /\ request.range = None
        BY <2>1 DEF MirrorInv, Asked, Opened
    <2>3. PairsPublished' /\ (held # None => Found(held.path, held.pair))' /\ Asked' /\ Opened'
        BY <2>1, <2>2 DEF MirrorInv, PairsPublished, Found, Asked, Opened
    <2>4. Mirror!OffsetsMatchGrib'
        BY <2>1, <2>2 DEF Mirror!OffsetsMatchGrib, Mirror!Answer
    <2> QED
        BY <2>3, <2>4 DEF MirrorInv
<1>5. CASE UNCHANGED Mirror!vars
    <2>1. UNCHANGED <<has_wildcard, idx, grib, withdrawn, unsettled, held, request, fixture, reply>>
        BY <1>5 DEF Mirror!vars, Mirror!files
    <2>2. PairsPublished' /\ (held # None => Found(held.path, held.pair))'
        BY <2>1 DEF MirrorInv, PairsPublished, Found
    <2>3. Asked' /\ Opened'
        BY <2>1 DEF MirrorInv, Asked, Opened, Found, Mirror!Ranges
    <2>4. Mirror!OffsetsMatchGrib'
        BY <2>1 DEF MirrorInv, Mirror!OffsetsMatchGrib
    <2> QED
        BY <2>2, <2>3, <2>4 DEF MirrorInv
<1> QED
    BY <1>1, <1>2, <1>3, <1>4, <1>5, OperatorStep, ResolveFinds, RangeSent DEF Mirror!Next

\* What "byte offsets must match the GRIB actually served" comes to, for all paths,
\* sizes and ranges, with and without a wildcard pair: another GRIB than that of the
\* inventory is served only beside a wildcard pair, where the cycle's own GRIB came
\* or went meanwhile.
THEOREM OffsetsCorrect ==
    ASSUME Mirror!GfsMirrorAssumption PROVE Mirror!Spec => []OffsetsMatchGrib
<1>1. Mirror!Init => MirrorInv
    BY InitMirror
<1>2. MirrorInv /\ [Mirror!Next]_Mirror!vars => MirrorInv'
    BY StepMirror
<1>3. MirrorInv => OffsetsMatchGrib
    BY DEF MirrorInv, OffsetsMatchGrib
<1> QED
    BY <1>1, <1>2, <1>3, PTL DEF Mirror!Spec

-----------------------------------------------------------------------------
(***************************************************************************)
(* The dump                                                                *)
(***************************************************************************)
GroupOf(r) == [type |-> r.type, kind |-> r.kind]

DumpShape ==
    /\ store \subseteq Rows /\ read \subseteq Rows /\ by_kind \subseteq read
    /\ dump_pc \in {"idle", "reading", "writing", "manifest", "done", "dead"}
    /\ dump \in 0 .. MaxDumps /\ type \in 1 .. 3
    /\ dump_pc # "idle" => dump > 0
    /\ files = [g \in Dumper!Groups |-> files[g]]
    /\ groups = [g \in DOMAIN groups |-> groups[g]] /\ DOMAIN groups \subseteq Dumper!Groups

Dumping == dump_pc \in {"reading", "writing", "manifest", "done"}

\* A group in the manifest has been written in this dump, and holds all rows of
\* it that were read; every row read is in such a group or still to be written.
GroupsWritten ==
    Dumping =>
        /\ \A g \in DOMAIN groups :
              /\ files[g] = [rows |-> Dumper!InGroup(read, g), dump |-> dump]
              /\ groups[g] = Cardinality(Dumper!InGroup(read, g))
              /\ Dumper!InGroup(by_kind, g) = {}
        /\ \A r \in read \ by_kind : GroupOf(r) \in DOMAIN groups

\* Types are read and written one after the other.
InTypeOrder ==
    /\ dump_pc = "reading" => by_kind = {} /\ open = None /\ \A r \in read : r.type < type
    /\ dump_pc = "writing" =>
          /\ \A r \in read : r.type <= type
          /\ \A r \in by_kind : r.type = type
          /\ open # None => open \in Dumper!Groups /\ Dumper!InGroup(by_kind, open) # {}
    /\ dump_pc \in {"manifest", "done"} => by_kind = {}
    /\ Dumping => \A g \in DOMAIN groups : \E r \in read : g = GroupOf(r)

\* The manifest is of an earlier dump until this one is over.
ManifestLast ==
    /\ manifest \in {None, Torn} \/ manifest.dump \in 1 .. dump
    /\ dump_pc = "done" => manifest = [dump |-> dump, groups |-> groups]
    /\ dump_pc # "done" => manifest \in {None, Torn} \/ manifest.dump < dump

DumpInv == DumpShape /\ GroupsWritten /\ InTypeOrder /\ ManifestLast

LEMMA InitDump == ASSUME Dumper!StoreDumpAssumption, Dumper!Init PROVE DumpInv
<1>1. MaxDumps \in Nat
    BY DEF Dumper!StoreDumpAssumption
<1>2. DumpShape
    BY <1>1 DEF Dumper!Init, DumpShape
<1>3. GroupsWritten /\ InTypeOrder /\ ManifestLast
    BY DEF Dumper!Init, Dumping, GroupsWritten, InTypeOrder, ManifestLast
<1> QED
    BY <1>2, <1>3 DEF DumpInv

\* What is written is told from a file that is not there or torn.
LEMMA TextsAreTexts ==
    ASSUME Dumper!StoreDumpAssumption,
           NEW rows \in SUBSET Rows, NEW d \in 1 .. MaxDumps
    PROVE  /\ [rows |-> rows, dump |-> d] \notin {None, Torn}
           /\ Cardinality(rows) \in 0 .. Cardinality(Rows)
<1>1. [rows |-> rows, dump |-> d] \in Dumper!FileTexts
    BY DEF Dumper!FileTexts
<1>2. IsFiniteSet(Rows)
    BY DEF Dumper!StoreDumpAssumption, Dumper!IsFiniteSet, IsFiniteSet
<1>3. /\ IsFiniteSet(rows) /\ Cardinality(rows) <= Cardinality(Rows)
      /\ Cardinality(rows) \in Nat /\ Cardinality(Rows) \in Nat
    BY <1>2, FS_Subset, FS_CardinalityType
<1> QED
    BY <1>1, <1>3 DEF Dumper!StoreDumpAssumption

\* A step that leaves the dump alone.
LEMMA DumpAlone ==
    ASSUME DumpInv, store' \subseteq Rows,
           UNCHANGED <<dump_pc, dump, type, by_kind, open, groups, files, manifest, read>>
    PROVE  DumpInv'
<1>1. DumpShape'
    BY DEF DumpInv, DumpShape
<1>2. GroupsWritten'
    BY DEF DumpInv, GroupsWritten, Dumping
<1>3. InTypeOrder'
    BY DEF DumpInv, InTypeOrder, Dumping
<1>4. ManifestLast'
    BY DEF DumpInv, ManifestLast
<1> QED
    BY <1>1, <1>2, <1>3, <1>4 DEF DumpInv

\* A new dump: whatever the manifest says is of an earlier one.
LEMMA DumpStarts ==
    ASSUME Dumper!StoreDumpAssumption, DumpInv, Dumper!Start
    PROVE  DumpInv'
<1>1. MaxDumps \in Nat /\ dump \in 0 .. MaxDumps /\ dump < MaxDumps
    BY DEF Dumper!StoreDumpAssumption, Dumper!Start, DumpInv, DumpShape
<1>2. /\ dump_pc' = "reading" /\ dump' = dump + 1 /\ type' = 1
      /\ by_kind' = {} /\ open' = None /\ read' = {} /\ groups' = [g \in {} |-> 0]
      /\ UNCHANGED <<store, files, manifest>>
    BY DEF Dumper!Start, Dumper!disk
<1>3. DumpShape'
    BY <1>1, <1>2 DEF DumpInv, DumpShape
<1>4. GroupsWritten' /\ InTypeOrder'
    BY <1>2 DEF GroupsWritten, InTypeOrder, Dumping
<1>5. ManifestLast'
    BY <1>1, <1>2 DEF DumpInv, ManifestLast
<1> QED
    BY <1>3, <1>4, <1>5 DEF DumpInv

\* A read brings rows of a new type: no group written holds any of them.
LEMMA DumpReads ==
    ASSUME Dumper!StoreDumpAssumption, DumpInv, Dumper!Read
    PROVE  DumpInv'
<1>1. /\ dump_pc = "reading" /\ dump_pc' = "writing"
      /\ by_kind' = {r \in store : r.type = type} /\ read' = read \cup by_kind'
      /\ UNCHANGED <<store, dump, type, open, groups, files, manifest>>
    BY DEF Dumper!Read, Dumper!disk
<1>2. /\ by_kind = {} /\ open = None /\ \A r \in read : r.type < type
      /\ \A g \in DOMAIN groups : \E r \in read : g = GroupOf(r)
      /\ type \in 1 .. 3 /\ store \subseteq Rows /\ read \subseteq Rows
    BY <1>1 DEF DumpInv, DumpShape, InTypeOrder, Dumping
<1>3. \A r \in read : r.type \in Nat /\ r.type < type
    BY <1>2 DEF Dumper!StoreDumpAssumption, Dumper!Types
<1>4. \A g \in DOMAIN groups : g.type < type /\ g.type \in Nat
    BY <1>2, <1>3 DEF GroupOf
<1>5. \A g \in DOMAIN groups : Dumper!InGroup(by_kind', g) = {} /\ Dumper!InGroup(read', g) = Dumper!InGroup(read, g)
    BY <1>1, <1>2, <1>4 DEF Dumper!InGroup
<1>6. DumpShape'
    BY <1>1, <1>2 DEF DumpInv, DumpShape
<1>7. GroupsWritten'
    BY <1>1, <1>2, <1>5 DEF DumpInv, GroupsWritten, Dumping
<1>8. InTypeOrder'
    <2>1. \A r \in read' : r.type <= type
        BY <1>1, <1>2, <1>3
    <2> QED
        BY <1>1, <1>2, <2>1 DEF DumpInv, InTypeOrder, Dumping
<1>9. ManifestLast'
    BY <1>1 DEF DumpInv, ManifestLast
<1> QED
    BY <1>6, <1>7, <1>8, <1>9 DEF DumpInv

\* The group that is opened has not been written in this dump.
LEMMA GroupOpened ==
    ASSUME Dumper!StoreDumpAssumption, DumpInv, NEW g \in Dumper!Groups, Dumper!OpenGroup(g)
    PROVE  DumpInv'
<1>1. /\ dump_pc = "writing" /\ Dumper!InGroup(by_kind, g) # {}
      /\ open' = g /\ files' = [files EXCEPT ![g] = Torn]
      /\ UNCHANGED <<store, dump_pc, dump, type, by_kind, groups, manifest, read>>
    BY DEF Dumper!OpenGroup, Dumper!NextGroup
<1>2. g \notin DOMAIN groups
    BY <1>1 DEF DumpInv, GroupsWritten, Dumping
<1>3. \A h \in DOMAIN groups : files'[h] = files[h]
    BY <1>1, <1>2 DEF DumpInv, DumpShape
<1>4. DumpShape'
    BY <1>1 DEF DumpInv, DumpShape
<1>5. GroupsWritten'
    BY <1>1, <1>3 DEF DumpInv, GroupsWritten, Dumping
<1>6. InTypeOrder'
    BY <1>1 DEF DumpInv, InTypeOrder, Dumping
<1>7. ManifestLast'
    BY <1>1 DEF DumpInv, ManifestLast
<1> QED
    BY <1>4, <1>5, <1>6, <1>7 DEF DumpInv

\* A group is written whole: none of its rows has been written before.
LEMMA GroupIsWritten ==
    ASSUME Dumper!StoreDumpAssumption, DumpInv, Dumper!WriteGroup
    PROVE  DumpInv'
<1> DEFINE rows == Dumper!InGroup(by_kind, open)
<1>1. /\ dump_pc = "writing" /\ open # None /\ open' = None
      /\ files' = [files EXCEPT ![open] = [rows |-> rows, dump |-> dump]]
      /\ groups' = [g \in (DOMAIN groups) \cup {open} |->
                       IF g = open THEN Cardinality(rows) ELSE groups[g]]
      /\ by_kind' = by_kind \ rows
      /\ UNCHANGED <<store, dump_pc, dump, type, manifest, read>>
    BY DEF Dumper!WriteGroup, Dumper!Cardinality, Cardinality
<1>2. open \in Dumper!Groups /\ rows # {} /\ by_kind \subseteq read
    BY <1>1 DEF DumpInv, DumpShape, InTypeOrder
<1>3. open \notin DOMAIN groups
    BY <1>1, <1>2 DEF DumpInv, GroupsWritten, Dumping
<1>4. \A r \in read : GroupOf(r) = open => r \in by_kind
    BY <1>1, <1>3 DEF DumpInv, GroupsWritten, Dumping
<1>5. \A r : r.type = open.type /\ r.kind = open.kind => GroupOf(r) = open
    BY <1>2 DEF GroupOf, Dumper!Groups
<1>6. Dumper!InGroup(read, open) = rows
    BY <1>2, <1>4, <1>5 DEF Dumper!InGroup
<1>7. Dumper!InGroup(by_kind', open) = {}
    BY <1>1 DEF Dumper!InGroup
<1>8. \A g \in DOMAIN groups :
         /\ files'[g] = files[g] /\ groups'[g] = groups[g]
         /\ Dumper!InGroup(by_kind', g) \subseteq Dumper!InGroup(by_kind, g)
    BY <1>1, <1>3 DEF DumpInv, DumpShape, Dumper!InGroup
<1>9. files'[open] = [rows |-> rows, dump |-> dump] /\ groups'[open] = Cardinality(rows)
    BY <1>1, <1>2 DEF DumpInv, DumpShape
<1>10. DOMAIN groups' = (DOMAIN groups) \cup {open}
    BY <1>1
<1>11. DumpShape'
    <2>1. by_kind' \subseteq read' /\ files' = [g \in Dumper!Groups |-> files'[g]]
        BY <1>1, <1>2 DEF DumpInv, DumpShape
    <2>2. groups' = [g \in DOMAIN groups' |-> groups'[g]] /\ DOMAIN groups' \subseteq Dumper!Groups
        BY <1>1, <1>2, <1>10 DEF DumpInv, DumpShape
    <2> QED
        BY <1>1, <2>1, <2>2 DEF DumpInv, DumpShape
<1>12. GroupsWritten'
    <2>1. ASSUME NEW r \in read', r \notin by_kind'
          PROVE  GroupOf(r) \in DOMAIN groups'
        <3>1. CASE r \in rows
            BY <1>5, <1>10, <3>1 DEF Dumper!InGroup
        <3>2. CASE r \notin rows
            BY <1>1, <1>10, <2>1, <3>2 DEF DumpInv, GroupsWritten, Dumping
        <3> QED
            BY <3>1, <3>2
    <2>2. ASSUME NEW g \in DOMAIN groups'
          PROVE  /\ files'[g] = [rows |-> Dumper!InGroup(read', g), dump |-> dump']
                 /\ groups'[g] = Cardinality(Dumper!InGroup(read', g))
                 /\ Dumper!InGroup(by_kind', g) = {}
        <3>1. CASE g = open
            BY <1>1, <1>6, <1>7, <1>9, <3>1
        <3>2. CASE g \in DOMAIN groups
            BY <1>1, <1>8, <3>2 DEF DumpInv, GroupsWritten, Dumping
        <3> QED
            BY <1>10, <3>1, <3>2
    <2> QED
        BY <2>1, <2>2 DEF GroupsWritten
<1>13. InTypeOrder'
    <2>1. ASSUME NEW g \in DOMAIN groups'
          PROVE  \E r \in read' : g = GroupOf(r)
        <3>1. CASE g = open
            BY <1>1, <1>2, <1>5, <3>1 DEF Dumper!InGroup
        <3>2. CASE g \in DOMAIN groups
            BY <1>1, <3>2 DEF DumpInv, InTypeOrder, Dumping
        <3> QED
            BY <1>10, <3>1, <3>2
    <2> QED
        BY <1>1, <2>1 DEF DumpInv, InTypeOrder
<1>14. ManifestLast'
    BY <1>1 DEF DumpInv, ManifestLast
<1> QED
    BY <1>11, <1>12, <1>13, <1>14 DEF DumpInv

LEMMA TypeIsDone ==
    ASSUME Dumper!StoreDumpAssumption, DumpInv, Dumper!TypeDone
    PROVE  DumpInv'
<1>1. /\ dump_pc = "writing" /\ by_kind = {}
      /\ \/ type < 3 /\ dump_pc' = "reading" /\ type' = type + 1
         \/ dump_pc' = "manifest" /\ type' = type
      /\ UNCHANGED <<store, dump, by_kind, open, groups, read, files, manifest>>
    BY DEF Dumper!TypeDone, Dumper!disk
<1>2. type \in 1 .. 3 /\ open = None
    BY <1>1 DEF DumpInv, DumpShape, InTypeOrder, Dumper!InGroup
<1>3. \A r \in read : r.type \in Nat /\ r.type <= type
    BY <1>1 DEF DumpInv, DumpShape, InTypeOrder, Dumper!StoreDumpAssumption, Dumper!Types
<1>4. DumpShape'
    BY <1>1, <1>2 DEF DumpInv, DumpShape
<1>5. GroupsWritten'
    BY <1>1 DEF DumpInv, GroupsWritten, Dumping
<1>6. InTypeOrder'
    BY <1>1, <1>2, <1>3 DEF DumpInv, InTypeOrder, Dumping
<1>7. ManifestLast'
    BY <1>1 DEF DumpInv, ManifestLast
<1> QED
    BY <1>4, <1>5, <1>6, <1>7 DEF DumpInv

LEMMA ManifestSteps ==
    ASSUME Dumper!StoreDumpAssumption, DumpInv,
           Dumper!OpenManifest \/ Dumper!WriteManifest \/ Dumper!Dies
    PROVE  DumpInv'
<1>1. /\ dump_pc \in {"reading", "writing", "manifest"}
      /\ \/ dump_pc' = "manifest" /\ dump_pc = "manifest" /\ manifest' = Torn
         \/ dump_pc' = "done" /\ dump_pc = "manifest" /\ manifest' = [dump |-> dump, groups |-> groups]
         \/ dump_pc' = "dead" /\ manifest' = manifest
      /\ UNCHANGED <<store, dump, type, by_kind, groups, files, read>>
    BY DEF Dumper!OpenManifest, Dumper!WriteManifest, Dumper!Dies, Dumper!disk
<1>2. dump \in 1 .. MaxDumps
    BY <1>1 DEF DumpInv, DumpShape
<1>3. DumpShape'
    BY <1>1, <1>2 DEF DumpInv, DumpShape
<1>4. GroupsWritten' /\ InTypeOrder'
    BY <1>1 DEF DumpInv, GroupsWritten, InTypeOrder, Dumping
<1>5. ManifestLast'
    BY <1>1, <1>2 DEF DumpInv, ManifestLast
<1> QED
    BY <1>3, <1>4, <1>5 DEF DumpInv

LEMMA StepDump ==
    ASSUME Dumper!StoreDumpAssumption, DumpInv, [Dumper!Next]_Dumper!vars
    PROVE  DumpInv'
<1>1. ASSUME NEW r \in Rows, Dumper!Change(r)
      PROVE  DumpInv'
    <2>1. store' \subseteq Rows
        BY <1>1 DEF Dumper!Change, DumpInv, DumpShape
    <2> QED
        BY <1>1, <2>1, DumpAlone DEF Dumper!Change, Dumper!run, Dumper!disk
<1>2. CASE UNCHANGED Dumper!vars
    <2>1. store' \subseteq Rows
        BY <1>2 DEF Dumper!vars, DumpInv, DumpShape
    <2> QED
        BY <1>2, <2>1, DumpAlone DEF Dumper!vars, Dumper!run, Dumper!disk
<1> QED
    BY <1>1, <1>2, DumpStarts, DumpReads, GroupOpened, GroupIsWritten, TypeIsDone, ManifestSteps
       DEF Dumper!Next

LEMMA DumpFollows ==
    ASSUME Dumper!StoreDumpAssumption, DumpInv
    PROVE  DumpIsWhole
<1>1. manifest \notin {None, Torn} /\ manifest.dump = dump => dump_pc = "done"
    BY DEF DumpInv, DumpShape, ManifestLast, Dumper!StoreDumpAssumption
<1>2. ASSUME dump_pc = "done"
      PROVE  /\ Dumper!Listed = DOMAIN groups
             /\ \A g \in Dumper!Listed :
                   Dumper!Written(g) /\ Dumper!Cardinality(files[g].rows) = manifest.groups[g]
             /\ UNION {files[g].rows : g \in Dumper!Listed} = read
             /\ {r \in read : [type |-> r.type, kind |-> r.kind] \in Dumper!Pattern} \subseteq Dumper!Load
    <2>1. /\ DOMAIN groups \subseteq Dumper!Groups /\ read \subseteq Rows /\ dump \in 1 .. MaxDumps
          /\ groups = [g \in DOMAIN groups |-> groups[g]]
          /\ manifest = [dump |-> dump, groups |-> groups] /\ by_kind = {}
        BY <1>2 DEF DumpInv, DumpShape, ManifestLast, InTypeOrder
    <2>2. \A g \in DOMAIN groups :
             /\ files[g] = [rows |-> Dumper!InGroup(read, g), dump |-> dump]
             /\ groups[g] = Cardinality(Dumper!InGroup(read, g))
        BY <1>2 DEF DumpInv, GroupsWritten, Dumping
    <2>3. \A r \in read : GroupOf(r) \in DOMAIN groups
        BY <1>2, <2>1 DEF DumpInv, GroupsWritten, Dumping
    <2>4. \A g \in DOMAIN groups : files[g].rows = Dumper!InGroup(read, g)
        <3> TAKE g \in DOMAIN groups
        <3>1. files[g] = [rows |-> Dumper!InGroup(read, g), dump |-> dump]
            BY <2>2
        <3> QED
            BY <3>1
    <2>5. \A g : Dumper!InGroup(read, g) \in SUBSET Rows
        BY <2>1 DEF Dumper!InGroup
    <2>6. manifest \notin {None, Torn}
        <3>1. groups \in [DOMAIN groups -> 0 .. Cardinality(Rows)]
            BY <2>1, <2>2, <2>5, TextsAreTexts, ZenonT(60)
        <3>2. manifest \in Dumper!ManifestTexts
            BY <2>1, <3>1 DEF Dumper!ManifestTexts, Dumper!Cardinality, Cardinality
        <3> QED
            BY <3>2 DEF Dumper!StoreDumpAssumption
    <2>7. Dumper!Listed = DOMAIN groups
        BY <2>1, <2>6 DEF Dumper!Listed
    <2>8. \A g \in DOMAIN groups : Dumper!Written(g)
        BY <2>1, <2>2, <2>5, TextsAreTexts DEF Dumper!Written
    <2>9. \A g \in DOMAIN groups : Dumper!Cardinality(files[g].rows) = manifest.groups[g]
        <3>1. manifest.groups = groups
            BY <2>1
        <3>2. \A S : Dumper!Cardinality(S) = Cardinality(S)
            BY DEF Dumper!Cardinality, Cardinality
        <3> QED
            BY <2>2, <2>4, <3>1, <3>2
    <2>10. \A r \in read : r \in files[GroupOf(r)].rows
        BY <2>3, <2>4 DEF GroupOf, Dumper!InGroup
    <2>11. UNION {files[g].rows : g \in DOMAIN groups} = read
        <3>1. \A g \in DOMAIN groups : files[g].rows \subseteq read
            BY <2>4 DEF Dumper!InGroup
        <3> QED
            BY <2>3, <2>10, <3>1
    <2>12. {r \in read : [type |-> r.type, kind |-> r.kind] \in Dumper!Pattern} \subseteq Dumper!Load
        BY <2>3, <2>8, <2>10 DEF Dumper!Load, GroupOf
    <2> QED
        BY <2>7, <2>8, <2>9, <2>11, <2>12
<1> QED
    BY <1>1, <1>2 DEF DumpIsWhole, Dumper!DumpIsWhole

\* For all rows of a store, however it changes and wherever a dump stops: a dump
\* with a manifest is whole, and none is announced by the manifest before it is.
THEOREM DumpCorrect ==
    ASSUME Dumper!StoreDumpAssumption PROVE Dumper!Spec => []DumpIsWhole
<1>1. Dumper!Init => DumpInv
    BY InitDump
<1>2. DumpInv /\ [Dumper!Next]_Dumper!vars => DumpInv'
    BY StepDump
<1>3. DumpInv => DumpIsWhole
    BY DumpFollows
<1> QED
    BY <1>1, <1>2, <1>3, PTL DEF Dumper!Spec

-----------------------------------------------------------------------------
(***************************************************************************)
(* The report                                                              *)
(***************************************************************************)
\* What the points of a set add to a cell.
OrcSum(b, size, S) == Report!MapThenSumSet(LAMBDA p : Report!Weighted(Report!Oracle(b, p), size), S)
EngSum(b, size, S) == Report!MapThenSumSet(LAMBDA p : Report!Weighted(Report!Engine(b, p), size), S)

\* The sums over no point and over one.
LEMMA NothingToAdd ==
    ASSUME NEW b, NEW size
    PROVE  /\ OrcSum(b, size, {}) = 0
           /\ EngSum(b, size, {}) = 0
<1> DEFINE orc(p) == Report!Weighted(Report!Oracle(b, p), size)
           eng(p) == Report!Weighted(Report!Engine(b, p), size)
           OrcBody(f) == [s \in SUBSET {} |->
               IF s = {} THEN 0 ELSE LET x == CHOOSE x \in s : TRUE IN orc(x) + f[s \ {x}]]
           EngBody(f) == [s \in SUBSET {} |->
               IF s = {} THEN 0 ELSE LET x == CHOOSE x \in s : TRUE IN eng(x) + f[s \ {x}]]
           orc_sum == CHOOSE f : f = OrcBody(f)
           eng_sum == CHOOSE f : f = EngBody(f)
<1>1. /\ OrcSum(b, size, {}) = orc_sum[{}]
      /\ EngSum(b, size, {}) = eng_sum[{}]
    BY DEF OrcSum, EngSum, Report!MapThenSumSet, Report!MapThenFoldSet
<1> HIDE DEF orc, eng
<1>2. (\E f : f = OrcBody(f)) /\ (\E f : f = EngBody(f))
    <2> DEFINE f == [s \in SUBSET {} |-> 0]
    <2>1. f = OrcBody(f) /\ f = EngBody(f)
        OBVIOUS
    <2> QED
        BY <2>1
<1>3. orc_sum = OrcBody(orc_sum) /\ eng_sum = EngBody(eng_sum)
    BY <1>2
<1> HIDE DEF orc_sum, eng_sum
<1>4. orc_sum[{}] = 0 /\ eng_sum[{}] = 0
    BY <1>3
<1> QED
    BY <1>1, <1>4

LEMMA OnePointToAdd ==
    ASSUME NEW b, NEW size, NEW q,
           Report!Weighted(Report!Oracle(b, q), size) \in Int,
           Report!Weighted(Report!Engine(b, q), size) \in Int
    PROVE  /\ OrcSum(b, size, {q}) =
              Report!Weighted(Report!Oracle(b, q), size)
           /\ EngSum(b, size, {q}) =
              Report!Weighted(Report!Engine(b, q), size)
<1> DEFINE orc(p) == Report!Weighted(Report!Oracle(b, p), size)
           eng(p) == Report!Weighted(Report!Engine(b, p), size)
           OrcBody(f) == [s \in SUBSET {q} |->
               IF s = {} THEN 0 ELSE LET x == CHOOSE x \in s : TRUE IN orc(x) + f[s \ {x}]]
           EngBody(f) == [s \in SUBSET {q} |->
               IF s = {} THEN 0 ELSE LET x == CHOOSE x \in s : TRUE IN eng(x) + f[s \ {x}]]
           orc_sum == CHOOSE f : f = OrcBody(f)
           eng_sum == CHOOSE f : f = EngBody(f)
<1>1. /\ OrcSum(b, size, {q}) = orc_sum[{q}]
      /\ EngSum(b, size, {q}) = eng_sum[{q}]
    BY DEF OrcSum, EngSum, Report!MapThenSumSet, Report!MapThenFoldSet
<1>2. orc(q) \in Int /\ eng(q) \in Int
    OBVIOUS
<1> HIDE DEF orc, eng
<1>3. /\ (CHOOSE x \in {q} : TRUE) = q /\ {q} \ {q} = {} /\ {q} # {}
      /\ \A s \in SUBSET {q} : s = {} \/ s = {q}
    OBVIOUS
<1>4. \E f : f = OrcBody(f)
    <2> DEFINE f == [s \in SUBSET {q} |-> IF s = {} THEN 0 ELSE orc(q)]
    <2>1. \A s \in SUBSET {q} : (IF s = {} THEN 0 ELSE orc(q)) =
             IF s = {} THEN 0 ELSE LET x == CHOOSE x \in s : TRUE IN orc(x) + f[s \ {x}]
        BY <1>2, <1>3
    <2>2. f = OrcBody(f)
        BY <2>1
    <2> QED
        BY <2>2
<1>5. \E f : f = EngBody(f)
    <2> DEFINE f == [s \in SUBSET {q} |-> IF s = {} THEN 0 ELSE eng(q)]
    <2>1. \A s \in SUBSET {q} : (IF s = {} THEN 0 ELSE eng(q)) =
             IF s = {} THEN 0 ELSE LET x == CHOOSE x \in s : TRUE IN eng(x) + f[s \ {x}]
        BY <1>2, <1>3
    <2>2. f = EngBody(f)
        BY <2>1
    <2> QED
        BY <2>2
<1>6. orc_sum = OrcBody(orc_sum) /\ eng_sum = EngBody(eng_sum)
    BY <1>4, <1>5
<1> HIDE DEF orc_sum, eng_sum
<1>7. orc_sum[{}] = 0 /\ eng_sum[{}] = 0
    BY <1>6
<1>8. orc_sum[{q}] = orc(q) + orc_sum[{q} \ {q}] /\ eng_sum[{q}] = eng(q) + eng_sum[{q} \ {q}]
    <2>1. (CHOOSE x \in {q} : TRUE) = q
        BY <1>3
    <2>2. orc_sum = OrcBody(orc_sum)
        BY <1>6
    <2>3. orc_sum[{q}] = orc(q) + orc_sum[{q} \ {q}]
        BY <2>1, <2>2
    <2>4. eng_sum = EngBody(eng_sum)
        BY <1>6
    <2>5. eng_sum[{q}] = eng(q) + eng_sum[{q} \ {q}]
        BY <2>1, <2>4
    <2> QED
        BY <2>3, <2>5
<1>9. orc_sum[{q}] = orc(q) /\ eng_sum[{q}] = eng(q)
    BY <1>2, <1>3, <1>7, <1>8
<1> QED
    BY <1>1, <1>9 DEF orc, eng

LEMMA CellAdds ==
    ASSUME NEW c, NEW b, NEW size
    PROVE  LET here == {p \in DOMAIN b.served : cell[p] = c}
           IN  Report!Added(c, b, size) = [orc |-> Report!AtCell(c).orc + OrcSum(b, size, here),
                                           eng |-> Report!AtCell(c).eng + EngSum(b, size, here)]
BY DEF Report!Added, OrcSum, EngSum

\* What is left of a merge after n buckets, and what it has summed by then.
Limit(p) == Len(Report!Buckets(window, p))
TimesTo(n) == UNION {window[x].times : x \in 1 .. n}
PointsTo(n) == UNION {DOMAIN window[x].served : x \in 1 .. n}
ServedTo(n, p) == UNION {window[x].served[p] : x \in {y \in 1 .. n : p \in DOMAIN window[y].served}}
SeenTo(n, p) == UNION {seen[p] \cap window[x].times : x \in {y \in 1 .. n : p \in DOMAIN window[y].served}}

SumsTo(n) ==
    /\ IsFiniteSet(TimesTo(n)) /\ tot = Cardinality(TimesTo(n))
    /\ DOMAIN acc = {cell[p] : p \in PointsTo(n)}
    /\ \A p \in PointsTo(n) : acc[cell[p]] = [orc |-> Cardinality(ServedTo(n, p)),
                                              eng |-> Cardinality(SeenTo(n, p))]

MergeInv ==
    report_by \in {"build", "finish"} =>
        /\ bucket \in 1 .. Limit(report_by) + 1
        /\ Report!Mergeable(window) => SumsTo(bucket - 1)

\* A dictionary that a program may have written.
Sections == {"models", "engine", "oracle_A", "oracle_B", "delta_A", "delta_B", "capacity_B"}
Figures == {"oracle_B", "delta_B"}
Words == Sections \cup {"merge", "save", "dump"}
Good(d) ==
    /\ DOMAIN d \subseteq Sections
    /\ "oracle_B" \in DOMAIN d <=> "delta_B" \in DOMAIN d
    /\ "oracle_B" \in DOMAIN d /\ Report!Mergeable(window) =>
          \E p \in {"build", "finish"} :
              Report!OneCall(Report!Buckets(window, p), d["oracle_B"], d["delta_B"])

\* The sections a program has to find or to write, and how the rest of its plan
\* accounts for them.
Due(p) == (IF p = "build" THEN Sections ELSE kept \cup Figures \cup {"capacity_B"})
Comes(s) == \E x \in 1 .. Len(plan) : plan[x] = IF s \in Figures THEN "merge" ELSE s
PlanInv ==
    /\ plan \in Seq(Words) /\ kept \subseteq Sections
    /\ plan = <<>> => on_disk = "whole" /\ report_file = stats
    /\ plan # <<>> => plan[Len(plan)] = "save" \/ plan = <<"dump">>
    /\ \A s \in Due(report_by) : s \in DOMAIN stats \/ Comes(s)

ReportInv ==
    /\ window \in Windows /\ report_by \in {"none", "build", "finish", "dead", "done"}
    /\ Good(report_file) /\ Good(stats) /\ MergeInv
    /\ report_by \in {"build", "finish"} => PlanInv
    /\ report_by = "done" =>
          on_disk = "whole" /\ kept \cup Figures \cup {"capacity_B"} \subseteq DOMAIN report_file

\* The buckets a program reads are the first of the archive.
LEMMA FirstBuckets ==
    ASSUME Report!JioReportAssumption, window \in Windows, NEW p \in {"build", "finish"}
    PROVE  /\ Len(window) \in Nat /\ DOMAIN window = 1 .. Len(window)
           /\ Limit(p) \in 0 .. Len(window) /\ DOMAIN Report!Buckets(window, p) = 1 .. Limit(p)
           /\ \A x \in 1 .. Limit(p) : Report!Buckets(window, p)[x] = window[x]
<1>1. window \in Seq(Report!Range(window))
    BY DEF Report!JioReportAssumption
<1>2. Len(window) \in Nat /\ DOMAIN window = 1 .. Len(window)
    BY <1>1
<1> DEFINE n == IF p = "build" /\ N_ARCHIVE_BUCKETS < Len(window) THEN N_ARCHIVE_BUCKETS
                ELSE IF p = "finish" /\ N_BUCKETS < Len(window) THEN N_BUCKETS ELSE Len(window)
<1>3. n \in 0 .. Len(window)
    BY <1>2 DEF Report!JioReportAssumption
<1>4. Report!Buckets(window, p) = SubSeq(window, 1, n)
    BY DEF Report!Buckets
<1> HIDE DEF n
<1>5. /\ Len(SubSeq(window, 1, n)) = n /\ DOMAIN SubSeq(window, 1, n) = 1 .. n
      /\ \A x \in 1 .. n : SubSeq(window, 1, n)[x] = window[x]
    BY <1>1, <1>2, <1>3
<1> QED
    BY <1>2, <1>3, <1>4, <1>5 DEF Limit

\* What a bucket adds to the sets the sums count.
LEMMA BucketAdds ==
    ASSUME NEW n \in Nat
    PROVE  /\ TimesTo(0) = {} /\ PointsTo(0) = {}
           /\ TimesTo(n + 1) = TimesTo(n) \cup window[n + 1].times
           /\ PointsTo(n + 1) = PointsTo(n) \cup DOMAIN window[n + 1].served
           /\ \A p : IF p \in DOMAIN window[n + 1].served
                    THEN /\ ServedTo(n + 1, p) = ServedTo(n, p) \cup window[n + 1].served[p]
                         /\ SeenTo(n + 1, p) = SeenTo(n, p) \cup (seen[p] \cap window[n + 1].times)
                    ELSE ServedTo(n + 1, p) = ServedTo(n, p) /\ SeenTo(n + 1, p) = SeenTo(n, p)
           /\ \A p : p \notin PointsTo(n) => ServedTo(n, p) = {} /\ SeenTo(n, p) = {}
<1>1. 1 .. n + 1 = 1 .. n \cup {n + 1} /\ 1 .. 0 = {}
    OBVIOUS
<1>2. TimesTo(0) = {} /\ PointsTo(0) = {}
    BY <1>1 DEF TimesTo, PointsTo
<1>3. TimesTo(n + 1) = TimesTo(n) \cup window[n + 1].times
    BY <1>1 DEF TimesTo
<1>4. PointsTo(n + 1) = PointsTo(n) \cup DOMAIN window[n + 1].served
    BY <1>1 DEF PointsTo
<1>5. ASSUME NEW p, p \in DOMAIN window[n + 1].served
      PROVE  /\ ServedTo(n + 1, p) = ServedTo(n, p) \cup window[n + 1].served[p]
             /\ SeenTo(n + 1, p) = SeenTo(n, p) \cup (seen[p] \cap window[n + 1].times)
    <2>1. {y \in 1 .. n + 1 : p \in DOMAIN window[y].served} =
             {y \in 1 .. n : p \in DOMAIN window[y].served} \cup {n + 1}
        BY <1>1, <1>5
    <2> QED
        BY <2>1 DEF ServedTo, SeenTo
<1>6. ASSUME NEW p, p \notin DOMAIN window[n + 1].served
      PROVE  ServedTo(n + 1, p) = ServedTo(n, p) /\ SeenTo(n + 1, p) = SeenTo(n, p)
    <2>1. {y \in 1 .. n + 1 : p \in DOMAIN window[y].served} =
             {y \in 1 .. n : p \in DOMAIN window[y].served}
        BY <1>1, <1>6
    <2> QED
        BY <2>1 DEF ServedTo, SeenTo
<1>7. ASSUME NEW p, p \notin PointsTo(n)
      PROVE  ServedTo(n, p) = {} /\ SeenTo(n, p) = {}
    <2>1. {y \in 1 .. n : p \in DOMAIN window[y].served} = {}
        BY <1>7 DEF PointsTo
    <2> QED
        BY <2>1 DEF ServedTo, SeenTo
<1> QED
    BY <1>2, <1>3, <1>4, <1>5, <1>6, <1>7

\* A share of all samples of a bucket, times their number.
LEMMA ShareOfAll ==
    ASSUME NEW g \in Nat, NEW n \in Nat \ {0}
    PROVE  (g * n) \div n = g
OBVIOUS

LEMMA ReportCardinality ==
    ASSUME NEW S
    PROVE  Report!Cardinality(S) = Cardinality(S) /\ (Report!IsFiniteSet(S) <=> IsFiniteSet(S))
<1>1. Report!Cardinality(S) = Cardinality(S)
    BY Zenon DEF Report!Cardinality, Cardinality
<1>2. Report!IsFiniteSet(S) <=> IsFiniteSet(S)
    BY Zenon DEF Report!IsFiniteSet, IsFiniteSet
<1> QED
    BY <1>1, <1>2

LEMMA BucketType ==
    ASSUME Report!JioReportAssumption, window \in Windows, NEW x \in 1 .. Len(window)
    PROVE  /\ IsFiniteSet(window[x].times) /\ Cardinality(window[x].times) \in Nat \ {0}
           /\ \A p \in DOMAIN window[x].served : window[x].served[p] \subseteq window[x].times
<1>1. DOMAIN window = 1 .. Len(window)
    BY FirstBuckets
<1>2. /\ window[x].times # {} /\ Report!IsFiniteSet(window[x].times)
      /\ \A p \in DOMAIN window[x].served : window[x].served[p] \subseteq window[x].times
    BY <1>1 DEF Report!JioReportAssumption
<1>3. IsFiniteSet(window[x].times)
    BY <1>2, ReportCardinality
<1> QED
    BY <1>2, <1>3, FS_CardinalityType, FS_EmptySet

\* Two finite sets that do not meet have the sum of their numbers.
LEMMA ApartAdd ==
    ASSUME NEW S, NEW T, IsFiniteSet(S), IsFiniteSet(T), S \cap T = {}
    PROVE  /\ IsFiniteSet(S \cup T) /\ Cardinality(S) \in Nat /\ Cardinality(T) \in Nat
           /\ Cardinality(S \cup T) = Cardinality(S) + Cardinality(T)
<1>1. Cardinality(S) \in Nat /\ Cardinality(T) \in Nat
    BY FS_CardinalityType
<1>2. IsFiniteSet(S \cup T)
    BY FS_Union
<1>3. Cardinality(S \cup T) = Cardinality(S) + Cardinality(T) - Cardinality(S \cap T)
    BY FS_Union
<1>4. Cardinality(S \cap T) = 0
    BY FS_EmptySet
<1> QED
    BY <1>1, <1>2, <1>3, <1>4

\* What a bucket that is at all samples adds to a cell of one point.
LEMMA SharesOfBucket ==
    ASSUME Report!JioReportAssumption, window \in Windows, NEW x \in 1 .. Len(window),
           NEW q \in DOMAIN window[x].served
    PROVE  LET size == Report!Cardinality(window[x].times)
           IN  /\ Report!Weighted(Report!Oracle(window[x], q), size) = Cardinality(window[x].served[q])
               /\ Report!Weighted(Report!Engine(window[x], q), size) =
                  Cardinality(seen[q] \cap window[x].times)
               /\ Cardinality(window[x].served[q]) \in Nat
               /\ Cardinality(seen[q] \cap window[x].times) \in Nat
<1> DEFINE size == Cardinality(window[x].times)
           served == Cardinality(window[x].served[q])
           engine == Cardinality(seen[q] \cap window[x].times)
<1>1. IsFiniteSet(window[x].times) /\ size \in Nat \ {0} /\ window[x].served[q] \subseteq window[x].times
    BY BucketType
<1>2. IsFiniteSet(window[x].served[q]) /\ IsFiniteSet(seen[q] \cap window[x].times)
    BY <1>1, FS_Subset
<1>3. served \in Nat /\ engine \in Nat
    BY <1>2, FS_CardinalityType
<1>4. /\ Report!Oracle(window[x], q) = [good |-> served, of |-> size]
      /\ Report!Engine(window[x], q) = [good |-> engine, of |-> size]
      /\ Report!Cardinality(window[x].times) = size
    BY ReportCardinality DEF Report!Oracle, Report!Engine
<1> HIDE DEF size, served, engine
<1>5. /\ Report!Weighted(Report!Oracle(window[x], q), size) = (served * size) \div size
      /\ Report!Weighted(Report!Engine(window[x], q), size) = (engine * size) \div size
    BY <1>4 DEF Report!Weighted
<1>6. (served * size) \div size = served /\ (engine * size) \div size = engine
    BY <1>1, <1>3, ShareOfAll
<1> QED
    BY <1>3, <1>4, <1>5, <1>6 DEF served, engine

\* What a merge that finds buckets and cells apart has at a point.
LEMMA PointSummed ==
    ASSUME Report!JioReportAssumption, window \in Windows, NEW n \in 0 .. Len(window), SumsTo(n), NEW q
    PROVE  /\ ServedTo(n, q) \subseteq TimesTo(n) /\ SeenTo(n, q) \subseteq TimesTo(n)
           /\ IsFiniteSet(ServedTo(n, q)) /\ IsFiniteSet(SeenTo(n, q))
           /\ Cardinality(ServedTo(n, q)) \in Nat /\ Cardinality(SeenTo(n, q)) \in Nat
<1>1. IsFiniteSet(TimesTo(n))
    BY DEF SumsTo
<1>2. Len(window) \in Nat
    BY FirstBuckets
<1>3. \A x \in 1 .. n : \A p \in DOMAIN window[x].served : window[x].served[p] \subseteq window[x].times
    BY <1>2, BucketType
<1>4. ServedTo(n, q) \subseteq TimesTo(n)
    BY <1>3 DEF ServedTo, TimesTo
<1>5. SeenTo(n, q) \subseteq TimesTo(n)
    BY DEF SeenTo, TimesTo
<1> QED
    BY <1>1, <1>4, <1>5, FS_Subset, FS_CardinalityType

LEMMA CellSummed ==
    ASSUME Report!JioReportAssumption, window \in Windows, Report!Mergeable(window),
           NEW n \in Nat, n + 1 \in 1 .. Len(window), SumsTo(n), NEW q \in PointsTo(n + 1)
    PROVE  Report!Added(cell[q], window[n + 1], Report!Cardinality(window[n + 1].times)) =
           [orc |-> Cardinality(ServedTo(n + 1, q)), eng |-> Cardinality(SeenTo(n + 1, q))]
<1> DEFINE b == window[n + 1]
           size == Report!Cardinality(b.times)
           here == {p \in DOMAIN b.served : cell[p] = cell[q]}
<1>1. /\ Len(window) \in Nat /\ DOMAIN window = 1 .. Len(window) /\ n \in 0 .. Len(window)
      /\ n + 1 \in Nat
    BY FirstBuckets
<1>2. /\ \A x \in 1 .. n + 1 : DOMAIN window[x].served \subseteq Report!Points(window)
      /\ 1 .. n + 1 \subseteq DOMAIN window
    BY <1>1 DEF Report!Points
<1>3. /\ PointsTo(n + 1) \subseteq Report!Points(window) /\ PointsTo(n) \subseteq Report!Points(window)
      /\ DOMAIN b.served \subseteq Report!Points(window)
    BY <1>1, <1>2 DEF PointsTo
<1>4. \A p, r \in Report!Points(window) : cell[p] = cell[r] => p = r
    BY DEF Report!Mergeable
<1>5. here = IF q \in DOMAIN b.served THEN {q} ELSE {}
    BY <1>3, <1>4
<1>6. /\ cell[q] \in DOMAIN acc <=> q \in PointsTo(n)
      /\ q \in PointsTo(n) => acc[cell[q]] = [orc |-> Cardinality(ServedTo(n, q)),
                                              eng |-> Cardinality(SeenTo(n, q))]
    BY <1>3, <1>4 DEF SumsTo
<1>7. Report!AtCell(cell[q]) = [orc |-> Cardinality(ServedTo(n, q)), eng |-> Cardinality(SeenTo(n, q))]
    <2>1. CASE q \in PointsTo(n)
        BY <1>6, <2>1 DEF Report!AtCell
    <2>2. CASE q \notin PointsTo(n)
        <3>1. Cardinality(ServedTo(n, q)) = 0 /\ Cardinality(SeenTo(n, q)) = 0
            BY <2>2, BucketAdds, FS_EmptySet
        <3> QED
            BY <1>6, <2>2, <3>1 DEF Report!AtCell
    <2> QED
        BY <2>1, <2>2
<1>8. /\ ServedTo(n, q) \subseteq TimesTo(n) /\ SeenTo(n, q) \subseteq TimesTo(n)
      /\ IsFiniteSet(ServedTo(n, q)) /\ IsFiniteSet(SeenTo(n, q))
      /\ Cardinality(ServedTo(n, q)) \in Nat /\ Cardinality(SeenTo(n, q)) \in Nat
    BY <1>1, PointSummed
<1>9. CASE q \in DOMAIN b.served
    <2> DEFINE served == Cardinality(b.served[q])
               engine == Cardinality(seen[q] \cap b.times)
    <2>1. /\ Report!Weighted(Report!Oracle(b, q), size) = served
          /\ Report!Weighted(Report!Engine(b, q), size) = engine
          /\ served \in Nat /\ engine \in Nat
        BY <1>9, SharesOfBucket
    <2>2. /\ OrcSum(b, size, {q}) =
             Report!Weighted(Report!Oracle(b, q), size)
          /\ EngSum(b, size, {q}) =
             Report!Weighted(Report!Engine(b, q), size)
        <3>1. /\ Report!Weighted(Report!Oracle(b, q), size) \in Int
              /\ Report!Weighted(Report!Engine(b, q), size) \in Int
            BY <2>1
        <3> QED
            BY <3>1, OnePointToAdd
    <2>3. here = {q}
        BY <1>5, <1>9
    <2>4. Report!Added(cell[q], b, size) =
             [orc |-> Report!AtCell(cell[q]).orc +
                      OrcSum(b, size, here),
              eng |-> Report!AtCell(cell[q]).eng +
                      EngSum(b, size, here)]
        BY CellAdds
    <2>5. Report!Added(cell[q], b, size) = [orc |-> Cardinality(ServedTo(n, q)) + served,
                                            eng |-> Cardinality(SeenTo(n, q)) + engine]
        <3>1. OrcSum(b, size, here) = served /\ EngSum(b, size, here) = engine
            BY <2>1, <2>2, <2>3
        <3> HIDE DEF b, size, here, served, engine
        <3> QED
            BY <1>7, <2>4, <3>1
    <2>6. TimesTo(n) \cap b.times = {}
        <3>1. \A x \in 1 .. n : window[x].times \cap b.times = {}
            BY <1>1 DEF Report!Mergeable
        <3> QED
            BY <3>1 DEF TimesTo
    <2>7. /\ b.served[q] \subseteq b.times /\ IsFiniteSet(b.times)
          /\ IsFiniteSet(b.served[q]) /\ IsFiniteSet(seen[q] \cap b.times)
        BY <1>9, BucketType, FS_Subset
    <2>8. Cardinality(ServedTo(n, q) \cup b.served[q]) = Cardinality(ServedTo(n, q)) + served
        BY <1>8, <2>6, <2>7, ApartAdd
    <2>9. Cardinality(SeenTo(n, q) \cup (seen[q] \cap b.times)) = Cardinality(SeenTo(n, q)) + engine
        <3>1. SeenTo(n, q) \cap (seen[q] \cap b.times) = {}
            BY <1>8, <2>6
        <3> QED
            BY <1>8, <2>7, <3>1, ApartAdd
    <2>10. /\ ServedTo(n + 1, q) = ServedTo(n, q) \cup b.served[q]
           /\ SeenTo(n + 1, q) = SeenTo(n, q) \cup (seen[q] \cap b.times)
        BY <1>9, BucketAdds
    <2> QED
        BY <2>5, <2>8, <2>9, <2>10
<1>10. CASE q \notin DOMAIN b.served
    <2>1. /\ OrcSum(b, size, {}) = 0
          /\ EngSum(b, size, {}) = 0
        BY NothingToAdd
    <2>2. here = {}
        BY <1>5, <1>10
    <2>3. Report!Added(cell[q], b, size) =
             [orc |-> Report!AtCell(cell[q]).orc +
                      OrcSum(b, size, here),
              eng |-> Report!AtCell(cell[q]).eng +
                      EngSum(b, size, here)]
        BY CellAdds
    <2>4. ServedTo(n + 1, q) = ServedTo(n, q) /\ SeenTo(n + 1, q) = SeenTo(n, q)
        BY <1>10, BucketAdds
    <2>5. OrcSum(b, size, here) = 0 /\ EngSum(b, size, here) = 0
        BY <2>1, <2>2
    <2> HIDE DEF b, size, here
    <2>6. Report!Added(cell[q], b, size) = [orc |-> Cardinality(ServedTo(n, q)),
                                            eng |-> Cardinality(SeenTo(n, q))]
        BY <1>7, <1>8, <2>3, <2>5
    <2> QED
        BY <2>4, <2>6 DEF b, size
<1> QED
    BY <1>9, <1>10

LEMMA BucketMerged ==
    ASSUME Report!JioReportAssumption, window \in Windows, MergeInv, Report!MergeBucket
    PROVE  MergeInv'
<1> DEFINE n == bucket - 1
           b == window[n + 1]
           size == Report!Cardinality(b.times)
<1>1. /\ report_by \in {"build", "finish"} /\ bucket <= Limit(report_by)
      /\ acc' = [c \in DOMAIN acc \cup {cell[p] : p \in DOMAIN window[bucket].served} |->
                    Report!Added(c, window[bucket], Report!Cardinality(window[bucket].times))]
      /\ tot' = tot + Report!Cardinality(window[bucket].times)
      /\ bucket' = bucket + 1 /\ window' = window /\ seen' = seen /\ cell' = cell
      /\ report_by' = report_by
    BY DEF Report!MergeBucket, Report!Merging, Report!Running, Report!inputs, Limit
<1>2. Len(window) \in Nat /\ Limit(report_by) \in 0 .. Len(window)
    BY <1>1, FirstBuckets
<1>3. bucket \in 1 .. Limit(report_by)
    BY <1>1, <1>2 DEF MergeInv
<1>4. n \in Nat /\ n + 1 = bucket /\ n + 1 \in 1 .. Len(window) /\ bucket' - 1 = n + 1
    BY <1>1, <1>2, <1>3
<1>5. /\ (Report!Mergeable(window))' = Report!Mergeable(window) /\ (Limit(report_by))' = Limit(report_by)
      /\ \A m : /\ (TimesTo(m))' = TimesTo(m) /\ (PointsTo(m))' = PointsTo(m)
                /\ \A p : (ServedTo(m, p))' = ServedTo(m, p) /\ (SeenTo(m, p))' = SeenTo(m, p)
    BY <1>1 DEF Report!Mergeable, Report!Points, Limit, Report!Buckets, TimesTo, PointsTo, ServedTo, SeenTo
<1>6. bucket' \in 1 .. (Limit(report_by))' + 1
    BY <1>1, <1>2, <1>3, <1>5
<1>7. ASSUME Report!Mergeable(window)
      PROVE  (SumsTo(bucket - 1))'
    <2>1. SumsTo(n)
        BY <1>1, <1>7 DEF MergeInv
    <2>2. /\ tot' = tot + size
          /\ acc' = [c \in DOMAIN acc \cup {cell[p] : p \in DOMAIN b.served} |-> Report!Added(c, b, size)]
        BY <1>1, <1>4
    <2>3. /\ TimesTo(n + 1) = TimesTo(n) \cup b.times
          /\ PointsTo(n + 1) = PointsTo(n) \cup DOMAIN b.served
        BY <1>4, BucketAdds
    <2>4. IsFiniteSet(TimesTo(n + 1)) /\ tot' = Cardinality(TimesTo(n + 1))
        <3>1. TimesTo(n) \cap b.times = {}
            <4>1. DOMAIN window = 1 .. Len(window)
                BY FirstBuckets
            <4>2. \A x \in 1 .. n : window[x].times \cap b.times = {}
                BY <1>2, <1>4, <1>7, <4>1 DEF Report!Mergeable
            <4> QED
                BY <4>2 DEF TimesTo
        <3>2. IsFiniteSet(TimesTo(n)) /\ IsFiniteSet(b.times)
            BY <1>4, <2>1, BucketType DEF SumsTo
        <3>3. Report!Cardinality(b.times) = Cardinality(b.times) /\ tot = Cardinality(TimesTo(n))
            BY <2>1, ReportCardinality DEF SumsTo
        <3>4. /\ IsFiniteSet(TimesTo(n) \cup b.times)
              /\ Cardinality(TimesTo(n) \cup b.times) = Cardinality(TimesTo(n)) + Cardinality(b.times)
            BY <3>1, <3>2, ApartAdd
        <3> HIDE DEF b
        <3> QED
            BY <2>2, <2>3, <3>3, <3>4
    <2>5. DOMAIN acc' = {cell[p] : p \in PointsTo(n + 1)}
        BY <2>1, <2>2, <2>3 DEF SumsTo
    <2>6. ASSUME NEW q \in PointsTo(n + 1)
          PROVE  acc'[cell[q]] = [orc |-> Cardinality(ServedTo(n + 1, q)),
                                  eng |-> Cardinality(SeenTo(n + 1, q))]
        <3>1. acc'[cell[q]] = Report!Added(cell[q], b, size)
            <4>1. cell[q] \in DOMAIN acc \cup {cell[p] : p \in DOMAIN b.served}
                BY <2>1, <2>3 DEF SumsTo
            <4> QED
                BY <2>2, <4>1
        <3> QED
            BY <1>4, <1>7, <2>1, <3>1, CellSummed
    <2>7. (TimesTo(bucket - 1))' = TimesTo(n + 1) /\ (PointsTo(bucket - 1))' = PointsTo(n + 1)
        BY <1>1, <1>4 DEF TimesTo, PointsTo
    <2>8. \A p : /\ (ServedTo(bucket - 1, p))' = ServedTo(n + 1, p)
                /\ (SeenTo(bucket - 1, p))' = SeenTo(n + 1, p)
        BY <1>1, <1>4 DEF ServedTo, SeenTo
    <2> HIDE DEF n, b, size
    <2> QED
        BY <1>1, <2>4, <2>5, <2>6, <2>7, <2>8 DEF SumsTo
<1> QED
    BY <1>5, <1>6, <1>7 DEF MergeInv

\* When all buckets are merged the figures are those of one call.
LEMMA FiguresFollow ==
    ASSUME Report!JioReportAssumption, window \in Windows, MergeInv, Report!MergeEnds,
           Report!Mergeable(window)
    PROVE  Report!OneCall(Report!Buckets(window, report_by), stats'["oracle_B"], stats'["delta_B"])
<1> DEFINE w == Report!Buckets(window, report_by)
           n == Limit(report_by)
           orc == [n_samples |-> tot, orc |-> [c \in DOMAIN acc |-> acc[c].orc]]
           delta == [n_samples |-> tot, eng |-> [c \in DOMAIN acc |-> acc[c].eng - acc[c].orc]]
<1>1. report_by \in {"build", "finish"} /\ bucket > n
    BY DEF Report!MergeEnds, Report!Merging, Report!Running, Limit
<1>2. stats'["oracle_B"] = orc /\ stats'["delta_B"] = delta
    BY DEF Report!MergeEnds
<1>3. /\ Len(window) \in Nat /\ n \in 0 .. Len(window) /\ DOMAIN w = 1 .. n
      /\ \A x \in 1 .. n : w[x] = window[x]
    BY <1>1, FirstBuckets
<1>4. bucket - 1 = n
    BY <1>1, <1>3 DEF MergeInv
<1>5. SumsTo(n)
    BY <1>1, <1>4 DEF MergeInv
<1> HIDE DEF n, w
<1>6. Report!Times(w) = TimesTo(n) /\ Report!Points(w) = PointsTo(n)
    <2>1. Report!Times(w) = TimesTo(n)
        BY <1>3 DEF Report!Times, TimesTo
    <2>2. Report!Points(w) = PointsTo(n)
        BY <1>3 DEF Report!Points, PointsTo
    <2> QED
        BY <2>1, <2>2
<1>7. \A p : Report!Served(w, p) = ServedTo(n, p)
    <2> TAKE p
    <2>1. {x \in DOMAIN w : p \in DOMAIN w[x].served} = {x \in 1 .. n : p \in DOMAIN window[x].served}
        BY <1>3
    <2>2. Report!Served(w, p) = UNION {w[x].served[p] : x \in {y \in 1 .. n : p \in DOMAIN window[y].served}}
        BY <2>1 DEF Report!Served
    <2> QED
        BY <1>3, <2>2 DEF ServedTo
<1>8. ASSUME NEW p, \A x \in DOMAIN w : p \in DOMAIN w[x].served
      PROVE  SeenTo(n, p) = seen[p] \cap Report!Times(w)
    <2>1. {x \in 1 .. n : p \in DOMAIN window[x].served} = 1 .. n
        BY <1>3, <1>8
    <2>2. SeenTo(n, p) = UNION {seen[p] \cap window[x].times : x \in 1 .. n}
        BY <2>1 DEF SeenTo
    <2> QED
        BY <1>6, <2>2 DEF TimesTo
<1>9. tot = Cardinality(TimesTo(n)) /\ DOMAIN acc = {cell[p] : p \in PointsTo(n)}
    BY <1>5 DEF SumsTo
<1>10. \A p \in PointsTo(n) : /\ orc.orc[cell[p]] = Cardinality(ServedTo(n, p))
                              /\ delta.eng[cell[p]] = Cardinality(SeenTo(n, p)) - Cardinality(ServedTo(n, p))
    <2> TAKE p \in PointsTo(n)
    <2>1. cell[p] \in DOMAIN acc
        BY <1>9
    <2>2. acc[cell[p]] = [orc |-> Cardinality(ServedTo(n, p)), eng |-> Cardinality(SeenTo(n, p))]
        BY <1>5 DEF SumsTo
    <2> QED
        BY <2>1, <2>2
<1>11. /\ orc.n_samples = tot /\ delta.n_samples = tot
       /\ DOMAIN orc.orc = DOMAIN acc /\ DOMAIN delta.eng = DOMAIN acc
    OBVIOUS
<1> HIDE DEF orc, delta
<1>12. Report!OneCall(w, orc, delta) <=>
          /\ orc.n_samples = Cardinality(Report!Times(w)) /\ delta.n_samples = orc.n_samples
          /\ DOMAIN orc.orc = {cell[p] : p \in Report!Points(w)} /\ DOMAIN delta.eng = DOMAIN orc.orc
          /\ \A p \in Report!Points(w) :
                /\ orc.orc[cell[p]] = Cardinality(Report!Served(w, p))
                /\ (\A x \in DOMAIN w : p \in DOMAIN w[x].served) =>
                      delta.eng[cell[p]] =
                         Cardinality(seen[p] \cap Report!Times(w)) - Cardinality(Report!Served(w, p))
    BY ReportCardinality DEF Report!OneCall
<1>13. Report!OneCall(w, orc, delta)
    BY <1>6, <1>7, <1>8, <1>9, <1>10, <1>11, <1>12
<1> QED
    BY <1>2, <1>13 DEF w

\* What is left of a plan whose head is done, or is to be dumped.
LEMMA RestOfPlan ==
    ASSUME plan \in Seq(Words), plan # <<>>
    PROVE  /\ Tail(plan) \in Seq(Words) /\ <<"dump">> \o Tail(plan) \in Seq(Words)
           /\ \A e : e # Head(plan) /\ (\E x \in 1 .. Len(plan) : plan[x] = e) =>
                 /\ \E x \in 1 .. Len(Tail(plan)) : Tail(plan)[x] = e
                 /\ \E x \in 1 .. Len(<<"dump">> \o Tail(plan)) : (<<"dump">> \o Tail(plan))[x] = e
           /\ Tail(plan) # <<>> =>
                 /\ Tail(plan)[Len(Tail(plan))] = plan[Len(plan)]
                 /\ (<<"dump">> \o Tail(plan))[Len(<<"dump">> \o Tail(plan))] = plan[Len(plan)]
           /\ Tail(plan) = <<>> => plan[Len(plan)] = Head(plan) /\ <<"dump">> \o Tail(plan) = <<"dump">>
           /\ <<"dump">> \o Tail(plan) # <<>>
<1> DEFINE t == Tail(plan)
           d == <<"dump">> \o t
           m == Len(plan)
<1>1. m \in Nat \ {0} /\ Head(plan) = plan[1]
    BY EmptySeq, HeadTailProperties
<1>2. t \in Seq(Words) /\ Len(t) = m - 1 /\ \A x \in 1 .. m - 1 : t[x] = plan[x + 1]
    BY HeadTailProperties, LenProperties
<1>3. d \in Seq(Words) /\ Len(d) = m /\ \A x \in 2 .. m : d[x] = plan[x]
    <2>1. <<"dump">> \in Seq(Words) /\ Len(<<"dump">>) = 1
        BY DEF Words
    <2>2. d \in Seq(Words) /\ Len(d) = m
        BY <1>1, <1>2, <2>1
    <2>3. ASSUME NEW x \in 2 .. m
          PROVE  d[x] = plan[x]
        <3>1. x - 1 \in 1 .. m - 1 /\ (x - 1) + 1 = x /\ x \in 1 .. Len(<<"dump">>) + Len(t) /\ ~(x <= 1)
            BY <1>1, <1>2, <2>1
        <3>2. d[x] = t[x - 1]
            BY <1>2, <2>1, <3>1, ConcatProperties
        <3> QED
            BY <1>2, <3>1, <3>2
    <2> QED
        BY <2>2, <2>3
<1> HIDE DEF t, d, m
<1>4. t = <<>> <=> m = 1
    BY <1>1, <1>2
<1>5. t # <<>> => t[Len(t)] = plan[m] /\ d[Len(d)] = plan[m]
    BY <1>1, <1>2, <1>3, <1>4
<1>6. t = <<>> => plan[m] = Head(plan)
    BY <1>1, <1>4
<1>7. ASSUME NEW e, e # Head(plan), NEW x \in 1 .. m, plan[x] = e
      PROVE  (\E y \in 1 .. Len(t) : t[y] = e) /\ (\E y \in 1 .. Len(d) : d[y] = e)
    <2>1. x \in 2 .. m
        BY <1>1, <1>7
    <2>2. x - 1 \in 1 .. Len(t) /\ t[x - 1] = e
        BY <1>1, <1>2, <1>7, <2>1
    <2>3. x \in 1 .. Len(d) /\ d[x] = e
        BY <1>3, <1>7, <2>1
    <2> QED
        BY <2>2, <2>3
<1>8. t = <<>> => d = <<"dump">>
    BY DEF d
<1>9. d # <<>>
    BY <1>1, <1>3
<1> QED
    BY <1>2, <1>3, <1>5, <1>6, <1>7, <1>8, <1>9 DEF t, d, m

LEMMA PlanOfProgram ==
    ASSUME NEW p \in {"build", "finish"}
    PROVE  /\ Report!Plan(p) \in Seq(Words) /\ Report!Plan(p) # <<>>
           /\ Report!Plan(p)[Len(Report!Plan(p))] = "save"
           /\ \A s \in (IF p = "build" THEN Sections ELSE Figures \cup {"capacity_B"}) :
                 \E x \in 1 .. Len(Report!Plan(p)) :
                    Report!Plan(p)[x] = IF s \in Figures THEN "merge" ELSE s
<1> DEFINE long == <<"models", "save", "engine", "save", "oracle_A", "save", "merge", "save",
                     "delta_A", "save", "capacity_B", "save">>
           short == <<"merge", "capacity_B", "save">>
<1>1. /\ long \in Seq(Words) /\ Len(long) = 12 /\ long # <<>> /\ long[12] = "save"
      /\ long[1] = "models" /\ long[3] = "engine" /\ long[5] = "oracle_A" /\ long[7] = "merge"
      /\ long[9] = "delta_A" /\ long[11] = "capacity_B"
    <2>1. long \in Seq(Words)
        BY DEF Words, Sections
    <2>2. Len(long) = 12
        OBVIOUS
    <2>3. /\ long[1] = "models" /\ long[3] = "engine" /\ long[5] = "oracle_A" /\ long[7] = "merge"
          /\ long[9] = "delta_A" /\ long[11] = "capacity_B" /\ long[12] = "save"
        OBVIOUS
    <2>4. long # <<>>
        BY <2>2
    <2> QED
        BY <2>1, <2>2, <2>3, <2>4
<1>2. /\ short \in Seq(Words) /\ Len(short) = 3 /\ short # <<>> /\ short[3] = "save"
      /\ short[1] = "merge" /\ short[2] = "capacity_B"
    <2>1. short \in Seq(Words)
        BY DEF Words, Sections
    <2>2. Len(short) = 3
        OBVIOUS
    <2>3. short[1] = "merge" /\ short[2] = "capacity_B" /\ short[3] = "save"
        OBVIOUS
    <2>4. short # <<>>
        BY <2>2
    <2> QED
        BY <2>1, <2>2, <2>3, <2>4
<1>3. Report!Plan("build") = long /\ Report!Plan("finish") = short
    BY DEF Report!Plan
<1> HIDE DEF long, short
<1>4. CASE p = "build"
    <2>1. /\ 1 \in 1 .. Len(long) /\ 3 \in 1 .. Len(long) /\ 5 \in 1 .. Len(long)
          /\ 7 \in 1 .. Len(long) /\ 9 \in 1 .. Len(long) /\ 11 \in 1 .. Len(long)
        BY <1>1
    <2>2. ASSUME NEW s \in Sections
          PROVE  \E x \in 1 .. Len(long) : long[x] = IF s \in Figures THEN "merge" ELSE s
        BY <1>1, <2>1, <2>2 DEF Sections, Figures
    <2> QED
        BY <1>1, <1>3, <1>4, <2>2
<1>5. CASE p = "finish"
    <2>1. 1 \in 1 .. Len(short) /\ 2 \in 1 .. Len(short)
        BY <1>2
    <2>2. ASSUME NEW s \in Figures \cup {"capacity_B"}
          PROVE  \E x \in 1 .. Len(short) : short[x] = IF s \in Figures THEN "merge" ELSE s
        BY <1>2, <2>1, <2>2 DEF Figures
    <2> QED
        BY <1>2, <1>3, <1>5, <2>2
<1> QED
    BY <1>4, <1>5

LEMMA InputsKept ==
    ASSUME window' = window, seen' = seen, cell' = cell
    PROVE  /\ report_file' = report_file => Good(report_file)' = Good(report_file)
           /\ stats' = stats => Good(stats)' = Good(stats)
           /\ bucket' = bucket /\ acc' = acc /\ tot' = tot /\ report_by' = report_by => MergeInv' = MergeInv
<1>1. ASSUME report_file' = report_file
      PROVE  Good(report_file)' = Good(report_file)
    BY <1>1 DEF Good, Report!Mergeable, Report!Buckets, Report!OneCall, Report!Points, Report!Times,
        Report!Served
<1>2. ASSUME stats' = stats
      PROVE  Good(stats)' = Good(stats)
    BY <1>2 DEF Good, Report!Mergeable, Report!Buckets, Report!OneCall, Report!Points, Report!Times,
        Report!Served
<1>3. ASSUME bucket' = bucket, acc' = acc, tot' = tot, report_by' = report_by
      PROVE  MergeInv' = MergeInv
    BY <1>3 DEF MergeInv, Limit, SumsTo, TimesTo, PointsTo, ServedTo, SeenTo, Report!Mergeable,
        Report!Buckets, Report!Points
<1> QED
    BY <1>1, <1>2, <1>3

LEMMA InitReport == ASSUME Report!JioReportAssumption, Report!Init PROVE ReportInv
<1>1. Good(report_file) /\ Good(stats)
    BY DEF Report!Init, Good, Report!Empty
<1> QED
    BY <1>1 DEF Report!Init, ReportInv, MergeInv

LEMMA ReportStarts ==
    ASSUME Report!JioReportAssumption, ReportInv, NEW p \in {"build", "finish"}, Report!Start(p)
    PROVE  ReportInv'
<1>1. /\ report_by' = p /\ plan' = Report!Plan(p)
      /\ stats' = (IF p = "build" \/ on_disk = "absent" THEN Report!Empty ELSE report_file)
      /\ kept' = (IF on_disk = "whole" THEN DOMAIN report_file ELSE {})
      /\ bucket' = 1 /\ acc' = Report!Empty /\ tot' = 0
      /\ window' = window /\ seen' = seen /\ cell' = cell
      /\ on_disk' = on_disk /\ report_file' = report_file
      /\ p = "finish" => on_disk # "torn"
    BY DEF Report!Start, Report!inputs, Report!saved
<1>2. Good(report_file)'
    BY <1>1, InputsKept DEF ReportInv
<1>3. Good(stats)'
    <2>1. CASE p = "build" \/ on_disk = "absent"
        <3>1. DOMAIN stats' = {}
            BY <1>1, <2>1 DEF Report!Empty
        <3> QED
            BY <3>1 DEF Good
    <2>2. CASE ~(p = "build" \/ on_disk = "absent")
        <3>1. stats' = report_file'
            BY <1>1, <2>2
        <3> QED
            BY <1>2, <3>1 DEF Good
    <2> QED
        BY <2>1, <2>2
<1>4. MergeInv'
    <2>1. (Limit(report_by))' = Limit(p) /\ Limit(p) \in Nat
        <3>1. Limit(p) \in Nat
            BY FirstBuckets DEF ReportInv
        <3> QED
            BY <1>1, <3>1 DEF Limit, Report!Buckets
    <2>2. (SumsTo(bucket - 1))'
        <3>1. bucket' - 1 = 0 /\ 1 .. 0 = {}
            BY <1>1
        <3>2. (TimesTo(bucket - 1))' = {} /\ (PointsTo(bucket - 1))' = {}
            BY <3>1 DEF TimesTo, PointsTo
        <3>3. DOMAIN acc' = {}
            BY <1>1 DEF Report!Empty
        <3> QED
            BY <1>1, <3>2, <3>3, FS_EmptySet DEF SumsTo
    <2> QED
        BY <1>1, <2>1, <2>2 DEF MergeInv
<1>5. PlanInv'
    <2>1. kept' \subseteq Sections
        BY <1>1 DEF ReportInv, Good
    <2>2. p = "finish" => kept' \subseteq DOMAIN stats'
        BY <1>1
    <2>3. /\ plan' \in Seq(Words) /\ plan' # <<>> /\ plan'[Len(plan')] = "save"
          /\ \A s \in (IF p = "build" THEN Sections ELSE Figures \cup {"capacity_B"}) :
                \E x \in 1 .. Len(plan') : plan'[x] = IF s \in Figures THEN "merge" ELSE s
        BY <1>1, PlanOfProgram
    <2>4. \A s \in (Due(report_by))' : s \in DOMAIN stats' \/ (Comes(s))'
        BY <1>1, <2>2, <2>3 DEF Due, Comes
    <2> QED
        BY <2>1, <2>3, <2>4 DEF PlanInv
<1> QED
    BY <1>1, <1>2, <1>3, <1>4, <1>5 DEF ReportInv

\* A section that is written leaves a plan that still ends with a save.
LEMMA HeadDone ==
    ASSUME PlanInv, plan # <<>>, Head(plan) \notin {"save", "dump"}, plan' = Tail(plan),
           kept' = kept, report_by' = report_by,
           DOMAIN stats' = DOMAIN stats \cup (IF Head(plan) = "merge" THEN Figures ELSE {Head(plan)})
    PROVE  PlanInv'
<1>1. plan \in Seq(Words) /\ plan[Len(plan)] = "save"
    <2>1. plan # <<"dump">>
        OBVIOUS
    <2> QED
        BY <2>1 DEF PlanInv
<1>2. plan' # <<>> /\ plan' \in Seq(Words) /\ plan'[Len(plan')] = "save"
    BY <1>1, RestOfPlan
<1>3. (Due(report_by))' = Due(report_by) /\ Due(report_by) \subseteq Sections
    BY DEF Due, PlanInv, Sections, Figures
<1>4. ASSUME NEW s \in Due(report_by), Comes(s)
      PROVE  s \in DOMAIN stats' \/ (Comes(s))'
    <2> DEFINE e == IF s \in Figures THEN "merge" ELSE s
    <2>1. \E x \in 1 .. Len(plan) : plan[x] = e
        BY <1>4 DEF Comes
    <2>2. CASE e = Head(plan)
        <3>1. s # "merge"
            BY <1>3 DEF Sections
        <3> QED
            BY <2>2, <3>1
    <2>3. CASE e # Head(plan)
        <3>1. \E x \in 1 .. Len(Tail(plan)) : Tail(plan)[x] = e
            BY <1>1, <2>1, <2>3, RestOfPlan
        <3> QED
            BY <3>1 DEF Comes
    <2> QED
        BY <2>2, <2>3
<1>5. \A s \in Due(report_by) : s \in DOMAIN stats \/ Comes(s)
    BY DEF PlanInv
<1>6. kept' \subseteq Sections
    BY DEF PlanInv
<1> QED
    BY <1>2, <1>3, <1>4, <1>5, <1>6 DEF PlanInv

LEMMA SectionWritten ==
    ASSUME ReportInv, NEW s \in {"models", "engine", "oracle_A", "delta_A", "capacity_B"}, Report!Section(s)
    PROVE  ReportInv'
<1>1. /\ report_by \in {"build", "finish"} /\ plan # <<>> /\ Head(plan) = s
      /\ stats' = [k1 \in DOMAIN stats \cup {s} |-> IF k1 = s THEN TRUE ELSE stats[k1]]
      /\ plan' = Tail(plan) /\ report_by' = report_by /\ kept' = kept
      /\ window' = window /\ seen' = seen /\ cell' = cell
      /\ on_disk' = on_disk /\ report_file' = report_file
      /\ bucket' = bucket /\ acc' = acc /\ tot' = tot
    BY DEF Report!Section, Report!Running, Report!inputs, Report!saved, Report!merge
<1>2. Good(report_file)' /\ MergeInv'
    BY <1>1, InputsKept DEF ReportInv
<1>3. /\ DOMAIN stats' = DOMAIN stats \cup {s} /\ s \notin Figures /\ s \in Sections
      /\ \A f \in Figures : (f \in DOMAIN stats' <=> f \in DOMAIN stats)
      /\ \A f \in Figures : f \in DOMAIN stats => stats'[f] = stats[f]
    BY <1>1 DEF Figures, Sections
<1>4. Good(stats)'
    <2>1. Report!Mergeable(window)' <=> Report!Mergeable(window)
        BY <1>1 DEF Report!Mergeable, Report!Points
    <2>2. \A p, a, b : Report!OneCall(Report!Buckets(window, p), a, b)' <=>
                       Report!OneCall(Report!Buckets(window, p), a, b)
        BY <1>1 DEF Report!OneCall, Report!Buckets, Report!Points, Report!Times, Report!Served
    <2>3. "oracle_B" \in DOMAIN stats =>
             stats'["oracle_B"] = stats["oracle_B"] /\ stats'["delta_B"] = stats["delta_B"]
        BY <1>3 DEF ReportInv, Good, Figures
    <2>4. DOMAIN stats' \subseteq Sections /\ ("oracle_B" \in DOMAIN stats' <=> "delta_B" \in DOMAIN stats')
        BY <1>3 DEF ReportInv, Good, Figures
    <2>5. ASSUME "oracle_B" \in DOMAIN stats', Report!Mergeable(window)'
          PROVE  \E p \in {"build", "finish"} :
                    Report!OneCall(Report!Buckets(window, p), stats["oracle_B"], stats["delta_B"])'
        <3>1. "oracle_B" \in DOMAIN stats /\ Report!Mergeable(window)
            BY <1>3, <2>1, <2>5 DEF Figures
        <3>2. PICK p \in {"build", "finish"} :
                 Report!OneCall(Report!Buckets(window, p), stats["oracle_B"], stats["delta_B"])
            BY <3>1 DEF ReportInv, Good
        <3>3. PICK a, b : a = stats["oracle_B"] /\ b = stats["delta_B"]
            OBVIOUS
        <3>4. Report!OneCall(Report!Buckets(window, p), a, b)'
            BY <2>2, <3>2, <3>3
        <3>5. a = stats'["oracle_B"] /\ b = stats'["delta_B"]
            BY <2>3, <3>1, <3>3
        <3> QED
            BY <3>4, <3>5
    <2> QED
        BY <2>4, <2>5 DEF Good
<1>5. PlanInv'
    <2>1. PlanInv /\ s \notin {"save", "dump", "merge"}
        BY <1>1 DEF ReportInv
    <2> QED
        BY <1>1, <1>3, <2>1, HeadDone
<1> QED
    BY <1>1, <1>2, <1>4, <1>5 DEF ReportInv

LEMMA MergeIsDone ==
    ASSUME Report!JioReportAssumption, ReportInv, Report!MergeEnds
    PROVE  ReportInv'
<1>1. /\ report_by \in {"build", "finish"} /\ plan # <<>> /\ Head(plan) = "merge"
      /\ DOMAIN stats' = DOMAIN stats \cup Figures
      /\ plan' = Tail(plan) /\ report_by' = report_by /\ kept' = kept
      /\ window' = window /\ seen' = seen /\ cell' = cell
      /\ on_disk' = on_disk /\ report_file' = report_file
      /\ bucket' = bucket /\ acc' = acc /\ tot' = tot
    BY DEF Report!MergeEnds, Report!Merging, Report!Running, Report!inputs, Report!saved, Report!merge,
        Figures
<1>2. Good(report_file)' /\ MergeInv'
    BY <1>1, InputsKept DEF ReportInv
<1>3. Good(stats)'
    <2>1. /\ Report!Mergeable(window)' <=> Report!Mergeable(window)
          /\ \A p, a, b : Report!OneCall(Report!Buckets(window, p), a, b)' <=>
                          Report!OneCall(Report!Buckets(window, p), a, b)
        <3>1. Report!Mergeable(window)' <=> Report!Mergeable(window)
            BY <1>1 DEF Report!Mergeable, Report!Points
        <3>2. \A p, a, b : Report!OneCall(Report!Buckets(window, p), a, b)' <=>
                           Report!OneCall(Report!Buckets(window, p), a, b)
            BY <1>1 DEF Report!OneCall, Report!Buckets, Report!Points, Report!Times, Report!Served
        <3> QED
            BY <3>1, <3>2
    <2>2. DOMAIN stats' \subseteq Sections /\ ("oracle_B" \in DOMAIN stats' <=> "delta_B" \in DOMAIN stats')
        BY <1>1 DEF ReportInv, Good, Figures, Sections
    <2>3. ASSUME Report!Mergeable(window)'
          PROVE  \E p \in {"build", "finish"} :
                    Report!OneCall(Report!Buckets(window, p), stats["oracle_B"], stats["delta_B"])'
        <3>1. PICK p, a, b : p = report_by /\ a = stats'["oracle_B"] /\ b = stats'["delta_B"]
            OBVIOUS
        <3>2. Report!OneCall(Report!Buckets(window, report_by), stats'["oracle_B"], stats'["delta_B"])
            BY <1>1, <2>1, <2>3, FiguresFollow DEF ReportInv
        <3>3. Report!OneCall(Report!Buckets(window, p), a, b)
            BY <3>1, <3>2
        <3>4. Report!OneCall(Report!Buckets(window, p), a, b)'
            BY <2>1, <3>3
        <3> QED
            BY <1>1, <3>1, <3>4
    <2> QED
        BY <2>2, <2>3 DEF Good
<1>4. PlanInv'
    <2>1. PlanInv
        BY <1>1 DEF ReportInv
    <2> QED
        BY <1>1, <2>1, HeadDone
<1> QED
    BY <1>1, <1>2, <1>3, <1>4 DEF ReportInv

LEMMA FileOpened ==
    ASSUME ReportInv, Report!Open
    PROVE  ReportInv'
<1>1. /\ report_by \in {"build", "finish"} /\ plan # <<>> /\ Head(plan) = "save"
      /\ report_file' = Report!Empty /\ plan' = <<"dump">> \o Tail(plan)
      /\ stats' = stats /\ report_by' = report_by /\ kept' = kept
      /\ window' = window /\ seen' = seen /\ cell' = cell
      /\ bucket' = bucket /\ acc' = acc /\ tot' = tot
    BY DEF Report!Open, Report!Running, Report!inputs, Report!merge
<1>2. Good(stats)' /\ MergeInv'
    BY <1>1, InputsKept DEF ReportInv
<1>3. Good(report_file)'
    <2>1. DOMAIN report_file' = {}
        BY <1>1 DEF Report!Empty
    <2> QED
        BY <2>1 DEF Good
<1>4. PlanInv'
    <2>1. PlanInv
        BY <1>1 DEF ReportInv
    <2>2. plan \in Seq(Words) /\ plan[Len(plan)] = "save" /\ kept \subseteq Sections
        <3>1. plan # <<"dump">>
            BY <1>1
        <3> QED
            BY <1>1, <2>1, <3>1 DEF PlanInv
    <2>3. /\ plan' \in Seq(Words) /\ plan' # <<>>
          /\ plan'[Len(plan')] = "save" \/ plan' = <<"dump">>
        BY <1>1, <2>2, RestOfPlan
    <2>4. (Due(report_by))' = Due(report_by) /\ "save" \notin Due(report_by)
        BY <1>1, <2>2 DEF Due, Sections, Figures
    <2>5. \A s \in Due(report_by) : Comes(s) => (Comes(s))'
        <3> TAKE s \in Due(report_by)
        <3> DEFINE e == IF s \in Figures THEN "merge" ELSE s
        <3>1. e # "save"
            BY <2>4
        <3>2. (\E x \in 1 .. Len(plan) : plan[x] = e) => \E x \in 1 .. Len(plan') : plan'[x] = e
            BY <1>1, <2>2, <3>1, RestOfPlan
        <3> QED
            BY <3>2 DEF Comes
    <2> QED
        BY <1>1, <2>1, <2>2, <2>3, <2>4, <2>5 DEF PlanInv
<1> QED
    BY <1>1, <1>2, <1>3, <1>4 DEF ReportInv

LEMMA FileDumped ==
    ASSUME ReportInv, Report!Dump
    PROVE  ReportInv'
<1>1. /\ report_by \in {"build", "finish"} /\ plan # <<>> /\ Head(plan) = "dump"
      /\ on_disk' = "whole" /\ report_file' = stats /\ plan' = Tail(plan)
      /\ stats' = stats /\ report_by' = report_by /\ kept' = kept
      /\ window' = window /\ seen' = seen /\ cell' = cell
      /\ bucket' = bucket /\ acc' = acc /\ tot' = tot
    BY DEF Report!Dump, Report!Running, Report!inputs, Report!merge
<1>2. Good(stats)' /\ MergeInv'
    BY <1>1, InputsKept DEF ReportInv
<1>3. Good(report_file)'
    <2>1. report_file' = stats'
        BY <1>1
    <2> QED
        BY <1>2, <2>1 DEF Good
<1>4. PlanInv'
    <2>1. PlanInv
        BY <1>1 DEF ReportInv
    <2>2. plan \in Seq(Words) /\ kept \subseteq Sections
        BY <2>1 DEF PlanInv
    <2>3. plan' \in Seq(Words) /\ (plan' = <<>> => on_disk' = "whole" /\ report_file' = stats')
        BY <1>1, <2>2, RestOfPlan
    <2>4. plan' # <<>> => plan'[Len(plan')] = "save"
        <3>1. ASSUME plan' # <<>>
              PROVE  plan # <<"dump">>
            <4>1. Tail(<<"dump">>) = <<>>
                OBVIOUS
            <4> QED
                BY <1>1, <3>1, <4>1
        <3>2. plan' # <<>> => plan[Len(plan)] = "save"
            BY <1>1, <2>1, <3>1 DEF PlanInv
        <3> QED
            BY <1>1, <2>2, <3>2, RestOfPlan
    <2>5. (Due(report_by))' = Due(report_by) /\ "dump" \notin Due(report_by)
        BY <1>1, <2>2 DEF Due, Sections, Figures
    <2>6. \A s \in Due(report_by) : Comes(s) => (Comes(s))'
        <3> TAKE s \in Due(report_by)
        <3> DEFINE e == IF s \in Figures THEN "merge" ELSE s
        <3>1. e # "dump"
            BY <2>5
        <3>2. (\E x \in 1 .. Len(plan) : plan[x] = e) => \E x \in 1 .. Len(plan') : plan'[x] = e
            BY <1>1, <2>2, <3>1, RestOfPlan
        <3> QED
            BY <3>2 DEF Comes
    <2> QED
        BY <1>1, <2>1, <2>2, <2>3, <2>4, <2>5, <2>6 DEF PlanInv
<1> QED
    BY <1>1, <1>2, <1>3, <1>4 DEF ReportInv

LEMMA StepReport ==
    ASSUME Report!JioReportAssumption, ReportInv, [Report!Next]_Report!vars
    PROVE  ReportInv'
<1>1. ASSUME NEW p \in {"build", "finish"}, Report!Start(p)
      PROVE  ReportInv'
    BY <1>1, ReportStarts
<1>2. ASSUME NEW s \in {"models", "engine", "oracle_A", "delta_A", "capacity_B"}, Report!Section(s)
      PROVE  ReportInv'
    BY <1>2, SectionWritten
<1>3. CASE Report!MergeBucket
    <2>1. /\ report_by \in {"build", "finish"} /\ report_by' = report_by
          /\ window' = window /\ seen' = seen /\ cell' = cell
          /\ on_disk' = on_disk /\ report_file' = report_file
          /\ plan' = plan /\ stats' = stats /\ kept' = kept
        BY <1>3 DEF Report!MergeBucket, Report!Merging, Report!Running, Report!inputs, Report!saved
    <2>2. Good(report_file)' /\ Good(stats)'
        BY <2>1, InputsKept DEF ReportInv
    <2>3. PlanInv' = PlanInv
        BY <2>1 DEF PlanInv, Due, Comes
    <2>4. MergeInv'
        BY <1>3, BucketMerged DEF ReportInv
    <2> QED
        BY <2>1, <2>2, <2>3, <2>4 DEF ReportInv
<1>4. CASE Report!MergeEnds
    BY <1>4, MergeIsDone
<1>5. CASE Report!Open
    BY <1>5, FileOpened
<1>6. CASE Report!Dump
    BY <1>6, FileDumped
<1>7. CASE Report!Dies \/ Report!Ends
    <2>1. /\ report_by \in {"build", "finish"} /\ report_by' \in {"dead", "done"}
          /\ report_by' = "done" => plan = <<>>
          /\ window' = window /\ seen' = seen /\ cell' = cell
          /\ on_disk' = on_disk /\ report_file' = report_file /\ stats' = stats /\ kept' = kept
        BY <1>7 DEF Report!Dies, Report!Ends, Report!Running, Report!inputs, Report!saved
    <2>2. Good(report_file)' /\ Good(stats)'
        BY <2>1, InputsKept DEF ReportInv
    <2>3. ASSUME plan = <<>>
          PROVE  on_disk = "whole" /\ kept \cup Figures \cup {"capacity_B"} \subseteq DOMAIN report_file
        <3>1. on_disk = "whole" /\ report_file = stats /\ kept \subseteq Sections
            BY <2>1, <2>3 DEF ReportInv, PlanInv
        <3>2. \A s : ~Comes(s)
            BY <2>3 DEF Comes
        <3>3. Due(report_by) \subseteq DOMAIN stats
            BY <2>1, <3>2 DEF ReportInv, PlanInv
        <3>4. kept \cup Figures \cup {"capacity_B"} \subseteq Due(report_by)
            BY <3>1 DEF Due, Sections, Figures
        <3> QED
            BY <3>1, <3>3, <3>4
    <2>4. MergeInv'
        BY <2>1 DEF MergeInv
    <2> QED
        BY <2>1, <2>2, <2>3, <2>4 DEF ReportInv
<1>8. CASE UNCHANGED Report!vars
    <2>1. /\ window' = window /\ seen' = seen /\ cell' = cell /\ report_by' = report_by
          /\ on_disk' = on_disk /\ report_file' = report_file
          /\ plan' = plan /\ stats' = stats /\ kept' = kept
          /\ bucket' = bucket /\ acc' = acc /\ tot' = tot
        BY <1>8 DEF Report!vars, Report!inputs, Report!saved, Report!merge
    <2>2. Good(report_file)' /\ Good(stats)' /\ MergeInv'
        BY <2>1, InputsKept DEF ReportInv
    <2>3. PlanInv' = PlanInv
        BY <2>1 DEF PlanInv, Due, Comes
    <2> QED
        BY <2>1, <2>2, <2>3 DEF ReportInv
<1> QED
    BY <1>1, <1>2, <1>3, <1>4, <1>5, <1>6, <1>7, <1>8 DEF Report!Next, Report!Stop

\* What the report promises (JioReport): whatever died on the way, a report that
\* can be read has both figures of the window or neither, and where the buckets
\* do not meet and no cell has two points they are those of one call over the
\* window; a program that ends leaves all sections it found.
THEOREM ReportCorrect ==
    ASSUME Report!JioReportAssumption
    PROVE  Report!Spec => []ReportIsOfOneWindow
<1>1. Report!Init => ReportInv
    BY InitReport
<1>2. ReportInv /\ [Report!Next]_Report!vars => ReportInv'
    BY StepReport
<1>3. ReportInv => ReportIsOfOneWindow
    BY DEF ReportInv, Good, Figures, ReportIsOfOneWindow, Report!ReportIsOfOneWindow
<1> QED
    BY <1>1, <1>2, <1>3, PTL DEF Report!Spec
=============================================================================
