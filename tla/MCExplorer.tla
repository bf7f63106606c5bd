------------------------------- MODULE MCExplorer -------------------------------
(***************************************************************************)
(* The notebook explorers: the run history of a page (ExplorerRuns), a     *)
(* session with its instances (ExplorerSession), and the oracle's segments *)
(* read back (OracleCoverage).  A behaviour is one of one of them.         *)
(***************************************************************************)
EXTENDS ExplorerRuns, FiniteSets

CONSTANTS
    Instances, Protected, Predictors, WalkerShapes, Part, Epochs, PROVISION_EPOCH_S, Dump, None,
    Segments, KValues, ValueError, p1, p2, s1, s2

VARIABLES
    shows,
    model, candidates, pulled, ref_epoch_s, ui, session_pc, elems, ref, pair, panel, written, touched,
    entities, todo, points, time_grid, result

\* The model of the dump directory.
DumpedModel == [shape |-> CHOOSE s \in WalkerShapes : TRUE, epoch |-> 1]

\* Segments of two buckets that meet at sample 2, of two satellites with two
\* antennas, for two points; rows of two platforms, an id that does not parse, a
\* segment without samples.
Acc(seq) == [j \in 0 .. Cardinality(DOMAIN seq) - 1 |-> seq[j + 1]]

Seg(p, s, start, plats, acc, by_rows) ==
    [parsed |-> TRUE, point |-> p, sat |-> s, start |-> start, step |-> 1,
     platforms |-> plats, acc |-> Acc(acc), rows |-> by_rows]

MCSegments ==
    {Seg(p1, s1, 0, 1, <<TRUE, FALSE, TRUE>>, FALSE),
     Seg(p1, s1, 0, 0, <<TRUE, TRUE, FALSE>>, FALSE),
     Seg(p1, s1, 2, 1, <<TRUE, FALSE>>, FALSE),
     Seg(p1, s2, 0, 2, <<FALSE, FALSE, TRUE, TRUE, FALSE, FALSE>>, TRUE),
     Seg(p2, s2, 0, 1, <<TRUE, TRUE, TRUE>>, FALSE),
     Seg(p2, s1, 2, 2, <<TRUE, FALSE, TRUE>>, FALSE),
     Seg(p2, s1, 3, 1, <<>>, FALSE),
     [Seg(p2, s1, 4, 1, <<TRUE>>, FALSE) EXCEPT !.parsed = FALSE]}

Session == INSTANCE ExplorerSession WITH pc <- session_pc
Oracle == INSTANCE OracleCoverage

ASSUME ExplorerAssumption ==
    /\ ExplorerRunsAssumption /\ Session!ExplorerSessionAssumption
    /\ Oracle!OracleCoverageAssumption /\ Oracle!LayoutIsClear

-----------------------------------------------------------------------------
\* Who does not take part in a behaviour has one of its initial states.
MCInit ==
    /\ shows \in {"session", "runs", "oracle"}
    /\ Init /\ Session!Init /\ Oracle!Init
    /\ shows # "session" => model = [i \in Instances |-> None]
    /\ shows # "oracle" => entities = {}

session ==
    <<model, candidates, pulled, ref_epoch_s, ui, session_pc, elems, ref, pair, panel, written, touched>>
readback == <<entities, todo, points, time_grid, result>>
MCvars == <<shows, vars, session, readback>>

SessionStep == shows = "session" /\ Session!Next /\ UNCHANGED <<shows, vars, readback>>
RunsStep == shows = "runs" /\ Next /\ UNCHANGED <<shows, session, readback>>
OracleStep == shows = "oracle" /\ Oracle!Next /\ UNCHANGED <<shows, vars, session>>

MCSpec == MCInit /\ [][SessionStep \/ RunsStep \/ OracleStep]_MCvars

-----------------------------------------------------------------------------
(***************************************************************************)
(* The properties are those of the three modules, stated there.            *)
(***************************************************************************)
\* ExplorerSession: a cached pull is what its instance serves.
CacheIsTheInstance == Session!CacheIsTheInstance

\* ExplorerSession: provisioning changes the place of a constellation, not what it is.
ProvisionKeepsConstellation == Session!ProvisionKeepsConstellation

\* ExplorerSession: the Delta tab compares the two sides of its own run.
DeltaOfThisRun == Session!DeltaOfThisRun

\* OracleCoverage: the counts are those of the union of the segments.
ResultIsUnion == Oracle!ResultIsUnion
=============================================================================
