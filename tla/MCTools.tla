--------------------------------- MODULE MCTools ---------------------------------
(***************************************************************************)
(* The programs that work on files and streams outside a kernel.  They     *)
(* share nothing, so a behaviour is one of one program: the dump of a live *)
(* store (StoreDump), the weather mirror, the Listen sampler, the two that *)
(* merge an archive into a report, or the script that writes the scenario  *)
(* of that report (JioScenario).                                           *)
(***************************************************************************)
EXTENDS JioScenario

CONSTANTS
    Rows, Contains, MaxDumps, None, Torn,
    f000, f003, Paths, Wildcard, Length, MaxByte,
    Window, DumpTimeout, Slack, MaxChunk, MaxSent,
    Windows, Engines, CellMaps, N_ARCHIVE_BUCKETS, N_BUCKETS, MaxStarts

VARIABLES
    program,
    store, dump_pc, dump, type, by_kind, open, groups, files, manifest, read,
    has_wildcard, idx, grib, withdrawn, unsettled, held, request, fixture, reply,
    sample, now, dump_n, dump_done_at, live_n, last_live, sent, ended,
    window, seen, cell, on_disk, report_file, report_by, plan, stats, bucket, acc, tot, starts, kept

Dumper == INSTANCE StoreDump WITH pc <- dump_pc
Mirror == INSTANCE GfsMirror
Sampler == INSTANCE QuantumSampler WITH pc <- sample
Report == INSTANCE JioReport WITH file <- report_file, program <- report_by

ASSUME ToolsAssumption ==
    /\ JioAssumption /\ Dumper!StoreDumpAssumption /\ Mirror!GfsMirrorAssumption
    /\ Sampler!QuantumSamplerAssumption /\ Report!JioReportAssumption

\* An entity without a kind, one of another kind, two rows in a third group, and
\* a relationship.
Row(id, t, kd) == [id |-> id, type |-> t, kind |-> kd]
MCRows == {Row(1, 2, 0), Row(2, 2, 1), Row(3, 2, 1), Row(4, 3, 1)}

\* Two cycles and a wildcard pair of another size.
MCPaths == {f000, f003}
MCLength == [p \in MCPaths \cup {Wildcard} |-> IF p = Wildcard THEN 3 ELSE 2]

\* Archives of up to three buckets: some meet at an instant, one has no points,
\* one point is not in all of them; two points in one cell or in two.
Bucket(times, served) == [times |-> times, served |-> served]
MCBuckets ==
    {Bucket({1, 2}, [p \in {1, 2} |-> {p}]), Bucket({3}, [p \in {1} |-> {3}]),
     Bucket({2, 3}, [p \in {2} |-> {}]), Bucket({4}, [p \in {} |-> {}]),
     Bucket({4, 5, 6}, [p \in {1, 2} |-> IF p = 1 THEN {4, 5} ELSE {}])}
MCWindows == UNION {[1 .. n -> MCBuckets] : n \in 0 .. 3}
MCEngines == [{1, 2} -> {{}, {1, 3, 6}}]
MCCellMaps == {[p \in {1, 2} |-> p], [p \in {1, 2} |-> 1]}

-----------------------------------------------------------------------------
MCInit ==
    /\ program \in {"scenario", "dump", "mirror", "sampler", "report"}
    /\ Init /\ Dumper!Init /\ (program # "dump" => store = {})
    /\ Mirror!Init /\ (program # "mirror" => ~has_wildcard)
    /\ Sampler!Init /\ Report!Init
    /\ program # "report" => DOMAIN window = {} /\ (\A p \in {1, 2} : seen[p] = {} /\ cell[p] = 1)

dumper == <<store, dump_pc, dump, type, by_kind, open, groups, files, manifest, read>>
mirror == <<has_wildcard, idx, grib, withdrawn, unsettled, held, request, fixture, reply>>
sampler == <<sample, now, dump_n, dump_done_at, live_n, last_live, sent, ended>>
report == <<window, seen, cell, on_disk, report_file, report_by, plan, stats, bucket, acc, tot, starts, kept>>
MCvars == <<program, vars, dumper, mirror, sampler, report>>

ScenarioStep == program = "scenario" /\ Next /\ UNCHANGED <<program, dumper, mirror, sampler, report>>
DumpStep == program = "dump" /\ Dumper!Next /\ UNCHANGED <<program, vars, mirror, sampler, report>>
MirrorStep == program = "mirror" /\ Mirror!Next /\ UNCHANGED <<program, vars, dumper, sampler, report>>
SamplerStep(A) == program = "sampler" /\ A /\ UNCHANGED <<program, vars, dumper, mirror, report>>
ReportStep == program = "report" /\ Report!Next /\ UNCHANGED <<program, vars, dumper, mirror, sampler>>

MCNext == ScenarioStep \/ DumpStep \/ MirrorStep \/ SamplerStep(Sampler!Next) \/ ReportStep

\* The fairness of the sampler (QuantumSampler); the others need none.
MCSpec ==
    /\ MCInit /\ [][MCNext]_MCvars
    /\ WF_MCvars(SamplerStep(Sampler!Tick))
    /\ WF_MCvars(SamplerStep(Sampler!DeadlineExceeded))

-----------------------------------------------------------------------------
(***************************************************************************)
(* The properties are those of the modules, stated there.                  *)
(***************************************************************************)
\* StoreDump: a dump with a manifest is whole.
DumpIsWhole == Dumper!DumpIsWhole

\* GfsMirror: bytes are those asked for, of the pair of the inventory unless a cycle
\* is published beside the wildcard pair meanwhile.
OffsetsMatchGrib == Mirror!OffsetsMatchGrib

\* GfsMirror: bytes are always of the pair of the inventory.
OffsetsAlwaysMatch == Mirror!OffsetsAlwaysMatch

\* QuantumSampler: what a sample reports is what the stream did.
SampleIsOfTheStream == Sampler!SampleIsOfTheStream

\* JioReport: both figures of the window, of the same buckets, as of one call.
ReportIsOfOneWindow == Report!ReportIsOfOneWindow

\* QuantumSampler: every sample ends.
SampleEnds == program = "sampler" => Sampler!SampleEnds
=============================================================================
