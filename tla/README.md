# spacetime-sls in TLA+

A TLA+ development kept beside `spacetime-sls`, a planning tool for NGSO
satellite constellations: it answers *which ground cells does a constellation
serve, how much of the time, and without interruption?*, and it pushes the
model of a constellation to a Spacetime instance and reads the instance's own
answer back. The modules model the code under `src/ngso_sls`, programs of
`src/tools` and the scenario script of `src/scenarios`; TLC checks them on small instances and TLAPS proves the central
results for every instance.
`PROJECT.json` lists components, runs, theorems, mutants, hazards and the
source lines each definition stands for.

## 1. The system

| Component (source) | State it keeps | Operations | Talks to |
|---|---|---|---|
| **Coverage kernel** (`pipeline.py`, `grids/shards.py`, `coverage/prefilter.py`, `coverage/availability.py`) | accumulators per cell (`serviceable`, `sat_sum`, verdict arrays), the process global `_SHARD_CTX` | `run_coverage_h3_elements` (shards, chunks, pool of forked workers), `run_coverage_h3`, `run_coverage` | continuity; sweep and explorer call it |
| **Make-before-break continuity** (`coverage/continuity.py`) | `best` / `hops` arrays of one relaxation | `intervals_from_inview`, `mbb_continuity_cell`, `mbb_continuity_cell_req`, `continuity_map` | called per shard by the kernel and per cell by the oracle |
| **Model generation and push** (`spacetime/modelgen.py`) | the generated rows; while pushing: types wiped, batch, attempt, `total` | `build_model`, `push_model` | Store of an instance (external); explorer calls it |
| **Ephemeral writer** (`spacetime/writer.py`, loaded by a cell of `tools/build_nb08.py`) | target of a writer; the rows of the instance | constructor guard, `write_constellation`, `delete_ids`, the cell that loads an instance | Store |
| **Explorer: sources and live engine** (`explorer.py`) | widgets, cached pull, `ref_epoch`, last runs | `_pull`, `_provision`, `elements`, `compute` | pull, push, oracle, kernel |
| **Explorer: runs, tabs and files** (`explorer.py`) | `_run_count`, tabs, per-run CSV files, worst-cell state | `run`, `_append_run_panel`, `_close_run` | kernel, file system, widgets |
| **Oracle** (`spacetime/oracle.py`) | none | aggregation of the instance's beam candidates into a coverage result | Store clients, continuity |
| **Store clients** (`spacetime/client.py`, `store.py`, `memory_store.py`, `_access.py`) | channel, key file on disk | list/read rows, close | Store |
| **Pull and recording** (`pull.py`, `nmts_adapter.py`, `recording.py`) | files of recorded rows | pull a constellation, record, replay | Store clients |
| **Sweeps** (`sweep.py`) | none | enumerate sizes, grade, smallest passing | kernel |
| **Constellation** (`constellation/*.py`, `config.py`, `presets.py`) | immutable | Walker, planes and slots generators, `constellation_model`, `concat` | everyone |
| **Jio scenario** (`scenarios/pybuilder-jio/jio_min_scenario.py`) | the fragments built so far | `build_scenario`, `build_provisioning` | the scenario builder (external) |
| **Report builders** (`tools/build_jio_sample_report_data.py`, `tools/finish_jio_report_data.py`) | `jio_report_stats.json` on disk, sums per cell | sections, merge by bucket, `save_stats` | oracle, kernel, each other through the file |
| **Model transform** (`tools/transform_fss01_model.py`) | the rows built | clones a dumped template for a Walker shape | dump, Store |
| **Tools** (`tools/gfs-wildcard-mirror`, `tools/quantum_sampler.py`, `tools/dump_live_store.py`) | files, a stream | serve weather files, sample a stream, dump a store | file system, Store |
| **Optional dependencies and probe** (`spacetime/_deps.py`, `probe.py`) | the module globals of `_deps`, `_FLAGS`, flags imported by value | `_probe`, `reprobe`, `require`, `probe_endpoint`, `probe_store` | the Python path, Store clients |
| **Crossing refinement** (`coverage/refine.py`) | one bracket | `n_bisect_iters`, `refine_crossing_s` | routes and terrain notebooks |
| **Geometry, propagation, terrain, plots** | none | real arithmetic, rendering | kernel, notebooks |

What is hard in it, and what makes each part correct:

- **Continuity** is an algorithm with an optimality claim: one forward pass
  over intervals sorted by their end finds the best bottleneck. It is correct
  when *feasible* means that a chain of satellites really serves the cell
  from the first sample to the last, when the reported overlap is the best one
  any chain can guarantee, and when the reported number of handovers belongs
  to *that* chain. Two arrays have to be kept in step for the last point.
- **The kernel** computes one thing in many ways. Division into shards,
  pre-filtering, renumbering of satellites, chunks, workers finishing in any
  order, empty shards and failing tasks may not show in the report: it is the
  monolithic report or an exception. Nothing may use `_SHARD_CTX` after it is
  reset, and the run has to end.
- **The push** talks to a Store by calls that fail before or after they took
  effect, while the instance derives rows from what is being wiped. After a
  push that returns, the instance should serve exactly that model; and the
  protected instance must never change.
- **The explorer** has callbacks around cached state: a pull, a target, a
  shape, an epoch, each changed by its own widget. Results that are compared
  must be results for the same thing.
- **Tools and files** deal with other processes' files while they change, and
  with streams that go quiet. The report is made by a program that may be
  killed and another that goes on from its file; the figures both merge out of
  buckets must be those of one window.
- **Loading an instance** is one call per row, repeated by the user after a
  failure: what is loaded should be one load, and a repeated load succeed.
- **A client's key** lies in a file that close, `__del__`, a failing constructor
  and the exit handler may all remove, while the name may be given out again.
- **Constellations** are written down in several places that must agree: the
  generators, two scripts and the generated model; and the scenario script
  numbers everything from literal bases.

`PROJECT.json` lists the individual hazards at their lines.

## 2. Modules

| Module | Models |
|---|---|
| `Intervals` | runs of one visibility matrix, handover rules, verdict shape (pure) |
| `Continuity` | `mbb_continuity_cell_req`, one step per iteration; its properties and inductive invariant |
| `CellVerdict` | the same verdict as a function: the arrays after `n` iterations of the outer loop |
| `ContinuityMap` | the older `mbb_continuity_cell` and both forms of `continuity_map` (pure) |
| `CoverageReport` | what a run reports about a cell, from its visibility matrix |
| `Coverage` | abstract: a run returns the report of all cells in one step, or raises |
| `ShardedCoverage` | detailed: shards, pre-filter, chunks, workers, failures; implements `Coverage` |
| `Refine` | the bisection of `refine_crossing_s` |
| `ConstellationConcat` | the renumbering of planes in `ConstellationModel.concat` |
| `Sweep` | `min_sat_sweep`, `inclination_sweep`, `multi_shape_sweep` and the button that starts them |
| `StorePush` | `push_model`, the writer's guard, the Store and the rows the instance derives |
| `ModelGen` | `build_model`: the rows a constellation, its sites and demands become |
| `NmtsAdapter` | `platforms_to_elements` and the accessors for messages and dictionaries (pure) |
| `Recording` | `record` over a store that changes, and its replay |
| `ExplorerSession` | `ConstellationSource` and `LiveCoverageExplorer` on instances others write to |
| `ExplorerRuns` | runs, tabs and files of `CoverageExplorer` |
| `OracleCoverage` | `beam_candidates_to_coverage` |
| `Deps` | `_probe`, `require`, `reprobe` and the clients built on them |
| `KeyFile` | the key files of `GrpcEntityStore`, from `_make_channel` to the exit handler |
| `EphemeralLoad` | the cell that loads an instance, over `write_constellation` and `delete_ids` |
| `TransformModel` | the rows `transform_fss01_model` builds, beside those of `ModelGen` |
| `Generators` | from a panel to the elements and planes of each shell |
| `JioScenario` | `build_scenario` and `build_provisioning` of the scenario script |
| `JioReport` | the two report builders, their merge by bucket and their saves |
| `GfsMirror`, `QuantumSampler`, `StoreDump` | the three programs of `tools/` |
| `*Proofs` | the TLAPS proofs: about the module they are named after, and about the parts of a combined run: `ClientProofs` of `MCDeps`, `ToolsProofs` of `MCTools`, `ExplorerProofs` of `MCExplorer`, `SweepProofs` of `MCSweep`, `ConstellationProofs` of `MCConstellation` |
| `MC*` | the values of the constants TLC uses, and compositions for a run |

`Continuity`, `CellVerdict` and through it `ContinuityMap` and
`CoverageReport` extend `Intervals`, so there is one definition of a run of
visibility and of a handover. `ShardedCoverage` instantiates `Coverage` under
the identity refinement (`vis` and `report` are variables of both). `Recording`
and `ModelGen` extend `NmtsAdapter`: what is recorded and what is generated is
read back by the same adapter. `TransformModel` extends `ModelGen`, whose rows it
computes another way.

**Combined runs.** `MCExplorer`, `MCConstellation`, `MCTools`, `MCDeps` and
`MCSweep` put components that belong together into one run: the
module of one is extended, the others are instantiated with their own variables
(`pc` renamed), and a first variable (`shows`, `user`, `program`, `part`, `search`) says
which of them a behaviour is about. The others keep one of their initial states,
so the reachable states are the sum and not the product. The properties of the
instances are restated there by one line each, and their assumptions on the
constants are asserted there. `MCTools` also runs `JioScenario`, `MCSweep` also
`Refine`.

### Continuity

State: the inputs (`inview`, `plane_uid`, `req`), the interval list `ivs`, the
arrays `best` and `hops` indexed by interval, `todo` (the intervals the outer
loop has not visited) and the returned `result`. Actions: `Extract`
(`intervals_from_inview`, with the early return when there is none), `Relax(i)`
(one iteration of the outer loop; `i` is the next interval in sorted order),
`Infeasible` and `Feasible(g)` (the two returns). The inner loop reads only
entry `i` and writes each later entry once, so it is one simultaneous update.
Python's `None` in `best` is `NoPath` (0, below every accepted overlap);
`None` in a verdict is `NA` (-1), the value `continuity_map` writes for it.

The reference definition is *a serving path*: a set of intervals whose ends
strictly increase, the first of which starts at sample 0 and the last of which
ends at the last sample, such that every two neighbours satisfy the handover
rules. It shares the handover rule with the code, and nothing else.

`ContinuityMap` has the older function with its arrays by position and its two
nested loops, because the repository keeps both: `FormsAgree` compares the
verdict by steps, the verdict as a function and the two calls of
`continuity_map`, and says that asking for different planes only takes paths
away. `HandoversOfReportedPath` also fixes when there is no overlap to report:
exactly when a single satellite serves the whole window.

### ShardedCoverage

State: the division into shards and what each keeps (`shard_list`, `sat_idx`),
the tasks (`task`, `part`), the accumulators `out`, `done_shards`, and whether
`_SHARD_CTX` is set. `StartTask`, `ChunkStep`, `FinishTask` are
`_compute_shard` (an empty shard returns at once); `TakeResult` is `_apply`,
in the order of `pool.map`; `TaskRaises`, `WorkerDies`, `TakeException`,
`Unwound` are the failure paths through the `with` block and the `finally`;
`AllApplied` is the return. The executor (`concurrent.futures`) is a library:
its behaviour (results in order, cancelling on an exception, waiting at exit, a
broken pool) is taken from its use in `pipeline.py`.

A cell's `sat_sum` counts the pairs of a satellite and a sample at which it is in
view. `Ks` does not contain 0: the code reports 0 serviceable samples for a shard
that keeps no satellite, even for `k = 0`, where the monolithic run counts all.

The geometry is not modelled. A visibility matrix is an input, and the
pre-filter keeps *any* set that contains the satellites in view, which is what
`relevant_sat_mask` promises; whether the cap angles really give a superset is
a question of real arithmetic.

### StorePush and ModelGen

`StorePush` has the rows of both instances with the push each row comes from,
the position of the running `push_model` (`pc`, `wiped`, `ids`, `batches`,
`attempt`, `total`), the types it skipped (`skipped`) and the calls that went
wrong (`late`, `faults`). `Start` includes the writer's constructor;
`ReadIds`/`ReadFails`/`DeleteBatch`/`DeleteFails`/`TypeWiped` are the wipe;
`FlushOk`/`FlushFails` are `flush` with its retries. The Store is external: a
Write is one transaction, an INSERT of an existing id does not commit, a failed
call may have been applied or may be applied later (`ServeLate`). `Derive` is
the instance itself: it adds a row derived from an entity it serves, one at a
time and only while that entity is there. Text of rows is a model value; a row
which cannot be parsed (a programming error in the generator) is not modelled.

The properties are conditional on what the code can know. `Returned` means: the
push returned, it wiped, and no request of the behaviour was served late. Under
it, rows of another model are of a type whose read failed or derived from such
rows (`LeftoversAreOfUnreadTypes`), and if nothing was skipped the instance has
the whole model and the returned total counts each of its rows once
(`WholeModel`). `PermanentUntouched` has no condition.

`ModelGen` has the arguments, the loop position, the slot counter of each plane
and the three lists of rows. An id is a record (family, number, part of the
subtree); substitution in the text changes the number, and a relationship is
kept, renumbered or dropped as the text tests of the code decide.
`TransformModel` is the script `build_model` came from, as operators over the
same template: it computes plane and slot from a satellite's number where
`build_model` counts them, and `TransformAgrees` compares all rows for Walker
shapes. Rows that a loop collects under a condition are written as the positions
that meet it, in order (`At`).

### NmtsAdapter and Recording

A platform's motion is a sequence of oneofs. A message and a dictionary differ
in what reading an unset field gives: a default instance, or `None`; every
accessor has both. The conversion of true to mean anomaly is a table that is
the identity for circular orbits and something else otherwise. `Recording`
reads entities, relationships and intents in three steps while the store
changes, then truncates and writes the file; `got` is what a direct user of the
store would have got by the same reads, and the replay is compared with it.
`stored_as` says what the store returns: a live one messages, a fixture
dictionaries. `ReplayIsLive` is stated for both. Of dictionaries a recording
keeps everything the adapter serves. Of messages it keeps the elements and
antennas of each Keplerian platform and, by number, the states of intents; which
platforms are external and which are not Keplerian it does not keep, and
`ReplayIsIdentical`, which asks for that too, is the violated run
`record_messages`.

### ExplorerSession, ExplorerRuns, OracleCoverage

The kernel runs one handler at a time, so `ui` holds the widgets a handler
reads; the instances do not wait (`OtherClientWrites`, `Predict`). A model is a
shape and the epoch of its elements. A handler is one step per call that can
fail or see another state: `Pull`; `ProvisionModel` then `ProvisionOk` or
`ProvisionFails` (any prefix of a push); `Workload`, `Source`, one of the four
oracle outcomes, `Plot`. `touched` is the only history that weakens a property:
`CacheIsTheInstance` cannot hold once somebody else rewrote the instance.

`ExplorerRuns` has the two files, the tabs and their titles. Opening a file
truncates it, a failing write leaves the old content or a torn file, the Output
context swallows the exception, `RestartKernel` may come anywhere. Runs are
numbered over all sessions as a history, while the code numbers them from 1 in
each.

`OracleCoverage` reads segments in any order. Its reference is written over
the segments alone: who is in view of a point at an instant, and what share of
all instants that is.

### Deps

`_probe` is one step per import, in the order of the code, while modules are
being installed; a surface is found at the newest root that imports. `require`
and `reprobe` start probes, `BuildStore`, `BuildRawStore` and `BuildFails` are
the constructors, `report` is what `probe_endpoint` copied. `sought` is what the
path held when the handler started: nothing installed by then may be missed.

### KeyFile

Per store: how far its constructor is (`stage`), the file it made (`key_path`)
and the file its cleanup works on (`key_cleanup`); the files, with the store
whose key each holds; the list of exit handlers. `Connect` includes the
registration of the handler. `mkstemp` may return a name that was removed
before, so a handler left behind by a closed store can meet another store's
file. `Shred` fails unseen, as both halves of `_cleanup` do. `orphaned` (a file
whose writing failed, or whose constructor was interrupted before anybody could
remove it) and `stubborn` (a file that could not be removed) are the two
histories that weaken `EveryKeyFileIsRemoved`.

### EphemeralLoad

`rows[i]` is the run of the cell that wrote platform `i`. The cell reads
(`ReadBack`), deletes row by row, writes row by row; a row that is there does
not commit and ends the cell. A call that fails was processed, lost, or is
processed later (`LateRequest`, remembered in `disturbed`). `LoadedIsOneLoad`: a
cell that reports success leaves as many platforms as the preset has, all of one
run, unless a late request got in between; `RerunLoads`: a run in which no call
fails and for which nothing is late ends loaded, whatever earlier failures left.

### Generators, JioScenario

`Generators` starts at the widgets (`Build`) and turns one shell after the other
into a model (`Part`). Angles are integers in parts of a turn, so that reducing
them is exact; every shape divides the turn (`Fits`, which also says what
`walker_model` refuses: satellites the planes do not share evenly). The reference of
`GeneratorsAgree` is the symmetry of a Walker pattern, over the seam as well,
the formulas of the two scripts, and the same shape written down in the three ways
a shell can be (`ByShape`, `ByPlanes`, `BySlots`). `JioScenario` is the script, loop by loop;
a node keeps its labels, its address and, per front end, the channels it sends
and receives on. `LabelsAreUnique` is about all nodes built so far,
`DemandsCanBeServed` about the ends of each demand and the channels between.

### JioReport

The archive, the engine's visibility and the cells of points are inputs. `plan`
is what the program has still to do, `MergeBucket` one turn of the loop over
files, `Open` and `Dump` the two halves of a save, `Dies` the kill. `on_disk` says
whether the file is absent, torn or whole and `file` what a whole one holds; `Start`
of the finish reads it. The reference is one call of
`beam_candidates_to_coverage` and `engine_coverage_at_points` over all buckets.

### Sweep, ConstellationConcat, Refine

`Sweep` has one step per candidate; a coverage run is abstracted to the figures
a sweep reads of it, constrained by what is proved of continuity. `Concat`
visits one shell per step. `Refine` counts time in ticks and knows an elevation
by its sign, which is all the bisection looks at. Ticks are as fine as the
midpoints of the search (`Halvable`), so that halving is exact as it is in floats.

### GfsMirror, QuantumSampler, StoreDump

`GfsMirror`: resolution and opening of a file are two steps, publishing and
withdrawing come in between, beside a wildcard pair or without one
(`has_wildcard`). Handler threads share only the directory, so one client with
one request at a time reaches everything. The history `unsettled` names the
cycles for which an inventory and a range may be answered from two pairs: those
whose GRIB was written or removed since the inventory was looked up, or was
there then without its inventory. `OffsetsMatchGrib` asks that the two never
differ otherwise, and never at all where there is no wildcard pair;
`OffsetsAlwaysMatch`, without the exception, is the violated run `mirror_pairs`.
`QuantumSampler`: a clock,
a server that may send anything at any time, close, fail or go quiet.
`StoreDump`: three reads of a changing store, a file per group, the manifest
last, and death anywhere; `Load` is the explorer's fallback that reads them.

## 3. Runs

Each run's bounds are in its `.cfg` and the `MC*` module. Every property of a
passing run is broken by a mutant, a plausible mistake in one mapped definition, which
stands beside that definition and is listed in `PROJECT.json`. The runs check
properties that relate several steps; `TypeOK` is proved of `Continuity`,
`ConstellationConcat`, `KeyFile` and `ExplorerRuns` (in the last two within their
inductive invariants), and documents the types of the variables in the other
modules.

| Run | Question | Bounds and why they are enough |
|---|---|---|
| `continuity` | Does the single pass decide, measure and count correctly? Do the two forms agree, and how does the verdict follow the requirement? | Every visibility matrix of 3 satellites and 5 samples: the fewest samples at which a longer chain of handovers beats a shorter one, so that an improvement of `best[j]` has to move `hops[j]` too. `min_overlap_steps` 0 (floored to 1) and 2 (rejects short overlaps). The different-plane rule over matrices in which a satellite has a single run, with every division into planes, unknown ones included. |
| `sharded_coverage` | Is the sharded report the monolithic one? | 3 cells in every division, every admissible pre-filter, chunk lengths 1, 2, 3 over 3 samples (with 2 the last chunk is short), 1 and 2 workers; views with nothing in view, with a handover, with a gap. |
| `sharded_faults` | Does a run with raising tasks and dying workers end, and clean up? | Up to 3 workers on up to 3 shards, any number of failures. One view: values do not matter to this question. |
| `push` | What does a returning push leave, and is a protected instance safe? | Three pushes with and without wiping, three failed calls of any kinds; batches of 2 so that a model has two batches and a batch can be given up (`MaxAttempts` 2 for the code's 6). The models share an id. |
| `push_one_model` | (violated) "the instance serves exactly one model" | As `push`. |
| `explorer` | Do caches, comparisons, titles, files and counts belong to what they are shown for? | Two instances, one protected, one with a predictor; one Walker shape and two epochs tell any two models apart; four runs (a tab closed from the middle and one after it); every subset of eight segments that meet, overlap, have rows, do not parse or have no samples. |
| `sweep` | Does a harder requirement need no fewer satellites, and is one smallest shape marked? Does bisection keep a sign change and end within the tolerance? | Two cells, two `k`, grids of up to four shapes with equal sizes among them, every outcome of every coverage run. 16 ticks, up to three crossings, brackets with tolerances below, at and above their width. |
| `constellation` | Does the adapter serve what a store holds, a replay what was recorded, and is a generated model consistent and that of the script? Do shells keep apart and keep their planes? Do all ways to write a shape down agree? | Two platforms with every mix of motions and epochs and one change of the store, which returns dictionaries or messages; every constellation of up to three satellites in up to three planes and Walker shells of up to four (two planes of two: the least with a plane and a slot that differ), with two templates and up to two sites. Three shells, every assignment of known and unknown planes; shells of up to four planes of three with any phasing, and presets of two shells. |
| `record_messages` | (violated) "identical read surface, offline" | As `constellation`. |
| `tools` | Are dumps whole, ranges right, does a sample end and report what the stream did, and are merged figures those of the window? Are labels unique and demands served? | Two dumps of four rows in three groups of one type and one of another; two cycles, with a wildcard pair and without, and byte positions behind the end of the file; a window of two units and a slack that lets a chunk come two units late; archives of up to three of five buckets that meet, miss a point or are empty, two points in one cell or two, and two programs, each killed anywhere; three planes of four satellites, three gateways (one more than interfaces) and 251 terminals (one more than fit the last octet of an address). |
| `mirror_pairs` | (violated) "The .idx byte offsets must match the GRIB actually served" | As `tools`. |
| `deps` | What do probes, flags and clients know while packages arrive? Who removes key files? Is a load one load? | A required surface, one with an older and a newer root, one for the raw store; modules arrive one by one. Two stores and two names of files. Loads of two and three platforms, four runs of the cell and two failing calls: a failure, another while cleaning up, and a run that succeeds. |

Deadlock is switched off where a program simply stops when it is done
(`continuity`, `sharded_*`, `push*`); in the other runs it is checked:
their modules have a `Stop` step or a user who can always act.

### Fairness

`ShardedCoverage` states weak fairness of the workers taken together and of the
main process: both are processes of one operating system. No fairness is
assumed of a failure, and none that lets a particular task finish first.
`RunEnds` holds because a died worker makes the executor raise in every pending
task. `QuantumSampler` states weak fairness of the clock and of the deadline:
time passes and gRPC keeps its deadline; nothing is assumed of the server, so
`SampleEnds` holds of one that is silent for ever. `EphemeralLoad` states weak
fairness of the steps of a cell that runs: the kernel goes on with a cell it has
started. Nothing makes a user run it again, and nothing a late request arrive;
`RerunLoads` speaks of runs that have been started, when nothing is late. No other module needs fairness.

### Disagreements met while modelling

Three runs are violated, each with a property beside it that holds and shows how
far the damage goes:

- `push_one_model`: `push_model` skips a type it cannot read while wiping (`except
  Exception: continue`, modelgen.py:227). The old rows of that type stay, although
  the docstring promises that "the instance serves exactly one model"
  (modelgen.py:197-198). The limit: `LeftoversAreOfUnreadTypes`.
- `record_messages` (recording.py:18, 28): an unset message field reads as a default
  instance, which is truthy ("an empty message is truthy in python-protobuf!",
  _access.py:42). Recorded from a live store, platforms with other motions come back
  as Keplerian and served ones as external, and a platform the store serves is gone
  from the replay, against "identical read surface, offline" (63). Intents keep the
  number of their state (48), and a replay finds none by name. The limit:
  `ReplayIsLive`.
- `mirror_pairs` (mirror.py:71): each request is resolved by itself. With a wildcard
  pair beside published cycles, an inventory of one pair is used with the bytes of
  the other, against "The .idx byte offsets must match the GRIB actually served"
  (24). The limit: `OffsetsMatchGrib`.

The other places where the models take the code's side against a text of the
repository, and for which the properties above are stated the way the code has
it:

- *Counted rows* (modelgen.py:256): `flush` does not look at the reply's
  `committed` (writer.py:63-65) and counts the batch; after a skipped type the
  "rows on" message (explorer.py:609) counts rows that are not there.
- *Walker epoch* (explorer.py:596): `_provision` takes the epoch of the last
  pull whatever the mode; the comment says "Element epoch written for Walker
  shapes" (584). The same `or` takes epoch 0 for absent.
- *Delta epoch* (explorer.py:733): a Walker shape is compared at epoch 0 with
  candidates of a model provisioned at another epoch, against "same
  constellation, same times, same points" (oracle.py:116-117).
- *Delta instance* (explorer.py:749): the elements are those of the cached
  pull, the candidates those of the instance the target widget names now.
- *CSV* (explorer.py:283): a write that fails is swallowed, the panel says "(CSV
  kept on disk)" (365) all the same.
- *Run numbers* (explorer.py:271): they start at 1 in every session, so a new
  kernel overwrites the file of an earlier run, against "never loses its data"
  (56).
- *Probe of messages* (probe.py:58): `is_external_system` is tested for truth,
  against the warning of _access.py:42-43; no platform is counted as served.
- *Eccentric orbits* (modelgen.py:137): the mean anomaly is written as the true
  one; the adapter converts it, so an eccentric orbit comes back shifted.
- *Quiet types* (quantum_sampler.py:67): the window is looked at only after a
  chunk, so a type that is quiet after a complete dump ends in
  DEADLINE_EXCEEDED and its dump count is not reported; a chunk that ends the
  window late is counted in its rate (62).
- *Stale dumps* (dump_live_store.py:77, 103): the file of a kind that is gone
  stays and the fallback reads it; a dump that dies leaves the manifest of the
  dump before beside files it has overwritten.
- *Segments* (oracle.py:75, 95): one series whose length is a multiple of the
  number of platforms is folded; points sampled at other instants are counted
  as not served at them.
- *Mixed loads* (build_nb08.py:75): the cell compares numbers of platforms only.
  A late INSERT can complete a load with a row of an earlier one, and another
  preset of the same size is taken for the one asked for: "instance already
  loaded".
- *Third gateway* (jio_min_scenario.py:282): it gets interface `wan0` of the point
  of presence again, which the first one is wired to; the comment says "add
  extra pop interfaces as needed" (279).
- *Seam* (model.py:65): planes are told apart by rounded raan, and a raan just
  below a turn and one just above 0 are two planes.
- *Slots* (config.py:99): the slots of a legacy shell are numbered through, the
  field is documented as "in-plane slot index" (model.py:21).
- *Merge* (finish_jio_report_data.py:73): "weighted merge over the union of
  points" sums by H3 cell, so two points of a cell add up, to more than 1, and
  `n_points` counts cells; an instant at which two buckets meet counts twice; a
  point missing from a bucket is given availability 0 by the engine as well
  (104), so the delta is not one over the same times. The build reads four
  buckets and the finish three.
- *Remaining artifacts* (finish_jio_report_data.py): they do not include
  `delta_A`; a build that dies in the merge and is finished has none. A file torn
  by a death within `save_stats` cannot be read by the finish.
- *Stubs* (client.py:103): `require` asks for HAS_AUTH only, so a Model package
  installed later gets no stub without a `reprobe`. *Report* (probe.py:85): the
  flags are copied before the store is built, which may probe. *Exported flags*
  (spacetime/__init__.py:6): imported by value, they stay as they were.

## 4. Proofs

Each theorem is for every value of the constants that the named assumptions of
its module admit; where the module is an instance of a combined run, the theorem
states them as its hypothesis. They are types and non-emptiness, and what the
code guarantees of its inputs:

- `SweepAssumption`: ranges of plane counts and sizes ascend and are positive
  (`range(first, last + 1, step)`);
- `StorePushAssumption`: the rows of a model have different keys, every type is
  wiped, and derived types after the types they derive from;
- `CoverageAssumption`: `k` is not 0 (see `ShardedCoverage` above);
- `JioAssumption`: the bases of the script leave room; `DemandsCorrect` adds
  `NUts # 0`: with no terminal, the front ends that satellites send to terminals with
  are heard by nobody, and `DemandsCanBeServed` asks that every sender be heard;
- `ExplorerSessionAssumption`: no instance is called `walker` or `dump`, the model's
  marks for the other sources of elements;
- `RefineAssumption`: midpoints are instants;
- `NmtsAdapterAssumption`, `RecordingAssumption`, `ModelGenAssumption`: numbers are
  never `None`; the states of intents have different numbers; a template names each
  entity once, its relationships join its own entities, and it has the route of the
  point of presence and the first terminal and satellite;
  `TransformAssumption`: `None` is not one of the verdicts on a relationship;
- `OracleCoverageAssumption` and `LayoutIsClear`: a segment's samples lie on a grid of
  instants, and its two layouts can be told by the number of samples; the code looks
  at nothing else (*Segments* above);
- `JioReportAssumption`: a bucket has instants, finitely many, and serves its points
  at some of them;
- `GeneratorsAssumption`: alternatives of the panel and shells of the presets are
  whole numbers that fit (`Fits`).

`ContinuityProofs`, for every `NTime >= 1`, every number of satellites, every
assignment of planes and every set of requirements:

- `TypeCorrect`: `Spec => []TypeOK`;
- `FeasibilityCorrect`: feasible exactly when a serving path exists;
- `BottleneckCorrect`: the reported overlap is guaranteed by a serving path,
  and none guarantees more;
- `HandoverCountCorrect`: the handover count belongs to such a path;
- `GaplessCorrect`: a feasible cell has somebody in view at every sample (no run
  repeats it);
- `DifferentSatCorrect`: runs of one satellite never overlap, so
  `require_different_sat` cannot change a verdict (no run repeats it either);
- `IntervalsCorrect`: the intervals cover exactly the samples in view, and those
  of one satellite are maximal. The interval of a sample is found from the last
  rise up to it and the first fall from it.

The argument. The properties speak about the final state; the invariant has to
say what is true half-way. `IInv` is the conjunction of

- `EmptyInv`, `IntervalsInv`: `ivs` is empty before `Extract` and the extracted
  intervals after it;
- `OrderInv`: visited intervals come before unvisited ones;
- `ReachedInv`: every reached interval has a path with exactly that bottleneck
  and that many handovers (soundness: what the arrays say is true);
- `RelaxedInv`: sources keep `INF`, and for every handover from a *visited* `i`
  to any `j`, `best[j]` is at least what `i` offers (completeness: nothing has
  been overlooked);
- `DoneInv`: the result was read off the arrays, from a best goal.

`RelaxedInv` survives the visit of `i` only because a handover goes to an
interval that ends strictly later: `best[i]` does not change once `i` has been
visited, which `OrderInv` gives. At the end, with `todo` empty, `RelaxedInv`
turns any path into a lower bound on `best` of its last interval. That step is
an induction along the path; it is done by looking at the first interval of
the path whose `best` is too small and its predecessor, so that only the
well-ordering of finite sets of naturals is needed.

`FormsCorrect` (`FormsAgree`) compares the ways the code computes one verdict. The
steps give the function because the visited intervals are always the first of
the sorted ones and the arrays are those of the function after as many iterations
(`StepsInv`). The older function gives the same because its arrays by position and
those by interval are related row by row (`RelaxedByPosition`). With the
different-plane rule each iteration leaves every entry no better than without it
(`FreedIteration`), so that the rule cannot make a cell feasible or its overlap longer.

`ShardedCoverageProofs` proves `ShardedImplementsMonolithic`, `Spec =>
ShardedIsMonolithic`: for any area, division into shards, pre-filter, chunk
length, number of workers and failures, what a run returns is what the
monolithic run returns, or it raises. `ReportInv` is

- `Division`: every cell is in one shard, which keeps the satellites it sees;
- `PartsInv`: the part of a task that has gone through `upto` samples is
  `PartOf(n, upto)`, the figures of these samples;
- `OutInv`: a cell of an applied shard has its whole report, any other the initial
  one.

A shard numbers its satellites anew, and the report must not show it.
`WholeVerdict` says so of the verdict: the order of the intervals, each
iteration of the relaxation (`WholeRelaxation`) and the best goal are the same
for the kept and renumbered satellites as for all. The induction over
iterations looks at the least one that differs (`LeastElement`), and the
existence of the arrays is proved the same way (`RelaxationSteps`).
`ContextCorrect` (`ContextOutlivesTasks`) needs `PoolInv`: the context is set
exactly while a pool may run, and nothing runs at the end.

`StorePushProofs` proves, for all models, batch sizes, numbers of attempts and
failures:

- `ProtectedInstanceSafe`, `Spec => PermanentUntouched`. It is not inductive: a
  late request could be addressed to the protected instance. `GuardedInv` says
  that a push which is reading, deleting or importing has another target, and
  that every late request has too; `Start` is the step that needs the guard of
  the writer's constructor;
- `LeftoversExplained` (`LeftoversAreOfUnreadTypes`) and `PushIsWhole`
  (`WholeModel`). `PushInv` follows a push: `TurnInv`, no row is of a push to
  come; `WipeInv`, of the types dealt with only the excused rows are left, and
  those about to be deleted; `FreshInv`, the push has no rows before it imports;
  `BatchInv`, the batches left are disjoint and cut up the rows not counted yet;
  `ImportInv`, a batch is there not at all or, if a reply was lost, as a whole.
  The last is why a retry after a lost reply can be counted: the INSERT that does
  not commit finds all its rows there.

`SweepProofs` proves `HarderCorrect` (`HarderNeedsMore`) and `WinnerCorrect`
(`OneSmallestWinner`) for any area, levels and shapes, whatever the coverage
runs report. `SweepInv` keeps of each row that it belongs to its place in the
grid and that more satellites in view are seen in no more cells
(`RowIsMonotone`). One winner is marked because two shapes of a 2-D grid differ in
size or in planes (`GridIs`), which needs that sizes ascend. And of `Refine` it
proves `BracketIsKept` (`SignChangeIsKept`) and `CrossingIsFound`
(`FoundWithinTolerance`): the bracket is `w * 2 ^ (n + 1)` ticks wide with `n`
halvings left and `2 w` within the tolerance (`WidthInv`); the number of halvings
exists and suffices (`EnoughHalvings`). The powers of two are a recursive
function, whose equations are proved from the well-ordering of the naturals.

`ConstellationProofs` is about the components of `MCConstellation`.

- *ConstellationConcat*: `ConcatTypeCorrect`, `ShellsStayApart`, `ShellsAreKept` and,
  as their conjunction, `PlanesPreserved`, for any number of shells of any size. Two
  shells stay apart because every id given so far is below the offset
  (`BelowOffset`) and a known id of the next shell is not; a shell keeps its planes
  because it is one shift of its own (`ShiftedBy`), and unknown planes are not
  shifted into known ones.
- *NmtsAdapter*, *Recording*, for any platforms and motions, however the store
  changes: `EpochsCorrect` (`EpochsReconciled`), from `ReadInv`, that what was read are
  rows a store can hold; `ReplayCorrect` (`ReplayIsLive`), for stores of dictionaries
  and of messages, from `ReplayInv`: at each stage of a recording the data held is the
  projection of what the same reads gave a direct user. Projecting keeps the first
  motion of an entity (`FirstKept`), so one platform asked for by itself is served
  alike (`OneAlike`); entities that are served alike one by one are served alike
  together (`ServedAlike`), which settles dictionaries; of messages, everything is
  external in the replay, and nothing is served (`NothingServed`).
- *ModelGen*, for any template, constellation and sites. `ModelCorrect`
  (`ModelIsConsistent`) needs `GenInv`: the blocks built are the kept ones and the
  clones of the satellites and terminals done, each once (`BlocksBuilt`), and what
  relationships and demands join is among them (`EndsBuilt`). `ConstellationComesBack`
  (`CircularComesBack`) adds that platforms carry the elements of their satellite
  (`ElementsPatched`) and come in its order (`SatellitesInOrder`); with the ids
  distinct, the adapter then finds one per satellite.
- *TransformModel*: `ScriptCorrect` (`TransformAgrees`), for every template and every
  Walker shape. `ScriptInv` says of every way to read the constellation as `P` planes
  of `S` satellites that the rows so far are the script's (`BuiltAsScript`), and that
  the counters say what the script computes: after `n` satellites the planes before
  the `n \div S`-th are full and that one has `n % S` (`Counted`).
- *Generators*: `GeneratorsCorrect` (`GeneratorsAgree`), for every shape that fits and
  any phasing. `GensInv` is that shells are such shapes and models theirs; the
  rest is arithmetic. A row is the satellite of a plane and a slot, all angles whole
  units (`RowIsSat`); turning it by a plane gives the satellite of the next plane, or
  over the seam one of the first (`TurnedIs`), and every satellite is one of the
  plane before it turned (`PatternIsSymmetric`). Plane numbers are ranks, and ranks
  tell nodes apart (`UidIs`, `KeysGrow`).

`FlattenSeq` is a fold, so what it returns is proved of the partial results, which
exist for every length (`Iterates`, `FlattenGrows`); the inductions over a length are
done from the well-ordering of the naturals, up to a bound (`UpTo`).

`ClientProofs` is about the parts of `MCDeps`.

- *Deps*, for any number of import roots and any order of installing:
  `GrpcComesWithStubs` (`[]StubsHaveGrpc`) and `FlagsStay` (`FlagsNeverFall`), which
  no run checks, and `ReprobeFinds` (`ReprobePicksUp`). Flags are only rewritten
  at the end of a probe, so `ClaimInv` says for each surface a flag claims that
  the running probe can still find it: at any root before its turn, at the root
  it is at or a later one during its turn, and after its turn it has been found.
  That holds because nothing is uninstalled (`RootInv`). `ReprobeInv` says the
  same of what was there when the handler started.
- *KeyFile*, for any number of stores and names: `StoresHaveTheirKeys`,
  `KeyFilesAreRemoved`. `FileInv` adds what holds within a constructor: a store
  that has its file and no channel yet owns the file, and has no cleanup to call;
  one that has failed never gets one. A name given out again is safe because
  `mkstemp` returns it only when no file has it, and a store that still has a
  cleanup to call has a file with its key.
- *EphemeralLoad*, for all presets, runs and failures: `LoadIsOneRun`
  (`LoadedIsOneLoad`). Unless a late request got in, all rows are of one run; a
  cell that deletes knows all of them, and one that writes has written those it
  has not to write (`OneLoadInv`).

`ExplorerProofs` is about `ExplorerRuns` and `ExplorerSession`.

- For any number of runs, `TabsKeepTheirTitles` and `RunsKeepTheirFiles`. `RunInv`
  says that the number being saved is still free and that the stable name holds
  the run whose own file is written; `FileInv` that no saved run has a later
  number and no file a later run. Closing a tab needs what `Without` does to a
  sequence (`WithoutFacts`), and the same shift of the titles.
- For any instances, shapes and epochs, `CacheCorrect`, `ProvisionCorrect` and
  `DeltaCorrect`. `ElementsTaken` says that the elements a handler holds belong to
  its widgets and that their epoch is the one they were pulled with;
  `PairOfThisRun` that the pair to compare is this run's or none. The assumption
  on names keeps instances apart from the marks the model gives elements that
  come from a Walker shape or from a dump.
- *OracleCoverage*: `OracleCorrect` (`ResultIsUnion`), for any segments in any order.
  `OracleInv` says that the dictionaries hold the union of what the visited segments
  say of each point and instant, and that the result is their reduction.

`ToolsProofs` is about the programs of `MCTools`.

- *JioScenario*: `LabelsCorrect` and `DemandsCorrect`, for every number of planes,
  satellites, gateways and terminals the bases leave room for. `LoopInv` bounds
  what the loops have built by their counters. Two nodes with a label or an
  address in common are then of one kind, with one number, and so one node
  (`PlaceOfNumber` for the satellites, whose labels come from the number and whose
  addresses from the place).
- *QuantumSampler*: `SampleCorrect`, for any server and any bounds. `SampleInv`
  ties the counters of the client to what was sent.
- *GfsMirror*: `OffsetsCorrect` for any files, with and without a wildcard pair.
  `MirrorInv` says that a published inventory has its whole GRIB (`PairsPublished`),
  that an inventory the client holds is of its path's own pair or of the wildcard's,
  and that a cycle that is not `unsettled` still has, or still has not, the GRIB it
  had when the inventory was looked up (`Found`); a file about to be opened is then
  the one of the inventory (`Opened`).
- *StoreDump*: `DumpCorrect`, for any rows, changes and deaths. A group of the
  manifest was written in this dump with all its rows that were read, and every
  row read is in such a group or still to be written (`GroupsWritten`);
  the groups come in the order of types, and the manifest last.
- *JioReport*: `ReportCorrect` (`ReportIsOfOneWindow`), for any archive, visibility and
  number of buckets, with programs killed anywhere. `ReportInv` says that the
  dictionary and the file hold both figures or neither, and such as one call over
  some program's buckets would give; that after each bucket the sums are those of the
  buckets so far (`SumsTo`); and that the rest of a program's plan accounts for each
  section it owes and ends with a save (`PlanInv`).

Only model-checked is liveness (`RunEnds`, `SampleEnds`, `RerunLoads`), which is
outside the prover. Every safety property a run checks is stated by a theorem, under
the assumptions above. The violated runs have no theorem.

## 5. Not modelled

Geometry, propagation, terrain (trigonometry on reals; their results are inputs
of the models), the H3 library, plots, the notebooks but for the cell that loads
an instance, the scripts that only produce documents, vendored code. Of modelled
components: `incl_values` (floating-point steps), `MinSatSweep`'s own run history
(that of `ExplorerRuns` without titles), `routes_from_intents` and
`pull_and_cover`, HEAD requests and requests without a Range of the mirror, the
flush loop of the transform script (`push_model`'s without wiping), the figures
of the report, and the download of terrain with its retries.

## 6. Plan

The order of the work ahead, by what could go wrong unnoticed:

1. *Pull over a changing store*: `pull_and_cover` and the stages of
   `probe_store`, which read several times; `routes_from_intents`.
2. *Mirror*: requests without a Range, ranges not satisfiable, HEAD.
3. *Terrain*: the download with retries and its cache; *MinSatSweep*: its own
   run history.
4. *Proofs*: the lemmas on the relaxation in a module of their own, cited by
   `ContinuityProofs` and `ShardedCoverageProofs`; `TypeOK` of `StorePush` and of
   `ShardedCoverage`.
