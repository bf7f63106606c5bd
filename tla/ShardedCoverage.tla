--------------------------- MODULE ShardedCoverage ---------------------------
(***************************************************************************)
(* run_coverage_h3_elements (ngso_sls/pipeline.py): cells are divided into *)
(* shards, each shard keeps only the satellites its pre-filter calls       *)
(* relevant and walks through the window in chunks, and shards are         *)
(* computed one after the other or by a pool of forked workers.            *)
(*                                                                         *)
(* The pre-filter's geometry is not modelled: a shard keeps any set of     *)
(* satellites that contains the ones in view of one of its cells           *)
(* (relevant_sat_mask: "the kept set is a superset of all genuinely        *)
(* in-view satellites").  A shard's task takes one step per chunk.         *)
(***************************************************************************)
EXTENDS CoverageReport, Sequences

CONSTANTS
    Chunks,         \* values of chunk_steps
    Workers,        \* values of workers
    MayFail         \* whether a task can raise and a worker can die

ASSUME ShardedCoverageAssumption ==
    /\ Chunks \subseteq Nat \ {0}
    /\ Workers \subseteq Nat \ {0}
    /\ MayFail \in BOOLEAN

VARIABLES
    vis,            \* vis[c]: the visibility matrix of cell c
    report,         \* what the run has returned, cell by cell, or raised
    shard_list,     \* the shards, sets of cells, in order of their first cell
    sat_idx,        \* sat_idx[n]: satellites shard n keeps
    chunk,          \* samples per chunk
    n_workers,      \* workers of the pool; 1: no pool
    pc,             \* "shards", "unwind", "end"
    ctx,            \* whether _SHARD_CTX is set
    task,           \* task[n]: "waiting", "running", "done", "raised", "cancelled"
    part,           \* part[n]: what task n has computed so far
    out,            \* the accumulators of the run, by cell
    done_shards     \* shards applied

setup == <<vis, shard_list, sat_idx, chunk, n_workers>>
vars == <<setup, report, pc, ctx, task, part, out, done_shards>>

Shards == DOMAIN shard_list
UsesPool == n_workers > 1

-----------------------------------------------------------------------------
(***************************************************************************)
(* One shard.                                                              *)
(***************************************************************************)
\* assign_shards: every cell has one parent; groups in order of first cell.
Parents == {p \in [Cells -> Cells] : \A c \in Cells : p[c] <= c /\ p[p[c]] = p[c]}

assign_shards(p) ==
    LET owners == {c \in Cells : p[c] = c}
        nth(n) == CHOOSE c \in owners : Cardinality({d \in owners : d < c}) = n - 1
    IN  [n \in 1 .. Cardinality(owners) |-> {c \in Cells : p[c] = nth(n)}]

\* Mutant of InViewOf: only satellites every cell of the shard sees are kept.
InViewOfAll(cells) == {s \in Sats : \A c \in cells : vis[c][s] # {}}

InViewOf(cells) == {s \in Sats : \E c \in cells : vis[c][s] # {}}

\* np.nonzero(mask): the kept satellites in ascending order.
SatIdx(kept) ==
    [l \in 0 .. Cardinality(kept) - 1 |->
        CHOOSE s \in kept : Cardinality({r \in kept : r < s}) = l]

\* The partial result of a shard before its first chunk, for its cells.
EmptyPart(n) ==
    [upto  |-> 0,
     cells |-> [c \in shard_list[n] |->
                  [serviceable |-> [k \in Ks |-> 0],
                   sat_sum     |-> 0,
                   inview      |-> [l \in DOMAIN SatIdx(sat_idx[n]) |-> {}]]]]

\* in_view of one chunk, a .. b - 1, by local satellite number.
ChunkView(n, c, a, b) ==
    [l \in DOMAIN SatIdx(sat_idx[n]) |-> vis[c][SatIdx(sat_idx[n])[l]] \cap (a .. b - 1)]

AddChunk(n, c, a, b) ==
    LET old == part[n].cells[c]
        new == ChunkView(n, c, a, b)
    IN  [serviceable |->
            [k \in Ks |-> old.serviceable[k]
                + Cardinality({t \in a .. b - 1 : NInView(new, t) >= k})],
         sat_sum |-> old.sat_sum + Cardinality(PairsInView(new, a .. b - 1)),
         inview  |-> [l \in DOMAIN new |-> old.inview[l] \cup new[l]]]

\* continuity_map over the shard's own satellites and their planes.
ShardVerdict(n, c) ==
    mbb_continuity_cell_req(part[n].cells[c].inview,
                            [l \in DOMAIN SatIdx(sat_idx[n]) |-> PlaneUid[SatIdx(sat_idx[n])[l]]],
                            Req)

-----------------------------------------------------------------------------
(***************************************************************************)
(* The workers.                                                            *)
(***************************************************************************)
Running == {n \in Shards : task[n] = "running"}

\* A worker takes the next task; without a pool the run computes shard n
\* itself, after it applied the ones before.
StartTask(n) ==
    /\ pc = "shards" /\ task[n] = "waiting"
    /\ \A m \in Shards : m < n => task[m] # "waiting"
    /\ Cardinality(Running) < n_workers
    /\ UsesPool \/ done_shards = n - 1
    /\ task' = [task EXCEPT ![n] = IF sat_idx[n] = {} THEN "done" ELSE "running"]
    /\ part' = [part EXCEPT ![n] = EmptyPart(n)]
    /\ UNCHANGED <<setup, report, pc, ctx, out, done_shards>>

\* One round of the loop over bounds.
ChunkStep(n) ==
    /\ task[n] = "running" /\ part[n].upto < NTime
    /\ LET a == part[n].upto
           b == Least(a + chunk, NTime)
       IN  part' = [part EXCEPT ![n] =
                      [upto  |-> b,
                       cells |-> [c \in shard_list[n] |-> AddChunk(n, c, a, b)]]]
    /\ UNCHANGED <<setup, report, pc, ctx, task, out, done_shards>>

FinishTask(n) ==
    /\ task[n] = "running" /\ part[n].upto = NTime
    /\ task' = [task EXCEPT ![n] = "done"]
    /\ UNCHANGED <<setup, report, pc, ctx, part, out, done_shards>>

TaskRaises(n) ==
    /\ MayFail /\ task[n] = "running"
    /\ task' = [task EXCEPT ![n] = "raised"]
    /\ UNCHANGED <<setup, report, pc, ctx, part, out, done_shards>>

\* Mutant of WorkerDies: the task of a dead worker is lost without a trace.
WorkerDiesUnnoticed ==
    /\ MayFail /\ UsesPool /\ Running # {}
    /\ task' = [n \in Shards |-> IF task[n] = "running" THEN "cancelled" ELSE task[n]]
    /\ UNCHANGED <<setup, report, pc, ctx, part, out, done_shards>>

\* A worker dies: the executor gives up every task that is not over.
WorkerDies ==
    /\ MayFail /\ UsesPool /\ Running # {}
    /\ task' = [n \in Shards |-> IF task[n] \in {"waiting", "running"} THEN "raised" ELSE task[n]]
    /\ UNCHANGED <<setup, report, pc, ctx, part, out, done_shards>>

-----------------------------------------------------------------------------
(***************************************************************************)
(* The run.                                                                *)
(***************************************************************************)
\* _apply: counters are added, verdicts assigned; None leaves the defaults.
Apply(n) ==
    [c \in Cells |->
        IF c \in shard_list[n] /\ sat_idx[n] # {}
        THEN [serviceable |-> [k \in Ks |-> out[c].serviceable[k]
                                            + part[n].cells[c].serviceable[k]],
              sat_sum     |-> out[c].sat_sum + part[n].cells[c].sat_sum,
              mbb         |-> ShardVerdict(n, c)]
        ELSE out[c]]

\* pool.map yields the results in the order of shard_list.
TakeResult ==
    LET n == done_shards + 1
    IN  /\ pc = "shards" /\ n \in Shards /\ task[n] = "done"
        /\ out' = Apply(n)
        /\ done_shards' = n
        /\ UNCHANGED <<setup, report, pc, ctx, task, part>>

\* Mutant of TakeException: the run is over at once, without the pool's exit.
TakeExceptionAtOnce ==
    LET n == done_shards + 1
    IN  /\ pc = "shards" /\ n \in Shards /\ task[n] = "raised"
        /\ pc' = "end" /\ ctx' = FALSE
        /\ report' = Raised
        /\ task' = [m \in Shards |-> IF task[m] = "waiting" THEN "cancelled" ELSE task[m]]
        /\ UNCHANGED <<setup, part, out, done_shards>>

\* The exception of a task reaches the loop: what has not started is
\* cancelled, and leaving the with block waits for the workers.
TakeException ==
    LET n == done_shards + 1
    IN  /\ pc = "shards" /\ n \in Shards /\ task[n] = "raised"
        /\ pc' = "unwind"
        /\ task' = [m \in Shards |-> IF task[m] = "waiting" THEN "cancelled" ELSE task[m]]
        /\ UNCHANGED <<setup, report, ctx, part, out, done_shards>>

AllApplied ==
    /\ pc = "shards" /\ done_shards = Len(shard_list)
    /\ pc' = "end" /\ ctx' = FALSE
    /\ report' = Returned(out)
    /\ UNCHANGED <<setup, task, part, out, done_shards>>

Unwound ==
    /\ pc = "unwind" /\ Running = {}
    /\ pc' = "end" /\ ctx' = FALSE
    /\ report' = Raised
    /\ UNCHANGED <<setup, task, part, out, done_shards>>

-----------------------------------------------------------------------------
DefaultVerdict == InfeasibleVerdict(NTime)

Init ==
    /\ vis \in [Cells -> Views]
    /\ \/ \E p \in Parents :
            /\ shard_list = assign_shards(p)
            /\ sat_idx \in [1 .. Len(shard_list) -> SUBSET Sats]
            /\ \A n \in 1 .. Len(shard_list) : InViewOf(shard_list[n]) \subseteq sat_idx[n]
       \/ shard_list = <<Cells>> /\ sat_idx = <<Sats>>
    /\ chunk \in Chunks
    /\ \E w \in Workers : n_workers = Least(w, Len(shard_list))
    /\ pc = "shards"
    /\ ctx = UsesPool
    /\ task = [n \in Shards |-> "waiting"]
    /\ part = [n \in Shards |-> EmptyPart(n)]
    /\ out = [c \in Cells |->
                [serviceable |-> [k \in Ks |-> 0], sat_sum |-> 0, mbb |-> DefaultVerdict]]
    /\ done_shards = 0
    /\ report = NoReport

TaskStep(n) == StartTask(n) \/ ChunkStep(n) \/ FinishTask(n)
RunStep == TakeResult \/ TakeException \/ AllApplied \/ Unwound

Next ==
    \/ \E n \in Shards : TaskStep(n) \/ TaskRaises(n)
    \/ WorkerDies
    \/ RunStep

\* While some task can go on one of them does, and the main process is not
\* kept from running either: the operating system schedules both.
Fairness ==
    /\ WF_vars(\E n \in Shards : TaskStep(n))
    /\ WF_vars(RunStep)

Spec == Init /\ [][Next]_vars /\ Fairness

-----------------------------------------------------------------------------
(***************************************************************************)
(* Properties                                                              *)
(***************************************************************************)
TaskStates == {"waiting", "running", "done", "raised", "cancelled"}

TypeOK ==
    /\ vis \in [Cells -> Views]
    /\ \A n \in Shards : shard_list[n] \subseteq Cells /\ sat_idx[n] \subseteq Sats
    /\ chunk \in Chunks /\ n_workers \in Nat \ {0}
    /\ pc \in {"shards", "unwind", "end"} /\ ctx \in BOOLEAN
    /\ task \in [Shards -> TaskStates]
    /\ \A n \in Shards :
          /\ part[n].upto \in 0 .. NTime
          /\ DOMAIN part[n].cells = shard_list[n]
    /\ \A c \in Cells :
          /\ out[c].serviceable \in [Ks -> 0 .. NTime]
          /\ out[c].sat_sum \in 0 .. NTime * NSat
          /\ out[c].mbb \in Verdict
    /\ done_shards \in 0 .. Len(shard_list)

\* However cells are divided, filtered, chunked and scheduled, a run returns
\* the report of the monolithic computation or raises ("the sharded result is
\* bit-identical to the monolithic one", run_coverage_h3).
Monolithic == INSTANCE Coverage
ShardedIsMonolithic == Monolithic!Spec

\* _SHARD_CTX is there as long as a pool may use it, and gone when the run is
\* over, whichever way it ended; no task outlives the run.
ContextOutlivesTasks ==
    /\ UsesPool /\ Running # {} => ctx
    /\ pc = "end" => ~ctx /\ Running = {}

\* A run ends: tasks that raise and workers that die make it raise, they do
\* not make it wait.
RunEnds == <>(pc = "end")
=============================================================================
