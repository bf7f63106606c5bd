------------------------------- MODULE JioReport -------------------------------
(***************************************************************************)
(* The figures of the Jio report: build_jio_sample_report_data.py, which   *)
(* saves jio_report_stats.json after every section because its process is  *)
(* killed when it outgrows its address space, and                          *)
(* finish_jio_report_data.py, which reads that file and adds what is left. *)
(* Both merge the archived window bucket by bucket, so as to hold one      *)
(* bucket at a time.                                                       *)
(*                                                                         *)
(* A bucket has its sample times and, for every ground point it mentions,  *)
(* those at which the link predictor serves it (OracleCoverage); the       *)
(* engine is asked for the same points and times.  A share is the pair of  *)
(* its numbers, a mean over points stands for the shares it is taken of.   *)
(***************************************************************************)
EXTENDS Integers, FiniteSets, Sequences, Functions, SequencesExt

CONSTANTS
    Windows,            \* archives: sequences of [times, served], in the order of their names
    Engines,            \* Engines \ni seen; seen[p]: when the engine has a satellite in view
    CellMaps,           \* cell \in CellMaps; cell[p]: the H3 cell of point p
    N_ARCHIVE_BUCKETS,  \* buckets the build reads
    N_BUCKETS,          \* buckets the finish reads
    MaxStarts           \* bound: programs started

JioReportAssumption ==
    /\ {N_ARCHIVE_BUCKETS, N_BUCKETS} \subseteq Nat /\ MaxStarts \in Nat
    /\ \A w \in Windows :
          /\ w \in Seq(Range(w))
          /\ \A i \in DOMAIN w :
                /\ w[i].times # {} /\ IsFiniteSet(w[i].times)
                /\ \A p \in DOMAIN w[i].served : w[i].served[p] \subseteq w[i].times

VARIABLES
    window, seen, cell, \* the archive, the constellation's engine and the grid
    on_disk,            \* jio_report_stats.json: "absent", "torn" or "whole"
    file,               \* the dictionary it holds when it is whole
    program,            \* "none", "build", "finish", "dead", "done"
    plan,               \* what the program has still to do
    stats,              \* its dictionary: section |-> value
    bucket,             \* the bucket it merges next
    acc,                \* acc[c] = [orc, eng]: the weighted sums of cell c
    tot,                \* samples merged
    starts,             \* programs started
    kept                \* history: sections of the file when the program started

inputs == <<window, seen, cell>>
merge == <<bucket, acc, tot>>
saved == <<on_disk, file>>
vars == <<inputs, saved, program, plan, stats, merge, starts, kept>>

-----------------------------------------------------------------------------
Empty == [s \in {} |-> 0]
Running == program \in {"build", "finish"}

Plan(p) ==
    IF p = "build"
    THEN <<"models", "save", "engine", "save", "oracle_A", "save", "merge", "save",
           "delta_A", "save", "capacity_B", "save">>
    ELSE <<"merge", "capacity_B", "save">>

Buckets(w, p) == SubSeq(w, 1, IF p = "build" /\ N_ARCHIVE_BUCKETS < Len(w) THEN N_ARCHIVE_BUCKETS
                              ELSE IF p = "finish" /\ N_BUCKETS < Len(w) THEN N_BUCKETS ELSE Len(w))

\* The build starts anew; the finish goes on from the file, if it can be parsed.
Start(p) ==
    /\ ~Running /\ starts < MaxStarts
    /\ p = "finish" => on_disk # "torn"
    /\ program' = p /\ plan' = Plan(p) /\ starts' = starts + 1
    /\ stats' = IF p = "build" \/ on_disk = "absent" THEN Empty ELSE file
    /\ kept' = IF on_disk = "whole" THEN DOMAIN file ELSE {}
    /\ bucket' = 1 /\ acc' = Empty /\ tot' = 0
    /\ UNCHANGED <<inputs, saved>>

Section(s) ==
    /\ Running /\ plan # <<>> /\ Head(plan) = s
    /\ stats' = [k \in DOMAIN stats \cup {s} |-> IF k = s THEN TRUE ELSE stats[k]]
    /\ plan' = Tail(plan)
    /\ UNCHANGED <<inputs, saved, program, merge, starts, kept>>

\* beam_candidates_to_coverage and engine_coverage_at_points over one bucket.
Oracle(b, p) == [good |-> Cardinality(b.served[p]), of |-> Cardinality(b.times)]
Engine(b, p) == [good |-> Cardinality(seen[p] \cap b.times), of |-> Cardinality(b.times)]

Weighted(share, n) == (share.good * n) \div share.of

\* acc.setdefault(c, ...), and each of the bucket's points of c added to it.
AtCell(c) == IF c \in DOMAIN acc THEN acc[c] ELSE [orc |-> 0, eng |-> 0]
Added(c, b, n) ==
    LET here == {p \in DOMAIN b.served : cell[p] = c}
    IN  [orc |-> AtCell(c).orc + MapThenSumSet(LAMBDA p : Weighted(Oracle(b, p), n), here),
         eng |-> AtCell(c).eng + MapThenSumSet(LAMBDA p : Weighted(Engine(b, p), n), here)]

Merging == Running /\ plan # <<>> /\ Head(plan) = "merge"

\* Mutant of MergeBucket: the samples are those of the last bucket.
MergeBucketLastSamples ==
    /\ Merging /\ bucket <= Len(Buckets(window, program))
    /\ LET b == window[bucket]
           n == Cardinality(b.times)
       IN  /\ b.served # Empty
           /\ acc' = [c \in DOMAIN acc \cup {cell[p] : p \in DOMAIN b.served} |-> Added(c, b, n)]
           /\ tot' = n
    /\ bucket' = bucket + 1
    /\ UNCHANGED <<inputs, saved, program, plan, stats, starts, kept>>

\* One turn of the loop over files.  A bucket without points raises (Dies).
MergeBucket ==
    /\ Merging /\ bucket <= Len(Buckets(window, program))
    /\ LET b == window[bucket]
           n == Cardinality(b.times)
       IN  /\ b.served # Empty
           /\ acc' = [c \in DOMAIN acc \cup {cell[p] : p \in DOMAIN b.served} |-> Added(c, b, n)]
           /\ tot' = tot + n
    /\ bucket' = bucket + 1
    /\ UNCHANGED <<inputs, saved, program, plan, stats, starts, kept>>

\* Every sum is divided by all samples; the largest delta of no cell raises.
MergeEnds ==
    /\ Merging /\ bucket > Len(Buckets(window, program)) /\ acc # Empty
    /\ stats' = [k \in DOMAIN stats \cup {"oracle_B", "delta_B"} |->
          CASE k = "oracle_B" -> [n_samples |-> tot, orc |-> [c \in DOMAIN acc |-> acc[c].orc]]
            [] k = "delta_B" -> [n_samples |-> tot, eng |-> [c \in DOMAIN acc |-> acc[c].eng - acc[c].orc]]
            [] OTHER -> stats[k]]
    /\ plan' = Tail(plan)
    /\ UNCHANGED <<inputs, saved, program, merge, starts, kept>>

\* save_stats: open(..., "w") truncates, json.dump writes.
Open ==
    /\ Running /\ plan # <<>> /\ Head(plan) = "save"
    /\ on_disk' = "torn" /\ file' = Empty
    /\ plan' = <<"dump">> \o Tail(plan)
    /\ UNCHANGED <<inputs, program, stats, merge, starts, kept>>

Dump ==
    /\ Running /\ plan # <<>> /\ Head(plan) = "dump"
    /\ on_disk' = "whole" /\ file' = stats /\ plan' = Tail(plan)
    /\ UNCHANGED <<inputs, program, stats, merge, starts, kept>>

\* An exception, or the limit on the address space.
Dies ==
    /\ Running /\ program' = "dead"
    /\ UNCHANGED <<inputs, saved, plan, stats, merge, starts, kept>>

Ends ==
    /\ Running /\ plan = <<>> /\ program' = "done"
    /\ UNCHANGED <<inputs, saved, plan, stats, merge, starts, kept>>

-----------------------------------------------------------------------------
Init ==
    /\ window \in Windows /\ seen \in Engines /\ cell \in CellMaps
    /\ on_disk = "absent" /\ file = Empty /\ program = "none" /\ plan = <<>> /\ stats = Empty
    /\ bucket = 1 /\ acc = Empty /\ tot = 0 /\ starts = 0 /\ kept = {}

Stop == ~Running /\ UNCHANGED vars

Next ==
    \/ \E p \in {"build", "finish"} : Start(p)
    \/ \E s \in {"models", "engine", "oracle_A", "delta_A", "capacity_B"} : Section(s)
    \/ MergeBucket \/ MergeEnds \/ Open \/ Dump \/ Dies \/ Ends \/ Stop

Spec == Init /\ [][Next]_vars

-----------------------------------------------------------------------------
(***************************************************************************)
(* Reference: one call of either function over the whole window.           *)
(***************************************************************************)
Times(w) == UNION {w[i].times : i \in DOMAIN w}
Points(w) == UNION {DOMAIN w[i].served : i \in DOMAIN w}
Served(w, p) == UNION {w[i].served[p] : i \in {j \in DOMAIN w : p \in DOMAIN w[j].served}}

\* What the merge has to find: buckets that do not meet, and no cell with two
\* points.
Mergeable(w) ==
    /\ \A i, j \in DOMAIN w : i # j => w[i].times \cap w[j].times = {}
    /\ \A p, q \in Points(w) : cell[p] = cell[q] => p = q

OneCall(w, orc, delta) ==
    /\ orc.n_samples = Cardinality(Times(w)) /\ delta.n_samples = orc.n_samples
    /\ DOMAIN orc.orc = {cell[p] : p \in Points(w)} /\ DOMAIN delta.eng = DOMAIN orc.orc
    /\ \A p \in Points(w) :
          /\ orc.orc[cell[p]] = Cardinality(Served(w, p))
          /\ (\A i \in DOMAIN w : p \in DOMAIN w[i].served) =>
                delta.eng[cell[p]] = Cardinality(seen[p] \cap Times(w)) - Cardinality(Served(w, p))

-----------------------------------------------------------------------------
(***************************************************************************)
(* Properties                                                              *)
(***************************************************************************)
\* Whatever died on the way, a report that can be read has both figures of the
\* window or neither, of the same buckets, and they are those of one call over
\* all of them; the delta at points in every bucket.  And the finish "appends
\* its results": it ends with all sections that were in the file.
ReportIsOfOneWindow ==
    /\ on_disk = "whole" =>
          /\ "oracle_B" \in DOMAIN file <=> "delta_B" \in DOMAIN file
          /\ "oracle_B" \in DOMAIN file /\ Mergeable(window) =>
                \E p \in {"build", "finish"} :
                    OneCall(Buckets(window, p), file["oracle_B"], file["delta_B"])
    /\ program = "done" =>
          on_disk = "whole" /\ kept \cup {"oracle_B", "delta_B", "capacity_B"} \subseteq DOMAIN file
=============================================================================
