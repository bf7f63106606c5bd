-------------------------- MODULE MCShardedCoverage --------------------------
(***************************************************************************)
(* Three cells, two satellites, three samples: cells divided in every way, *)
(* with every pre-filter that keeps the satellites in view.                *)
(***************************************************************************)
EXTENDS ShardedCoverage

View(first, second) == [s \in Sats |-> IF s = 0 THEN first ELSE second]

\* Nothing in view; a handover; the second satellite alone, with a gap.
MCViews == {View({}, {}), View({0, 1}, {1, 2}), View({}, {0, 2})}

MCOneView == {View({0, 1}, {1, 2})}

MCKs == {1, 2}
MCPlaneUid == [s \in Sats |-> s]
MCReq == [min_overlap_steps |-> 1, require_different_sat |-> TRUE,
          require_different_plane |-> TRUE]
MCChunks == {1, 2, 3}
MCWorkers == {1, 2}
MCAllWorkers == {1, 2, 3}
MCOddChunks == {2}
==============================================================================
