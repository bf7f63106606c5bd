------------------------------ MODULE Coverage ------------------------------
(***************************************************************************)
(* What a coverage run promises (ngso_sls/pipeline.py): the report of the  *)
(* monolithic computation, one pass over all cells, satellites and         *)
(* samples, or no report at all.                                           *)
(***************************************************************************)
EXTENDS CoverageReport

VARIABLES
    vis,        \* vis[c]: the visibility matrix of cell c
    report      \* what the run has returned, cell by cell, or raised

MonolithicReport == [c \in Cells |-> CellReport(vis[c])]

Init == vis \in [Cells -> Views] /\ report = NoReport

Return == report = NoReport /\ report' = Returned(MonolithicReport) /\ UNCHANGED vis
Raise  == report = NoReport /\ report' = Raised /\ UNCHANGED vis

Next == Return \/ Raise

Spec == Init /\ [][Next]_<<vis, report>>
=============================================================================
