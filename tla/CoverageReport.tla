--------------------------- MODULE CoverageReport ---------------------------
(***************************************************************************)
(* What a coverage run is asked (ngso_sls/pipeline.py) and the report of   *)
(* one cell as a function of the satellites it sees.                       *)
(***************************************************************************)
EXTENDS CellVerdict

CONSTANTS
    NCell,      \* number of cells of the area
    Ks,         \* k values: a sample is serviceable with k satellites in view
    PlaneUid,   \* PlaneUid[s]: the orbital plane of satellite s
    Req,        \* the make-before-break Requirement
    Views       \* visibility matrices the cells can have

ASSUME CoverageAssumption ==
    /\ NCell \in Nat \ {0}
    /\ Ks \subseteq Nat \ {0}
    /\ PlaneUid \in [Sats -> Int]
    /\ Req \in Requirement
    /\ Views \subseteq [Sats -> SUBSET Times]

Cells == 0 .. NCell - 1

\* Satellites in view at sample t of a cell with visibility matrix view.
NInView(view, t) == Cardinality({s \in DOMAIN view : t \in view[s]})

\* A satellite with a sample of T at which it is in view: sat_sum counts each.
PairsInView(view, T) == {p \in (DOMAIN view) \X T : p[2] \in view[p[1]]}

CellReport(view) ==
    [serviceable |-> [k \in Ks |-> Cardinality({t \in Times : NInView(view, t) >= k})],
     sat_sum     |-> Cardinality(PairsInView(view, Times)),
     mbb         |-> mbb_continuity_cell_req(view, PlaneUid, Req)]

\* The outcome of a run, before and after it is over.
NoReport        == [outcome |-> "none", cells |-> <<>>]
Raised          == [outcome |-> "raised", cells |-> <<>>]
Returned(cells) == [outcome |-> "returned", cells |-> cells]

=============================================================================
