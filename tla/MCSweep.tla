-------------------------------- MODULE MCSweep --------------------------------
(***************************************************************************)
(* Two searches of the studies: the sweep for the smallest constellation   *)
(* (Sweep) and the bisection for the instant of a crossing (Refine).  They *)
(* share nothing, so a behaviour is one of one of them.                    *)
(*                                                                         *)
(* Two sizes over one or two plane counts, or one or two inclinations: the *)
(* grid (2, 4) x (1, 2) has two shapes of four satellites.  Two cells let  *)
(* a candidate meet a requirement in part of the area.                     *)
(*                                                                         *)
(* Elevations with up to three crossings.                                  *)
(***************************************************************************)
EXTENDS Sweep

CONSTANTS Horizon, Elevations, Brackets

VARIABLES
    search,                         \* "sweep" or "bisection"
    above, arg, lo, hi, left, bisection

Bisection == INSTANCE Refine WITH n <- left, pc <- bisection

ASSUME SearchAssumption == SweepAssumption /\ Bisection!RefineAssumption

MCPlanesRanges == {<<2>>, <<2, 4>>, <<2, 3, 4>>}
MCInclinationRanges == {<<48>>, <<48, 53>>}
MCSppValues == <<1, 2>>

MCElevations ==
    {[t \in 0 .. 16 |-> (Cardinality({s \in flips : s <= t}) % 2 = 0) = start] :
        flips \in {S \in SUBSET (1 .. 16) : Cardinality(S) <= 3}, start \in BOOLEAN}

\* Tolerances that divide the bracket, that do not, and that are as wide or wider.
MCBrackets ==
    {[lo |-> 0, hi |-> 16, tol |-> tol] : tol \in {2, 3, 4, 16, 32}} \cup
    {[lo |-> 4, hi |-> 12, tol |-> 2], [lo |-> 8, hi |-> 16, tol |-> 4]}

-----------------------------------------------------------------------------
bisection_vars == <<above, arg, lo, hi, left, bisection>>
MCvars == <<search, vars, bisection_vars>>

MCInit ==
    /\ search \in {"sweep", "bisection"}
    /\ Init /\ Bisection!Init
    /\ search # "bisection" => arg = [lo |-> 0, hi |-> 16, tol |-> 2] /\ \A t \in 0 .. 16 : above[t] = (t = 0)

SweepStep == search = "sweep" /\ Next /\ UNCHANGED <<search, bisection_vars>>
BisectionStep == search = "bisection" /\ Bisection!Next /\ UNCHANGED <<search, vars>>
MCNext == SweepStep \/ BisectionStep

MCSpec == MCInit /\ [][MCNext]_MCvars

-----------------------------------------------------------------------------
(***************************************************************************)
(* The properties are those of the two modules, stated there.              *)
(***************************************************************************)
\* Refine: the ends of the bracket keep different signs, and it only shrinks.
SignChangeIsKept == Bisection!SignChangeIsKept

\* Refine: there is a crossing within half the tolerance of the result.
FoundWithinTolerance == Bisection!FoundWithinTolerance
=============================================================================
