--------------------------------- MODULE Refine ---------------------------------
(***************************************************************************)
(* refine_crossing_s (coverage/refine.py): bisection for the instant at    *)
(* which an elevation crosses its threshold.  Time is counted in ticks; the *)
(* elevation is known by its sign, above[t] for elev_at(t) > min_elev_deg. *)
(***************************************************************************)
EXTENDS Integers

CONSTANTS
    Horizon,        \* last tick
    Elevations,     \* signs of elevations
    Brackets        \* arguments [lo_s, hi_s, tol_s]

Ticks == 0 .. Horizon

\* 2 ^ k, by its recursion, which is what the proofs use of it.
Pow2[k \in Nat] == IF k = 0 THEN 1 ELSE 2 * Pow2[k - 1]

Wider(a, b) == IF a >= b THEN a ELSE b

\* Mutant of n_bisect_iters: the bracket is measured after the last halving.
IterationsOneShort(step, tol) ==
    CHOOSE k \in 0 .. Wider(step, tol) :
        /\ Pow2[k + 1] * tol >= Wider(step, tol)
        /\ \A j \in 0 .. k - 1 : Pow2[j + 1] * tol < Wider(step, tol)

\* max(1, ceil(log2(max(step, tol) / tol))).
n_bisect_iters(step, tol) ==
    CHOOSE k \in 1 .. Wider(step, tol) :
        /\ Pow2[k] * tol >= Wider(step, tol)
        /\ \A j \in 1 .. k - 1 : Pow2[j] * tol < Wider(step, tol)

\* Ticks are as fine as floats are: every midpoint of the search is a tick, and
\* so is that of the last bracket.
Halvable(b) ==
    \E w \in Ticks : b.hi - b.lo = w * Pow2[n_bisect_iters(b.hi - b.lo, b.tol) + 1]

RefineAssumption ==
    /\ Horizon \in Nat \ {0}
    /\ Elevations \subseteq [Ticks -> BOOLEAN]
    /\ Brackets \subseteq {b \in [lo : Ticks, hi : Ticks, tol : Nat \ {0}] : b.lo < b.hi}
    /\ \A b \in Brackets : Halvable(b)

VARIABLES
    above,          \* elev_at
    arg,            \* the arguments
    lo, hi,         \* lo_s, hi_s
    n,              \* iterations left
    pc              \* "check", "loop", "raised", "done"

vars == <<above, arg, lo, hi, n, pc>>

Mid == (lo + hi) \div 2

-----------------------------------------------------------------------------
\* No change of sign: ValueError.
Check ==
    /\ pc = "check"
    /\ IF above[lo] = above[hi]
       THEN pc' = "raised" /\ UNCHANGED n
       ELSE pc' = "loop" /\ n' = n_bisect_iters(hi - lo, arg.tol)
    /\ UNCHANGED <<above, arg, lo, hi>>

\* Mutant of Halve: rising and falling crossings are taken for the same.
HalveRising ==
    /\ pc = "loop" /\ n > 0
    /\ IF above[Mid]
       THEN hi' = Mid /\ UNCHANGED lo
       ELSE lo' = Mid /\ UNCHANGED hi
    /\ n' = n - 1
    /\ UNCHANGED <<above, arg, pc>>

\* One iteration: f_lo follows lo_s.
Halve ==
    /\ pc = "loop" /\ n > 0
    /\ IF above[Mid] = above[lo]
       THEN lo' = Mid /\ UNCHANGED hi
       ELSE hi' = Mid /\ UNCHANGED lo
    /\ n' = n - 1
    /\ UNCHANGED <<above, arg, pc>>

\* return 0.5 * (lo_s + hi_s).
Return ==
    /\ pc = "loop" /\ n = 0
    /\ pc' = "done"
    /\ UNCHANGED <<above, arg, lo, hi, n>>

Stop == pc \in {"raised", "done"} /\ UNCHANGED vars

Init ==
    /\ above \in Elevations /\ arg \in Brackets
    /\ lo = arg.lo /\ hi = arg.hi /\ n = 0
    /\ pc = "check"

Next == Check \/ Halve \/ Return \/ Stop

Spec == Init /\ [][Next]_vars

-----------------------------------------------------------------------------
(***************************************************************************)
(* Properties                                                              *)
(***************************************************************************)
TypeOK ==
    /\ above \in [Ticks -> BOOLEAN] /\ arg \in [lo : Ticks, hi : Ticks, tol : Nat \ {0}]
    /\ lo \in Ticks /\ hi \in Ticks /\ n \in Nat
    /\ pc \in {"check", "loop", "raised", "done"}

\* "bisection ... between the two adjacent coarse samples (guaranteed sign
\* change)": the ends of the bracket keep different signs, rising or falling,
\* however often the elevation crosses in between, and the bracket only shrinks.
SignChangeIsKept ==
    /\ arg.lo <= lo /\ lo <= hi /\ hi <= arg.hi
    /\ pc \in {"loop", "done"} => above[lo] # above[hi]

\* "to reach tol_s": there is a crossing within half the tolerance of the result.
FoundWithinTolerance ==
    pc = "done" =>
        \E t \in Ticks :
            /\ t + 1 \in Ticks /\ above[t] # above[t + 1]
            /\ 2 * (Mid - t) <= arg.tol /\ 2 * (t + 1 - Mid) <= arg.tol

=============================================================================
