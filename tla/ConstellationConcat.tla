--------------------------- MODULE ConstellationConcat ---------------------------
(***************************************************************************)
(* ConstellationModel.concat: shells put behind one another, their plane   *)
(* ids renumbered so that planes of different shells stay different.  The  *)
(* different-plane rule of a handover compares these ids.                  *)
(***************************************************************************)
EXTENDS Integers

CONSTANTS
    NModels,    \* models to concatenate
    NSatOf,     \* NSatOf[m]: satellites of model m
    Uids        \* plane ids a model may use; below 0 (-1) is "unknown"

ConcatAssumption ==
    /\ NModels \in Nat \ {0}
    /\ NSatOf \in [0 .. NModels - 1 -> Nat]
    /\ Uids \subseteq Int

Models == 0 .. NModels - 1
SatsOf(m) == 0 .. NSatOf[m] - 1

VARIABLES
    models,     \* models[m][s]: plane_uid of satellite s in its own model
    next,       \* the model the loop visits next
    offset,
    plane_parts \* plane_parts[m][s]: the renumbered id, for the models visited

vars == <<models, next, offset, plane_parts>>

-----------------------------------------------------------------------------
Known(uid) == uid >= 0

\* Mutant of Shifted: the offset is assigned, not added.
ShiftedAssigned(pu, by) == [s \in DOMAIN pu |-> IF Known(pu[s]) THEN by ELSE pu[s]]

Shifted(pu, by) == [s \in DOMAIN pu |-> IF Known(pu[s]) THEN pu[s] + by ELSE pu[s]]

\* Mutant of OffsetAfter: the largest id is taken of a model without one, too.
OffsetAfterAny(pu, before, after) ==
    \/ \E s \in DOMAIN pu :
          /\ \A t \in DOMAIN pu : pu[t] <= pu[s]
          /\ after = pu[s] + 1
    \/ DOMAIN pu = {} /\ after = before

\* The first id above those of the model just numbered, if it has any.
OffsetAfter(pu, before, after) ==
    \/ \E s \in DOMAIN pu :
          /\ Known(pu[s])
          /\ \A t \in DOMAIN pu : pu[t] <= pu[s]
          /\ after = pu[s] + 1
    \/ (\A s \in DOMAIN pu : ~Known(pu[s])) /\ after = before

Init ==
    /\ models \in {f \in [Models -> UNION {[SatsOf(m) -> Uids] : m \in Models}] :
                      \A m \in Models : f[m] \in [SatsOf(m) -> Uids]}
    /\ next = 0 /\ offset = 0
    /\ plane_parts = [m \in {} |-> 0]

\* One iteration of the loop.
Append ==
    /\ next < NModels
    /\ LET pu == Shifted(models[next], offset)
       IN  /\ OffsetAfter(pu, offset, offset')
           /\ plane_parts' = [m \in 0 .. next |-> IF m = next THEN pu ELSE plane_parts[m]]
    /\ next' = next + 1
    /\ UNCHANGED models

Stop == next = NModels /\ UNCHANGED vars

Next == Append \/ Stop

Spec == Init /\ [][Next]_vars

-----------------------------------------------------------------------------
(***************************************************************************)
(* Properties                                                              *)
(***************************************************************************)
TypeOK ==
    /\ models \in [Models -> UNION {[SatsOf(m) -> Uids] : m \in Models}]
    /\ \A m \in Models : models[m] \in [SatsOf(m) -> Uids]
    /\ next \in 0 .. NModels
    /\ offset \in Nat
    /\ DOMAIN plane_parts = 0 .. next - 1
    /\ \A m \in 0 .. next - 1 : plane_parts[m] \in [SatsOf(m) -> Int]

\* No two models share a plane: a handover between shells is never taken for
\* one within a plane.
PlanesStayApart ==
    \A m, n \in DOMAIN plane_parts : m # n =>
        \A s \in SatsOf(m), t \in SatsOf(n) :
            Known(plane_parts[m][s]) => plane_parts[m][s] # plane_parts[n][t]

\* Within a model everything stays as it was: who shares a plane with whom, and
\* which planes are unknown.
PlanesAreKept ==
    \A m \in DOMAIN plane_parts : \A s, t \in SatsOf(m) :
        /\ Known(plane_parts[m][s]) <=> Known(models[m][s])
        /\ ~Known(models[m][s]) => plane_parts[m][s] = models[m][s]
        /\ Known(models[m][s]) /\ Known(models[m][t]) =>
              (plane_parts[m][s] = plane_parts[m][t] <=> models[m][s] = models[m][t])

\* What the different-plane rule sees of the whole is what it saw of the parts.
PlanesArePreserved == PlanesStayApart /\ PlanesAreKept

-----------------------------------------------------------------------------
(***************************************************************************)
(* The invariant of the loop: every id given so far is below offset, and a *)
(* later model got ids above those of the earlier ones.                    *)
(***************************************************************************)
BelowOffset ==
    \A m \in 0 .. next - 1 : \A s \in SatsOf(m) : plane_parts[m][s] < offset

ShiftedBy ==
    \A m \in 0 .. next - 1 : \E by \in 0 .. offset : plane_parts[m] = Shifted(models[m], by)

IInv == TypeOK /\ BelowOffset /\ ShiftedBy /\ PlanesStayApart
=============================================================================
