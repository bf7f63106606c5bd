------------------------------ MODULE EphemeralLoad ------------------------------
(***************************************************************************)
(* The cell of notebook 08 that loads a Walker constellation into an       *)
(* instance (tools/build_nb08.py), over EphemeralStoreWriter: one row per  *)
(* call, no retries, and the user runs the cell again after a failure.     *)
(*                                                                         *)
(* Platform i is row i; its content is the run of the cell that wrote it,  *)
(* because a run writes its own epoch into every row.  The Store is that   *)
(* of StorePush: an INSERT of an existing id is answered, not committed,   *)
(* and a call that timed out can still be processed later.                 *)
(***************************************************************************)
EXTENDS Integers, FiniteSets

CONSTANTS
    Sizes,      \* satellites of the preset
    MaxRuns,    \* bound: runs of the cell
    MaxFaults   \* bound: failing calls

EphemeralLoadAssumption ==
    /\ Sizes \subseteq Nat \ {0} /\ \E n \in Sizes : \A m \in Sizes : m <= n
    /\ MaxRuns \in Nat \ {0} /\ MaxFaults \in Nat

NotLoaded == 0
Rows == 1 .. CHOOSE n \in Sizes : \A m \in Sizes : m <= n

PROTECTED_TARGETS == {"permanent"}

VARIABLES
    target, wanted, \* TARGET, and elems.shape[0]
    rows,           \* rows[i]: the run that wrote platform i, or NotLoaded
    run,            \* number of the current run
    pc,             \* "idle", "read", "delete", "write", "loaded", "failed"
    todo,           \* ids the current loop has not come to
    faults,         \* failing calls so far
    late,           \* requests given up that the Store has still to process
    disturbed       \* history: the Store has processed a request given up

store == <<rows, late, disturbed>>
vars == <<target, wanted, store, run, pc, todo, faults>>

-----------------------------------------------------------------------------
Existing == {i \in Rows : rows[i] # NotLoaded}

RunCell ==
    /\ pc \in {"idle", "failed"} /\ run < MaxRuns
    /\ run' = run + 1 /\ pc' = "read"
    /\ UNCHANGED <<target, wanted, store, todo, faults>>

\* Mutant of ReadBack: a partial load is not cleaned first.
ReadBackNoClean ==
    /\ pc = "read"
    /\ pc' = IF Cardinality(Existing) = wanted THEN "loaded" ELSE "write"
    /\ todo' = 1 .. wanted
    /\ UNCHANGED <<target, wanted, store, run, faults>>

\* Mutant of ReadBack: only the ids that will be written are cleaned.
ReadBackCleansOwn ==
    /\ pc = "read"
    /\ pc' = IF Cardinality(Existing) = wanted THEN "loaded"
             ELSE IF target \in PROTECTED_TARGETS THEN "failed" ELSE "delete"
    /\ todo' = Existing \cap 1 .. wanted
    /\ UNCHANGED <<target, wanted, store, run, faults>>

\* "already loaded -- skipping write", a refusal of the writer's constructor,
\* or "partial load: clean and reload".
ReadBack ==
    /\ pc = "read"
    /\ pc' = IF Cardinality(Existing) = wanted THEN "loaded"
             ELSE IF target \in PROTECTED_TARGETS THEN "failed" ELSE "delete"
    /\ todo' = Existing
    /\ UNCHANGED <<target, wanted, store, run, faults>>

\* One Store.Write: removes row i, or inserts it if it is not there.
Deleted(i)   == rows' = [rows EXCEPT ![i] = NotLoaded]
Inserted(i, by) == rows' = [rows EXCEPT ![i] = IF @ = NotLoaded THEN by ELSE @]
Processed(m) == IF m.op = "DELETE" THEN Deleted(m.id) ELSE Inserted(m.id, m.run)

Message(op, i) == [op |-> op, id |-> i, run |-> run]

Advance(i) ==
    todo' = todo \ {i} /\ UNCHANGED <<target, wanted, run, pc, faults, late, disturbed>>

\* delete_ids, in the order in which the Store listed the rows.
DeleteRow(i) == pc = "delete" /\ i \in todo /\ Deleted(i) /\ Advance(i)

DeletesDone ==
    /\ pc = "delete" /\ todo = {}
    /\ pc' = "write" /\ todo' = 1 .. wanted
    /\ UNCHANGED <<target, wanted, store, run, faults>>

IsNext(i) == i \in todo /\ \A j \in todo : i <= j

WriteRow(i) ==
    /\ pc = "write" /\ IsNext(i) /\ rows[i] = NotLoaded
    /\ Inserted(i, run) /\ Advance(i)

Failed == pc' = "failed" /\ UNCHANGED <<target, wanted, run, todo>>

\* "not committed (INSERT of existing id ...)".
NotCommitted(i) ==
    /\ pc = "write" /\ IsNext(i) /\ rows[i] # NotLoaded
    /\ Failed /\ UNCHANGED <<store, faults>>

\* The call the loop makes now.
Calls ==
    {Message("DELETE", i) : i \in IF pc = "delete" THEN todo ELSE {}} \cup
    {Message("INSERT", i) : i \in IF pc = "write" THEN {j \in todo : IsNext(j)} ELSE {}}

\* A call raises, or the kernel dies: the Store has processed the request, never
\* got it, or will process it later.
CallFails ==
    /\ faults < MaxFaults /\ faults' = faults + 1
    /\ \/ pc = "read" /\ UNCHANGED store
       \/ \E m \in Calls : Processed(m) /\ UNCHANGED <<late, disturbed>>
       \/ \E m \in Calls : late' \in {late, late \cup {m}} /\ UNCHANGED <<rows, disturbed>>
    /\ Failed

LateRequest(m) ==
    /\ m \in late /\ Processed(m)
    /\ late' = late \ {m} /\ disturbed' = TRUE
    /\ UNCHANGED <<target, wanted, run, pc, todo, faults>>

WritesDone ==
    /\ pc = "write" /\ todo = {}
    /\ pc' = "loaded"
    /\ UNCHANGED <<target, wanted, store, run, todo, faults>>

-----------------------------------------------------------------------------
\* The instance is empty, or holds a load of an earlier session.
Init ==
    /\ target \in {"ephemeral", "permanent"} /\ wanted \in Sizes
    /\ \E n \in {0} \cup Sizes : rows = [i \in Rows |-> IF i <= n THEN 1 ELSE NotLoaded]
    /\ run = 1 /\ pc = "idle" /\ todo = {} /\ faults = 0
    /\ late = {} /\ disturbed = FALSE

Stop == pc \in {"loaded", "failed"} /\ UNCHANGED vars

Step == ReadBack \/ DeletesDone \/ WritesDone \/ \E i \in Rows : DeleteRow(i) \/ WriteRow(i) \/ NotCommitted(i)

Next == RunCell \/ Step \/ CallFails \/ (\E m \in late : LateRequest(m)) \/ Stop

\* A cell that runs goes on; nobody has to run it again.
Spec == Init /\ [][Next]_vars /\ WF_vars(Step)

-----------------------------------------------------------------------------
(***************************************************************************)
(* Properties                                                              *)
(***************************************************************************)
TypeOK ==
    /\ target \in {"ephemeral", "permanent"} /\ wanted \in Sizes
    /\ rows \in [Rows -> 0 .. run] /\ run \in 1 .. MaxRuns
    /\ pc \in {"idle", "read", "delete", "write", "loaded", "failed"}
    /\ todo \subseteq Rows /\ faults \in 0 .. MaxFaults
    /\ late \subseteq [op : {"DELETE", "INSERT"}, id : Rows, run : 1 .. MaxRuns]
    /\ disturbed \in BOOLEAN

\* A cell that ends without an error leaves as many platforms as the preset has,
\* all with the elements and the epoch of one run, whatever earlier runs left
\* half-deleted or half-written: never a mixture.  A request that was given up
\* and processed afterwards voids this.
LoadedIsOneLoad ==
    pc = "loaded" /\ ~disturbed =>
        /\ Cardinality(Existing) = wanted
        /\ \A i, j \in Existing : rows[i] = rows[j]

\* "(idempotent)": whatever earlier runs and their late requests left behind, a
\* run in which no call fails, and nothing is late any more, ends well.
RerunLoads ==
    (pc = "read" /\ target = "ephemeral" /\ faults = MaxFaults /\ late = {})
        ~> (pc = "loaded")
=============================================================================
