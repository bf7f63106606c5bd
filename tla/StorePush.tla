------------------------------ MODULE StorePush ------------------------------
(***************************************************************************)
(* Provisioning an instance: modelgen.push_model wipes the rows of an      *)
(* ephemeral instance's Store and imports a generated model in batches,    *)
(* while the instance goes on deriving rows (link reports, beam segments)  *)
(* from the entities it sees.                                              *)
(*                                                                         *)
(* The Store is external: Write is one transaction that either commits as  *)
(* a whole or not at all, an INSERT of an existing id does not commit      *)
(* (writer.py, "not committed (INSERT of existing id ...)"), and the reply *)
(* says whether it did.  A call can fail before or after the Store applied *)
(* it, and a call the client gave up on may be applied later.              *)
(*                                                                         *)
(* A row is a key with the number of the push that wrote it; push 1 is the *)
(* model the instance serves at the start.  Rows of different models share *)
(* ids (satellite-1-platform is in every one of them).                     *)
(***************************************************************************)
EXTENDS Integers, Sequences, FiniteSets, Functions

CONSTANTS
    WipeTypes,      \* the entity types push_model wipes, in order
    DerivedTypes,   \* types whose rows the instance derives by itself
    Models,         \* Models[p]: rows of push p, [model, provisioning] sequences of keys
    DerivedKey,     \* DerivedKey[k]: the key of the row derived from entity k
    BatchSize,      \* rows per Write (400)
    MaxAttempts,    \* attempts per batch (6)
    WipeChoices,    \* values of wipe_first
    Faults,         \* kinds of failure: "read", "request", "reply", "late"
    MaxFaults       \* bound: number of failed calls in a behaviour

RangeOf(s) == {s[n] : n \in DOMAIN s}
ModelKeys(p) == RangeOf(Models[p].model) \cup RangeOf(Models[p].provisioning)
Derivers == DOMAIN DerivedKey
Keys == (UNION {ModelKeys(p) : p \in DOMAIN Models}) \cup RangeOf(DerivedKey)

\* Derived rows are of types of their own, which push_model wipes after those of
\* the rows it generates; build_model gives every row an id of its own.
ASSUME StorePushAssumption ==
    /\ BatchSize \in Nat \ {0} /\ MaxAttempts \in Nat \ {0} /\ MaxFaults \in Nat
    /\ WipeChoices \subseteq BOOLEAN /\ Faults \subseteq {"read", "request", "reply", "late"}
    /\ Models # <<>> /\ Models \in Seq([model : Seq(Keys), provisioning : Seq(Keys)])
    /\ \A p \in DOMAIN Models : IsInjective(Models[p].model \o Models[p].provisioning)
    /\ WipeTypes \in Seq(RangeOf(WipeTypes)) /\ \A k \in Keys : k.type \in RangeOf(WipeTypes)
    /\ \A i, j \in DOMAIN WipeTypes :
          WipeTypes[i] \notin DerivedTypes /\ WipeTypes[j] \in DerivedTypes => i < j
    /\ Derivers \subseteq Keys /\ \A k \in RangeOf(DerivedKey) : k.type \in DerivedTypes
    /\ \A k \in Derivers \cup UNION {ModelKeys(p) : p \in DOMAIN Models} : k.type \notin DerivedTypes

Targets == {"ephemeral", "permanent"}
PROTECTED_TARGETS == {"permanent"}

VARIABLES
    store,      \* store[t][k]: the push that wrote row k of instance t, 0 if none
    push,       \* number of the current push
    target,     \* the instance it writes to
    pc,         \* "idle", "wipe", "delete", "import", "done", "failed"
    wiped,      \* number of entity types dealt with
    ids,        \* ids of the type being wiped, as read, not yet deleted
    batches,    \* batches not yet imported
    attempt,    \* failed attempts of the current batch
    total,      \* rows push_model counts as imported
    skipped,    \* types whose rows could not be read
    late,       \* requests the client gave up on, still under way
    faults      \* the failed calls so far, by kind

client == <<push, target, pc, wiped, ids, batches, attempt, total, skipped>>
vars == <<store, client, late, faults>>

-----------------------------------------------------------------------------
(***************************************************************************)
(* The Store.                                                              *)
(***************************************************************************)
Insert(batch, p) == [op |-> "INSERT", keys |-> batch, push |-> p, target |-> target]
Delete(batch)    == [op |-> "DELETE", keys |-> batch, push |-> 0, target |-> target]

Commits(rows, r) == r.op = "DELETE" \/ \A k \in r.keys : rows[k] = 0

Applied(st, r) ==
    IF Commits(st[r.target], r)
    THEN [st EXCEPT ![r.target] = [k \in Keys |-> IF k \in r.keys THEN r.push ELSE @[k]]]
    ELSE st

Fault(kind) ==
    /\ kind \in Faults /\ Len(faults) < MaxFaults
    /\ faults' = Append(faults, kind)

\* Store.Write returns: the Store processed the request.
Written(r) == store' = Applied(store, r) /\ UNCHANGED <<late, faults>>

\* Store.Write raises: the request was lost, or only its reply, or it is late.
WriteFails(r) ==
    \/ Fault("request") /\ UNCHANGED <<store, late>>
    \/ Fault("reply") /\ store' = Applied(store, r) /\ UNCHANGED late
    \/ Fault("late") /\ late' = late \cup {r} /\ UNCHANGED store

\* The Store processes a request whose caller is gone.
ServeLate(r) ==
    /\ r \in late
    /\ late' = late \ {r}
    /\ store' = Applied(store, r)
    /\ UNCHANGED <<client, faults>>

\* The instance derives a row from an entity it serves.
Derive(k) ==
    /\ store["ephemeral"][k] # 0
    /\ store["ephemeral"][DerivedKey[k]] = 0
    /\ store' = [store EXCEPT !["ephemeral"][DerivedKey[k]] = store["ephemeral"][k]]
    /\ UNCHANGED <<client, late, faults>>

-----------------------------------------------------------------------------
(***************************************************************************)
(* push_model.                                                             *)
(***************************************************************************)
CeilDiv(a, b) == (a + b - 1) \div b
Least(a, b) == IF a <= b THEN a ELSE b

\* A sequence of rows cut into batches of BatchSize, the last one shorter.
Chunks(s) ==
    [n \in 1 .. CeilDiv(Len(s), BatchSize) |->
        {s[m] : m \in (n - 1) * BatchSize + 1 .. Least(n * BatchSize, Len(s))}]

\* Entities and relationships first; the flush between the loops keeps the
\* provisioning rows in batches of their own.
ImportBatches(p) == Chunks(Models[p].model) \o Chunks(Models[p].provisioning)

\* Mutant of Start: the writer accepts every target.
StartUnguarded(t, wipe_first) ==
    /\ pc \in {"idle", "done", "failed"}
    /\ push < Len(Models)
    /\ push' = push + 1
    /\ target' = t
    /\ pc' = IF wipe_first THEN "wipe" ELSE "import"
    /\ wiped' = 0 /\ ids' = {} /\ skipped' = {}
    /\ batches' = ImportBatches(push')
    /\ attempt' = 0 /\ total' = 0
    /\ UNCHANGED <<store, late, faults>>

\* The writer is built before anything is read or written, and its
\* constructor refuses a protected target.
Start(t, wipe_first) ==
    /\ pc \in {"idle", "done", "failed"}
    /\ push < Len(Models)
    /\ push' = push + 1
    /\ target' = t
    /\ pc' = IF t \in PROTECTED_TARGETS THEN "failed"
             ELSE IF wipe_first THEN "wipe" ELSE "import"
    /\ wiped' = 0 /\ ids' = {} /\ skipped' = {}
    /\ batches' = ImportBatches(push')
    /\ attempt' = 0 /\ total' = 0
    /\ UNCHANGED <<store, late, faults>>

\* Mutant of ReadIds: derived rows are wiped before what they derive from.
ReadIdsLastFirst ==
    /\ pc = "wipe" /\ wiped < Len(WipeTypes)
    /\ ids' = {k \in Keys : k.type = WipeTypes[Len(WipeTypes) - wiped] /\ store[target][k] # 0}
    /\ wiped' = wiped + 1
    /\ pc' = "delete"
    /\ UNCHANGED <<store, push, target, batches, attempt, total, skipped, late, faults>>

\* Read the ids of the next type; every type done, go on to the import.
ReadIds ==
    /\ pc = "wipe" /\ wiped < Len(WipeTypes)
    /\ ids' = {k \in Keys : k.type = WipeTypes[wiped + 1] /\ store[target][k] # 0}
    /\ wiped' = wiped + 1
    /\ pc' = "delete"
    /\ UNCHANGED <<store, push, target, batches, attempt, total, skipped, late, faults>>

\* except Exception: continue -- a type that cannot be read is skipped.
ReadFails ==
    /\ pc = "wipe" /\ wiped < Len(WipeTypes)
    /\ Fault("read")
    /\ wiped' = wiped + 1
    /\ skipped' = skipped \cup {WipeTypes[wiped + 1]}
    /\ UNCHANGED <<store, push, target, pc, ids, batches, attempt, total, late>>

WipeOver ==
    /\ pc = "wipe" /\ wiped = Len(WipeTypes)
    /\ pc' = "import"
    /\ UNCHANGED <<store, push, target, wiped, ids, batches, attempt, total, skipped, late, faults>>

\* One DELETE request of at most BatchSize of the ids that were read.
IsBatch(b) == b \subseteq ids /\ Cardinality(b) = Least(BatchSize, Cardinality(ids))

DeleteBatch(b) ==
    /\ pc = "delete" /\ ids # {} /\ IsBatch(b)
    /\ Written(Delete(b))
    /\ ids' = ids \ b
    /\ UNCHANGED <<push, target, pc, wiped, batches, attempt, total, skipped>>

\* A failing DELETE is not retried: the exception leaves push_model.
DeleteFails(b) ==
    /\ pc = "delete" /\ ids # {} /\ IsBatch(b)
    /\ WriteFails(Delete(b))
    /\ pc' = "failed"
    /\ UNCHANGED <<push, target, wiped, ids, batches, attempt, total, skipped>>

TypeWiped ==
    /\ pc = "delete" /\ ids = {}
    /\ pc' = "wipe"
    /\ UNCHANGED <<store, push, target, wiped, ids, batches, attempt, total, skipped, late, faults>>

\* flush: the reply's committed flag is not looked at.
FlushOk ==
    /\ pc = "import" /\ batches # <<>>
    /\ Written(Insert(Head(batches), push))
    /\ total' = total + Cardinality(Head(batches))
    /\ batches' = Tail(batches)
    /\ attempt' = 0
    /\ UNCHANGED <<push, target, pc, wiped, ids, skipped>>

\* Mutant of FlushFails: a batch that keeps failing is left out.
FlushFailsLeavesOut ==
    /\ pc = "import" /\ batches # <<>>
    /\ WriteFails(Insert(Head(batches), push))
    /\ attempt' = (attempt + 1) % MaxAttempts
    /\ batches' = IF attempt' = 0 THEN Tail(batches) ELSE batches
    /\ UNCHANGED <<push, target, pc, wiped, ids, total, skipped>>

\* flush: a failing Write is tried again, MaxAttempts times in all.
FlushFails ==
    /\ pc = "import" /\ batches # <<>>
    /\ WriteFails(Insert(Head(batches), push))
    /\ attempt' = attempt + 1
    /\ pc' = IF attempt' = MaxAttempts THEN "failed" ELSE pc
    /\ UNCHANGED <<push, target, wiped, ids, batches, total, skipped>>

Return ==
    /\ pc = "import" /\ batches = <<>>
    /\ pc' = "done"
    /\ UNCHANGED <<store, push, target, wiped, ids, batches, attempt, total, skipped, late, faults>>

-----------------------------------------------------------------------------
Init ==
    /\ \E d \in SUBSET Derivers :
          store = [t \in Targets |->
                     [k \in Keys |->
                        IF k \in ModelKeys(1) \/ \E e \in d \cap ModelKeys(1) : k = DerivedKey[e]
                        THEN 1 ELSE 0]]
    /\ push = 1 /\ target = "ephemeral" /\ pc = "idle"
    /\ wiped = 0 /\ ids = {} /\ skipped = {}
    /\ batches = <<>> /\ attempt = 0 /\ total = 0
    /\ late = {} /\ faults = <<>>

Next ==
    \/ \E t \in Targets, wipe_first \in WipeChoices : Start(t, wipe_first)
    \/ ReadIds \/ ReadFails \/ WipeOver
    \/ \E b \in SUBSET ids : DeleteBatch(b) \/ DeleteFails(b)
    \/ TypeWiped \/ FlushOk \/ FlushFails \/ Return
    \/ \E r \in late : ServeLate(r)
    \/ \E k \in Derivers : Derive(k)

Spec == Init /\ [][Next]_vars

-----------------------------------------------------------------------------
(***************************************************************************)
(* Properties                                                              *)
(***************************************************************************)
Pushes == 1 .. Len(Models)

Requests == [op : {"INSERT", "DELETE"}, keys : SUBSET Keys,
             push : 0 .. Len(Models), target : Targets]

TypeOK ==
    /\ store \in [Targets -> [Keys -> 0 .. Len(Models)]]
    /\ push \in Pushes /\ target \in Targets
    /\ pc \in {"idle", "wipe", "delete", "import", "done", "failed"}
    /\ wiped \in 0 .. Len(WipeTypes)
    /\ ids \subseteq Keys
    /\ batches \in Seq(SUBSET Keys)
    /\ attempt \in 0 .. MaxAttempts /\ total \in Nat
    /\ skipped \subseteq RangeOf(WipeTypes)
    /\ late \subseteq Requests
    /\ faults \in Seq(Faults) /\ Len(faults) <= MaxFaults

\* No push, and no request a push left behind, changes a row of a protected
\* instance (PROTECTED_TARGETS: "read-only").
PermanentUntouched == [][store'["permanent"] = store["permanent"]]_vars

Mine(k)    == store["ephemeral"][k] = push
Foreign(k) == store["ephemeral"][k] \notin {0, push}

\* A push that wiped first has returned, and no request is applied out of turn.
Returned == pc = "done" /\ wiped = Len(WipeTypes) /\ "late" \notin RangeOf(faults)

\* A wiping push that returns leaves one model on the instance: "the current rows
\* are deleted before the import so the instance serves exactly one model"
\* (push_model's docstring), rows derived meanwhile included.
OneModel == Returned => \A k \in Keys : ~Foreign(k)

\* Whatever fails, a row of another model survives a finished push only where
\* its type could not be read, or where it was derived again from such a row:
\* if everything could be read, the instance serves exactly one model.
LeftoversAreOfUnreadTypes ==
    Returned =>
        \A k \in Keys : Foreign(k) =>
            \/ k.type \in skipped
            \/ \E e \in Derivers : DerivedKey[e] = k /\ e.type \in skipped

\* A push that read every type has put every row of its model on the instance
\* when it returns, also when replies were lost and the retried INSERT met its
\* own rows, and it has counted each of them once ("{total} rows on {target}",
\* the explorer's success message).
WholeModel ==
    Returned /\ skipped = {} =>
        /\ \A k \in ModelKeys(push) : Mine(k)
        /\ total = Cardinality(ModelKeys(push))

=============================================================================
