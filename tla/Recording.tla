------------------------------- MODULE Recording -------------------------------
(***************************************************************************)
(* record() takes a snapshot of a store's read surface into a JSON file,   *)
(* RecordedEntityStore replays it.  The three reads are separate calls: a  *)
(* live store can change, and any of them can fail, in between.            *)
(***************************************************************************)
EXTENDS NmtsAdapter

CONSTANTS
    Ids,                \* ids of the platforms of the store
    Motions,            \* motions a platform can have: sequences of [arm, kepler]
    AntennaId,          \* id of the antenna they may contain
    IntentStates,       \* states an intent can have
    StateNumber,        \* StateNumber[s]: the enum number of a state
    MaxChanges,         \* bound: changes of the store during the behaviour
    Torn                \* content of a file that was truncated and not written

KeplerElements ==
    [a : DOMAIN MeanMotion, ecc : DOMAIN MeanAnomaly, nu : 0 .. Circle - 1, epoch : Int]

ASSUME RecordingAssumption ==
    /\ IsFiniteSet(Ids) /\ None \notin KeplerElements
    /\ \A s, t \in IntentStates : StateNumber[s] = StateNumber[t] => s = t
    /\ Motions \subseteq Seq([arm : {"keplerian_elements"}, kepler : KeplerElements]
                                \cup [arm : {"geodetic_wgs84"}, kepler : {None}])

VARIABLES
    stored_as,      \* what the store returns: "dict" (a fixture), "proto" (a live one)
    platforms,      \* platforms[id]: [motion, external], None if not there
    rels,           \* relationships of the store
    intents,        \* intents[i]: state of intent i
    changes,
    pc,             \* "idle", "relationships", "intents", "open", "write"
    data,           \* what record() has read so far, projected
    file,           \* the snapshot: None (no file), Torn, or a projection
    got             \* history: what the same reads give a direct user of the store

store == <<stored_as, platforms, rels, intents>>
vars == <<store, changes, pc, data, file, got>>

-----------------------------------------------------------------------------
(***************************************************************************)
(* What the store returns, in its own representation.                      *)
(***************************************************************************)
AsStored(repr, id, p) ==
    [id |-> id, kind |-> "ek_platform", repr |-> repr, external |-> p.external,
     motion |-> [n \in DOMAIN p.motion |->
                   [repr |-> repr, arm |-> p.motion[n].arm, kepler |-> p.motion[n].kepler]]]

Listed(repr) ==
    LET present == SetToSeq({id \in Ids : platforms[id] # None})
    IN  [i \in DOMAIN present |-> AsStored(repr, present[i], platforms[present[i]])]

StateAsStored(s) == IF stored_as = "proto" THEN StateNumber[s] ELSE s

IntentsAsStored(states) == [i \in DOMAIN states |-> [id |-> i, state |-> StateAsStored(states[i])]]

\* list_intents(states=[s]): the live store maps the enum number back to its
\* name, MemoryEntityStore compares the field as it is.
WithState(states, s) == {i \in DOMAIN states : states[i] = s}

MemoryWithState(recorded, s) == {i \in DOMAIN recorded : recorded[i].state = s}

-----------------------------------------------------------------------------
(***************************************************************************)
(* record.                                                                 *)
(***************************************************************************)
\* Mutant of ProjectEntry: entries of other kinds are left out.
ProjectEntryKeplerOnly(entry) ==
    [repr |-> "dict", arm |-> "keplerian_elements",
     kepler |-> IF GetKepler(entry) = None THEN DefaultKepler ELSE GetKepler(entry)]

ProjectEntry(entry) ==
    IF GetKepler(entry) # None
    THEN [repr |-> "dict", arm |-> "keplerian_elements", kepler |-> GetKepler(entry)]
    ELSE [repr |-> "dict", arm |-> "motion_kind", kepler |-> None]

ProjectEntity(e) ==
    [id |-> e.id, kind |-> e.kind, repr |-> "dict", external |-> TruthyExternal(e),
     motion |-> [n \in DOMAIN e.motion |-> ProjectEntry(e.motion[n])]]

ReadEntities ==
    /\ pc = "idle"
    /\ data' = [entities |-> [i \in DOMAIN Listed(stored_as) |-> ProjectEntity(Listed(stored_as)[i])],
                relationships |-> {}, intents |-> <<>>]
    /\ got' = [entities |-> Listed(stored_as), relationships |-> {}, states |-> <<>>]
    /\ pc' = "relationships"
    /\ UNCHANGED <<store, changes, file>>

ReadRelationships ==
    /\ pc = "relationships"
    /\ data' = [data EXCEPT !.relationships = rels]
    /\ got' = [got EXCEPT !.relationships = rels]
    /\ pc' = "intents"
    /\ UNCHANGED <<store, changes, file>>

ReadIntents ==
    /\ pc = "intents"
    /\ data' = [data EXCEPT !.intents = IntentsAsStored(intents)]
    /\ got' = [got EXCEPT !.states = intents]
    /\ pc' = "open"
    /\ UNCHANGED <<store, changes, file>>

\* A read raises: the file has not been opened yet.
ReadFails ==
    /\ pc \in {"relationships", "intents"}
    /\ pc' = "idle" /\ data' = None
    /\ UNCHANGED <<store, changes, file, got>>

\* open(path, "w") truncates.
Open ==
    /\ pc = "open"
    /\ file' = Torn
    /\ pc' = "write"
    /\ UNCHANGED <<store, changes, data, got>>

Dump ==
    /\ pc = "write"
    /\ file' = data
    /\ pc' = "idle" /\ data' = None
    /\ UNCHANGED <<store, changes, got>>

DumpFails ==
    /\ pc = "write"
    /\ pc' = "idle" /\ data' = None
    /\ UNCHANGED <<store, changes, file, got>>

\* The live store goes on: a platform disappears with its relationships, or an
\* intent changes state.
StoreChanges ==
    /\ changes < MaxChanges
    /\ changes' = changes + 1
    /\ \/ \E id \in Ids :
            /\ platforms[id] # None
            /\ platforms' = [platforms EXCEPT ![id] = None]
            /\ rels' = {r \in rels : r.a # id}
            /\ UNCHANGED <<stored_as, intents>>
       \/ \E i \in DOMAIN intents, s \in IntentStates :
            /\ intents[i] # s
            /\ intents' = [intents EXCEPT ![i] = s]
            /\ UNCHANGED <<stored_as, platforms, rels>>
    /\ UNCHANGED <<pc, data, file, got>>

-----------------------------------------------------------------------------
RkContains(id) == [kind |-> "rk_contains", a |-> id, z |-> AntennaId]

Init ==
    /\ stored_as \in {"dict", "proto"}
    /\ platforms \in [Ids -> [motion : Motions, external : BOOLEAN] \cup {None}]
    /\ \E owners \in SUBSET {id \in Ids : platforms[id] # None} :
          rels = {RkContains(id) : id \in owners}
    /\ intents \in [1 .. 1 -> IntentStates]
    /\ changes = 0 /\ pc = "idle" /\ data = None /\ file = None /\ got = None

Next ==
    \/ ReadEntities \/ ReadRelationships \/ ReadIntents \/ ReadFails
    \/ Open \/ Dump \/ DumpFails \/ StoreChanges

Spec == Init /\ [][Next]_vars

-----------------------------------------------------------------------------
(***************************************************************************)
(* Properties                                                              *)
(***************************************************************************)
Replayed(f) == platforms_to_elements(f.entities, f.relationships, None, FALSE)
Live == platforms_to_elements(got.entities, got.relationships, None, FALSE)

\* What is served at t of one platform asked for by itself, external or not.
OnePlatform(reads, n, t) ==
    platforms_to_elements(<<reads.entities[n]>>, reads.relationships, t, TRUE)

TypeOK ==
    /\ stored_as \in {"dict", "proto"}
    /\ \A id \in Ids : platforms[id] = None \/ platforms[id].motion \in Motions
    /\ \A r \in rels : platforms[r.a] # None
    /\ changes \in 0 .. MaxChanges
    /\ pc \in {"idle", "relationships", "intents", "open", "write"}
    /\ data = None <=> pc = "idle"

\* "Epoch reconciliation": the elements describe one constellation whatever
\* epoch they are asked for; asked for two epochs they differ by the motion
\* in between.  And "the adapter runs identically on real protobuf messages AND
\* on plain JSON dicts" (_access.py), now and when they were read.
EpochsReconciled ==
    /\ got # None =>
          \A t, u \in 0 .. 2 :
             platforms_to_elements(got.entities, got.relationships, u, FALSE).elems =
             Propagated(platforms_to_elements(got.entities, got.relationships, t, FALSE).elems, u - t)
    /\ \A t \in {None} \cup 0 .. 2 :
          platforms_to_elements(Listed("proto"), rels, t, FALSE) =
          platforms_to_elements(Listed("dict"), rels, t, FALSE)

\* What a recording keeps, of dictionaries and of messages: a Keplerian platform has
\* in the replay the elements and antennas it had in the store, at every epoch; the
\* replay serves no platform the store did not, the probe announces as many as it
\* serves, and an intent is found by the state the store returned.  Of dictionaries
\* it keeps everything: the elements, antennas, skips and intents.
ReplayIsLive ==
    pc = "open" =>
        /\ DOMAIN data.entities = DOMAIN got.entities
        /\ \A n \in DOMAIN got.entities, t \in {None} \cup 0 .. 2 :
              FirstKepler(got.entities[n]) # None =>
                 OnePlatform(data, n, t) = OnePlatform(got, n, t)
        /\ ToSet(Replayed(data).meta) \subseteq ToSet(Live.meta)
        /\ probe_served(data.entities) = Len(Replayed(data).elems)
        /\ \A s \in IntentStates :
              MemoryWithState(data.intents, StateAsStored(s)) = WithState(got.states, s)
        /\ stored_as = "dict" => Replayed(data) = Live

\* "identical read surface, offline" (RecordedEntityStore), of every store: of messages
\* what is unset reads as there, and the projection keeps that.
ReplayIsIdentical == pc = "open" => Replayed(data) = Live
=============================================================================
