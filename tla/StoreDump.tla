------------------------------- MODULE StoreDump -------------------------------
(***************************************************************************)
(* dump_live_store: three reads of a living Store written to group files,  *)
(* one after the other, the manifest last; and the fallback of the         *)
(* explorer's pull, which reads the group files without the manifest.      *)
(*                                                                         *)
(* A row is a record [id, type, kind].  Kinds are numbered in the order of *)
(* their names within a type; kind 0 is "unset".  A file is what an open   *)
(* for writing makes of it: Torn until the text is there.                  *)
(***************************************************************************)
EXTENDS Integers, FiniteSets

CONSTANTS
    Rows,           \* rows the Store may hold
    Contains,       \* the kind of relationship the fallback reads
    MaxDumps,       \* bound: dumps of one behaviour
    None, Torn

Types == 1 .. 3     \* INTENT, NMTS_ENTITY, NMTS_RELATIONSHIP: the order of the reads
Groups == {[type |-> r.type, kind |-> r.kind] : r \in Rows}

\* What a group file and a manifest hold.
FileTexts == [rows : SUBSET Rows, dump : 1 .. MaxDumps]
ManifestTexts ==
    [dump : 1 .. MaxDumps, groups : UNION {[S -> 0 .. Cardinality(Rows)] : S \in SUBSET Groups}]

StoreDumpAssumption ==
    /\ IsFiniteSet(Rows)
    /\ \A r \in Rows : r.type \in Types /\ r.kind \in Nat
    /\ Contains \in Nat /\ MaxDumps \in Nat
    /\ None # Torn /\ {None, Torn} \cap (Groups \cup FileTexts \cup ManifestTexts) = {}

VARIABLES
    store,      \* rows of the instance
    pc,         \* "idle", "reading", "writing", "manifest", "done", "dead"
    dump,       \* number of this dump, which stands for its time (now)
    type,       \* the type read last
    by_kind,    \* rows of it that are still to be written
    open,       \* the group whose file was opened last, or None
    groups,     \* the manifest in memory: the number of rows of each group
    files,      \* files[g]: [rows, dump], Torn or None
    manifest,   \* manifest.json: [dump, groups], Torn or None
    read        \* the rows this dump read

disk == <<files, manifest>>
run == <<pc, dump, type, by_kind, open, groups, read>>
vars == <<store, run, disk>>

InGroup(rows, g) == {r \in rows : r.type = g.type /\ r.kind = g.kind}

-----------------------------------------------------------------------------
\* The instance goes on meanwhile (external).
Change(r) ==
    /\ store' = IF r \in store THEN store \ {r} ELSE store \cup {r}
    /\ UNCHANGED <<run, disk>>

Start ==
    /\ pc \in {"idle", "done", "dead"} /\ dump < MaxDumps
    /\ pc' = "reading" /\ dump' = dump + 1 /\ type' = 1
    /\ by_kind' = {} /\ open' = None /\ read' = {}
    /\ groups' = [g \in {} |-> 0]
    /\ UNCHANGED <<store, disk>>

\* _get_entities of one type, split by kind.
Read ==
    /\ pc = "reading"
    /\ by_kind' = {r \in store : r.type = type}
    /\ read' = read \cup by_kind'
    /\ pc' = "writing"
    /\ UNCHANGED <<store, dump, type, open, groups, disk>>

\* Groups of the type read, in the order of their names.
NextGroup(g) ==
    /\ pc = "writing" /\ open = None
    /\ InGroup(by_kind, g) # {}
    /\ \A r \in by_kind : g.kind <= r.kind

\* Mutant of OpenGroup: a group that has a file is not written again.
OpenGroupOnce(g) ==
    /\ NextGroup(g)
    /\ IF files[g] = None
       THEN /\ open' = g /\ files' = [files EXCEPT ![g] = Torn]
            /\ UNCHANGED <<by_kind, groups>>
       ELSE /\ by_kind' = by_kind \ InGroup(by_kind, g)
            /\ groups' = [h \in (DOMAIN groups) \cup {g} |->
                             IF h = g THEN Cardinality(InGroup(by_kind, g)) ELSE groups[h]]
            /\ UNCHANGED <<open, files>>
    /\ UNCHANGED <<store, pc, dump, type, manifest, read>>

\* open(path, "w") in _write_group
OpenGroup(g) ==
    /\ NextGroup(g)
    /\ open' = g /\ files' = [files EXCEPT ![g] = Torn]
    /\ UNCHANGED <<store, pc, dump, type, by_kind, groups, manifest, read>>

\* The text is written, and the group entered in the manifest.
WriteGroup ==
    /\ pc = "writing" /\ open # None
    /\ LET rows == InGroup(by_kind, open)
       IN  /\ files' = [files EXCEPT ![open] = [rows |-> rows, dump |-> dump]]
           /\ groups' = [g \in (DOMAIN groups) \cup {open} |->
                            IF g = open THEN Cardinality(rows) ELSE groups[g]]
           /\ by_kind' = by_kind \ rows
    /\ open' = None
    /\ UNCHANGED <<store, pc, dump, type, manifest, read>>

TypeDone ==
    /\ pc = "writing" /\ by_kind = {}
    /\ IF type < 3 THEN pc' = "reading" /\ type' = type + 1
                   ELSE pc' = "manifest" /\ UNCHANGED type
    /\ UNCHANGED <<store, dump, by_kind, open, groups, read, disk>>

OpenManifest ==
    /\ pc = "manifest" /\ open = None
    /\ manifest' = Torn /\ open' = Torn
    /\ UNCHANGED <<store, pc, dump, type, by_kind, groups, files, read>>

WriteManifest ==
    /\ pc = "manifest" /\ open = Torn
    /\ manifest' = [dump |-> dump, groups |-> groups]
    /\ pc' = "done" /\ open' = None
    /\ UNCHANGED <<store, dump, type, by_kind, groups, files, read>>

\* A read or a write raises, or the process is killed.
Dies ==
    /\ pc \in {"reading", "writing", "manifest"}
    /\ pc' = "dead" /\ open' = None
    /\ UNCHANGED <<store, dump, type, by_kind, groups, read, disk>>

Init ==
    /\ store \in SUBSET Rows
    /\ pc = "idle" /\ dump = 0 /\ type = 1 /\ by_kind = {} /\ open = None
    /\ groups = [g \in {} |-> 0] /\ read = {}
    /\ files = [g \in Groups |-> None] /\ manifest = None

Next ==
    \/ \E r \in Rows : Change(r)
    \/ \E g \in Groups : OpenGroup(g)
    \/ Start \/ Read \/ WriteGroup \/ TypeDone \/ OpenManifest \/ WriteManifest \/ Dies

Spec == Init /\ [][Next]_vars

-----------------------------------------------------------------------------
(***************************************************************************)
(* What the directory says to a reader.                                    *)
(***************************************************************************)
\* The files the fallback's two patterns match: entities_ek_*.txtpb, which
\* leaves out "unset", and relationships_rk_contains.txtpb.
Pattern == {g \in Groups : (g.type = 2 /\ g.kind # 0) \/ (g.type = 3 /\ g.kind = Contains)}

Written(g) == files[g] \notin {None, Torn}

\* _load in the explorer: every file that matches, whatever dump it is of.
Load == UNION {files[g].rows : g \in {h \in Pattern : Written(h)}}

\* The same through the manifest.
Listed == {g \in Groups : manifest \notin {None, Torn} /\ g \in DOMAIN manifest.groups}

-----------------------------------------------------------------------------
(***************************************************************************)
(* Properties                                                              *)
(***************************************************************************)
TypeOK ==
    /\ store \subseteq Rows /\ read \subseteq Rows /\ by_kind \subseteq read
    /\ pc \in {"idle", "reading", "writing", "manifest", "done", "dead"}
    /\ dump \in 0 .. MaxDumps /\ type \in Types
    /\ open \in Groups \cup {None, Torn}
    /\ DOMAIN groups \subseteq Groups /\ \A g \in DOMAIN groups : groups[g] > 0
    /\ \A g \in Groups : Written(g) =>
          files[g].rows \subseteq InGroup(Rows, g) /\ files[g].dump \in 1 .. dump
    /\ open \in Groups => files[open] = Torn

\* The manifest of a dump is there, if it can be read, only when the dump is over,
\* and a dump that is over is whole: the files the manifest lists hold exactly
\* the rows it read, each file as many as the manifest counts, and the fallback,
\* which does not look at the manifest, misses none of those it looks for.
DumpIsWhole ==
    /\ manifest \notin {None, Torn} /\ manifest.dump = dump => pc = "done"
    /\ pc = "done" =>
          /\ Listed = DOMAIN groups
          /\ \A g \in Listed : Written(g) /\ Cardinality(files[g].rows) = manifest.groups[g]
          /\ UNION {files[g].rows : g \in Listed} = read
          /\ {r \in read : [type |-> r.type, kind |-> r.kind] \in Pattern} \subseteq Load
=============================================================================
