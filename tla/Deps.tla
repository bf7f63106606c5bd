---------------------------------- MODULE Deps ----------------------------------
(***************************************************************************)
(* The optional packages (spacetime/_deps.py) and the clients that are     *)
(* built on them, while packages are being installed into the running      *)
(* kernel.  A surface has one or more import roots, tried newest first;    *)
(* root[s] = r stands for HAS_s, s_ROOT and the imported modules together, *)
(* root[s] = 0 for a surface that was not found.                           *)
(***************************************************************************)
EXTENDS Integers, Sequences

CONSTANTS
    NRoots      \* NRoots[s]: import roots of surface s that can be installed

\* The order of _probe; grpc comes last.
ProbeOrder == <<"AUTH", "NBI", "PROVISIONING", "MODEL", "NMTS", "STORAGE">>
Surfaces == {ProbeOrder[i] : i \in DOMAIN ProbeOrder}

DepsAssumption == NRoots \in [Surfaces -> Nat]

Nowhere == 0

\* Surfaces imported as a pair <pb2, pb2_grpc>; the second one imports grpc.
Paired == {"NBI", "PROVISIONING", "MODEL", "STORAGE"}

\* Surfaces for which GrpcEntityStore makes a stub.
Stubs == {"NBI", "PROVISIONING", "MODEL"}

\* What can be installed: <s, r, "pb2"> has the messages, <s, r, "grpc"> the rest.
Modules ==
    UNION {{s} \X (1 .. NRoots[s]) \X (IF s \in Paired THEN {"pb2", "grpc"} ELSE {"pb2"}) :
            s \in Surfaces}

VARIABLES
    installed,      \* modules of the interpreter's path
    grpc_there,     \* whether the package grpc is on the path
    root,           \* the globals of _deps
    grpc,           \* _deps.grpc is not None
    flags,          \* _FLAGS
    exported,       \* the flags the package spacetime imported by value
    pc,             \* "probe", "idle", "build", "raised"
    goal,           \* what the kernel is doing: "import", "reprobe", "grpc_store",
                    \* "probe_endpoint" or "raw_store"
    at,             \* the import _probe tries next: [i, r] in ProbeOrder and its roots
    store,          \* stubs of the GrpcEntityStore built last
    report,         \* the report of probe_endpoint
    sought          \* history: what the path held when the handler started

path == <<installed, grpc_there>>
globals == <<root, grpc, flags, exported>>
vars == <<path, globals, pc, goal, at, store, report, sought>>

Flags == [s \in Surfaces |-> root[s] # Nowhere]

Importable(s, r) ==
    /\ <<s, r, "pb2">> \in installed
    /\ s \in Paired => <<s, r, "grpc">> \in installed /\ grpc_there

\* The newest root of each surface that can be imported now.
Newest ==
    [s \in Surfaces |->
        LET found == {r \in 1 .. NRoots[s] : Importable(s, r)}
        IN  IF found = {} THEN Nowhere ELSE CHOOSE r \in found : \A q \in found : r <= q]

-----------------------------------------------------------------------------
\* pip, in another process, puts one module after the other on the path.
Install(m) ==
    /\ m \notin installed
    /\ installed' = installed \cup {m}
    /\ UNCHANGED <<grpc_there, globals, pc, goal, at, store, report, sought>>

InstallGrpc ==
    /\ ~grpc_there
    /\ grpc_there' = TRUE
    /\ UNCHANGED <<installed, globals, pc, goal, at, store, report, sought>>

-----------------------------------------------------------------------------
Next1(i) == [i |-> i + 1, r |-> 1]

\* Mutant of TryRoot: an import that fails ends the search for the surface.
TryRootOnce ==
    /\ pc = "probe" /\ at.i <= Len(ProbeOrder)
    /\ LET s == ProbeOrder[at.i]
       IN  root' = [root EXCEPT ![s] = IF Importable(s, at.r) THEN at.r ELSE Nowhere]
    /\ at' = Next1(at.i)
    /\ UNCHANGED <<path, grpc, flags, exported, pc, goal, store, report, sought>>

\* One guarded import.
TryRoot ==
    /\ pc = "probe" /\ at.i <= Len(ProbeOrder)
    /\ LET s == ProbeOrder[at.i]
       IN  \/ /\ Importable(s, at.r)
              /\ root' = [root EXCEPT ![s] = at.r]
              /\ at' = Next1(at.i)
           \/ /\ ~Importable(s, at.r) /\ at.r < NRoots[s]
              /\ root' = [root EXCEPT ![s] = Nowhere]
              /\ at' = [at EXCEPT !.r = at.r + 1]
           \/ /\ ~Importable(s, at.r) /\ at.r >= NRoots[s]
              /\ root' = [root EXCEPT ![s] = Nowhere]
              /\ at' = Next1(at.i)
    /\ UNCHANGED <<path, grpc, flags, exported, pc, goal, store, report, sought>>

Needs(g) == IF g = "raw_store" THEN "STORAGE" ELSE "AUTH"

\* Where a handler goes on when its probe has returned.
After(g, fresh) ==
    IF g \in {"import", "reprobe"} THEN "idle"
    ELSE IF fresh[Needs(g)] THEN "build" ELSE "raised"

\* Mutant of TryGrpc: grpc is imported once, with the module.
TryGrpcOnce ==
    /\ pc = "probe" /\ at.i > Len(ProbeOrder)
    /\ grpc' = IF goal = "import" THEN grpc_there ELSE grpc
    /\ flags' = Flags
    /\ exported' = IF goal = "import" THEN Flags ELSE exported
    /\ pc' = After(goal, Flags)
    /\ UNCHANGED <<path, root, goal, at, store, report, sought>>

\* The last import; _FLAGS is made anew, and at import the package copies it.
TryGrpc ==
    /\ pc = "probe" /\ at.i > Len(ProbeOrder)
    /\ grpc' = grpc_there
    /\ flags' = Flags
    /\ exported' = IF goal = "import" THEN Flags ELSE exported
    /\ pc' = After(goal, Flags)
    /\ UNCHANGED <<path, root, goal, at, store, report, sought>>

-----------------------------------------------------------------------------
Reprobe ==
    /\ pc = "idle"
    /\ pc' = "probe" /\ goal' = "reprobe"
    /\ at' = [i |-> 1, r |-> 1]
    /\ sought' = Newest
    /\ UNCHANGED <<path, globals, store, report>>

\* A constructor starts with require(); probe_endpoint reads the flags before.
Require(g) ==
    /\ pc = "idle"
    /\ goal' = g
    /\ pc' = IF flags[Needs(g)] THEN "build" ELSE "probe"
    /\ at' = [i |-> 1, r |-> 1]
    /\ report' = IF g = "probe_endpoint" THEN [flags |-> Flags, built |-> FALSE] ELSE report
    /\ sought' = Newest
    /\ UNCHANGED <<path, globals, store>>

\* GrpcEntityStore.__init__ after its channel: stubs for the surfaces there are.
BuildStore ==
    /\ pc = "build" /\ goal \in {"grpc_store", "probe_endpoint"}
    /\ store' = [s \in Stubs |-> root[s]]
    /\ report' = IF goal = "probe_endpoint" THEN [report EXCEPT !.built = TRUE] ELSE report
    /\ pc' = "idle"
    /\ UNCHANGED <<path, globals, goal, at, sought>>

\* The channel cannot be made: key, credentials or connection.
BuildFails ==
    /\ pc = "build" /\ goal \in {"grpc_store", "probe_endpoint"}
    /\ pc' = "raised"
    /\ UNCHANGED <<path, globals, goal, at, store, report, sought>>

\* StorageEntityStore.__init__ after require(): it raises without grpc.
BuildRawStore ==
    /\ pc = "build" /\ goal = "raw_store"
    /\ pc' = IF grpc THEN "idle" ELSE "raised"
    /\ UNCHANGED <<path, globals, goal, at, store, report, sought>>

\* The exception leaves the constructor; the kernel takes the next cell.
Raise ==
    /\ pc = "raised"
    /\ pc' = "idle"
    /\ UNCHANGED <<path, globals, goal, at, store, report, sought>>

-----------------------------------------------------------------------------
\* The package is imported; until _probe has run, nothing has been found.
Init ==
    /\ installed = {} /\ grpc_there \in BOOLEAN
    /\ root = [s \in Surfaces |-> Nowhere] /\ grpc = FALSE
    /\ flags = [s \in Surfaces |-> FALSE] /\ exported = flags
    /\ pc = "probe" /\ goal = "import" /\ at = [i |-> 1, r |-> 1]
    /\ store = [s \in Stubs |-> Nowhere]
    /\ report = [flags |-> flags, built |-> FALSE]
    /\ sought = [s \in Surfaces |-> Nowhere]

Next ==
    \/ \E m \in Modules : Install(m)
    \/ InstallGrpc
    \/ TryRoot \/ TryGrpc \/ Reprobe
    \/ \E g \in {"grpc_store", "probe_endpoint", "raw_store"} : Require(g)
    \/ BuildStore \/ BuildFails \/ BuildRawStore \/ Raise

Spec == Init /\ [][Next]_vars

-----------------------------------------------------------------------------
(***************************************************************************)
(* Properties                                                              *)
(***************************************************************************)
TypeOK ==
    /\ installed \subseteq Modules /\ grpc_there \in BOOLEAN
    /\ \A s \in Surfaces : root[s] \in 0 .. NRoots[s] /\ sought[s] \in 0 .. NRoots[s]
    /\ grpc \in BOOLEAN
    /\ flags \in [Surfaces -> BOOLEAN] /\ exported \in [Surfaces -> BOOLEAN]
    /\ pc \in {"probe", "idle", "build", "raised"}
    /\ goal \in {"import", "reprobe", "grpc_store", "probe_endpoint", "raw_store"}
    /\ at.i \in 1 .. Len(ProbeOrder) + 1 /\ at.r \in Nat \ {0}
    /\ at.i <= Len(ProbeOrder) /\ at.r > 1 => at.r <= NRoots[ProbeOrder[at.i]]
    /\ \A s \in Stubs : store[s] \in 0 .. NRoots[s]
    /\ report \in [flags : [Surfaces -> BOOLEAN], built : BOOLEAN]

\* "a re-probe picks up a newly-installed package without a kernel restart": what
\* could be imported when reprobe was called is found when it returns, from that
\* root or a newer one, whatever else is being installed meanwhile; and with it
\* grpc, if its stubs need it.
ReprobePicksUp ==
    pc = "idle" /\ goal = "reprobe" =>
        \A s \in Surfaces : sought[s] # Nowhere =>
            /\ root[s] # Nowhere /\ root[s] <= sought[s] /\ flags[s]
            /\ s \in Paired => grpc

\* Whoever holds stubs has grpc: "grpcio is not installed" is never said of a
\* kernel that has the Store's stubs.
StubsHaveGrpc ==
    pc # "probe" => \A s \in Paired : root[s] # Nowhere => grpc

\* A surface that was found stays: no later probe, in an interpreter to which
\* packages are only added, takes it away.
FlagsNeverFall == [][\A s \in Surfaces : flags[s] => flags'[s]]_vars

=============================================================================
