--------------------------------- MODULE MCDeps ---------------------------------
(***************************************************************************)
(* Three parts of the clients that meet a world outside the kernel: the    *)
(* key files of the stores (KeyFile), the packages being installed (Deps)  *)
(* and the rows of an instance that is loaded (EphemeralLoad).  They share *)
(* nothing, so a behaviour is one of one part.                             *)
(*                                                                         *)
(* Surfaces that can be installed: the one the client requires, Model with *)
(* a newer and an older root, and the raw Store.                           *)
(***************************************************************************)
EXTENDS KeyFile, Integers

CONSTANTS
    NRoots,
    Sizes, MaxRuns, MaxFaults

VARIABLES
    part,
    installed, grpc_there, root, grpc, flags, exported, probe, goal, at, store, report, sought,
    target, wanted, rows, run, load, todo, faults, late, disturbed

MCNRoots ==
    [s \in {"AUTH", "NBI", "PROVISIONING", "MODEL", "NMTS", "STORAGE"} |->
        CASE s \in {"AUTH", "STORAGE"} -> 1 [] s = "MODEL" -> 2 [] OTHER -> 0]

Pkgs == INSTANCE Deps WITH pc <- probe
Load == INSTANCE EphemeralLoad WITH pc <- load

ASSUME PartsAssumption ==
    KeyFileAssumption /\ Pkgs!DepsAssumption /\ Load!EphemeralLoadAssumption

-----------------------------------------------------------------------------
MCInit ==
    /\ part \in {"deps", "keys", "load"}
    /\ Init /\ Pkgs!Init /\ Load!Init
    /\ part # "keys" => modern
    /\ part # "deps" => grpc_there
    /\ part # "load" => target = "ephemeral" /\ wanted = 2 /\ rows[1] = 0

deps_vars ==
    <<installed, grpc_there, root, grpc, flags, exported, probe, goal, at, store, report, sought>>
load_vars == <<target, wanted, rows, run, load, todo, faults, late, disturbed>>
MCvars == <<part, vars, deps_vars, load_vars>>

KeysStep == part = "keys" /\ Next /\ UNCHANGED <<part, deps_vars, load_vars>>
DepsStep == part = "deps" /\ Pkgs!Next /\ UNCHANGED <<part, vars, load_vars>>
LoadStep(A) == part = "load" /\ A /\ UNCHANGED <<part, vars, deps_vars>>

MCNext == KeysStep \/ DepsStep \/ LoadStep(Load!Next)

\* The fairness of the cell (EphemeralLoad); the others need none.
MCSpec == MCInit /\ [][MCNext]_MCvars /\ WF_MCvars(LoadStep(Load!Step))

-----------------------------------------------------------------------------
(***************************************************************************)
(* The properties are those of the three modules, stated there.            *)
(***************************************************************************)
\* Deps: what could be imported when reprobe was called is found when it returns.
ReprobePicksUp == Pkgs!ReprobePicksUp

\* EphemeralLoad: a load that ends is whole and of one run.
LoadedIsOneLoad == Load!LoadedIsOneLoad

\* EphemeralLoad: a run nothing disturbs loads.
RerunLoads == part = "load" => Load!RerunLoads
=============================================================================
