---------------------------- MODULE ExplorerSession ----------------------------
(***************************************************************************)
(* A notebook session: ConstellationSource (Walker widgets, or a cached    *)
(* pull from an instance's Store) and the LiveCoverageExplorer that        *)
(* re-reads it at every Run and compares the engine with the beam          *)
(* candidates of the instance.                                             *)
(*                                                                         *)
(* The kernel runs one handler at a time, so the widgets a handler reads   *)
(* keep their values while it runs: ui holds them, picked at its start.    *)
(* The instances do not wait for the kernel: other clients rewrite their   *)
(* models and the link predictor derives beam candidates from them between *)
(* any two calls of a handler.                                             *)
(*                                                                         *)
(* A model is a shape and the epoch of its elements (unix seconds; an      *)
(* absent proto epoch is 0, oracle.py).  Only the platforms decide what a  *)
(* pull returns, so the two reads of a pull are one step.                  *)
(***************************************************************************)
EXTENDS Integers

CONSTANTS
    Instances,            \* Store targets
    Protected,            \* those whose writes are refused
    Predictors,           \* those with a link predictor running
    WalkerShapes,         \* shapes the Walker widgets can be set to
    Part,                 \* shape of a model that was pushed or wiped in part
    Epochs,               \* epochs of the models other clients write
    PROVISION_EPOCH_S,    \* element epoch written for Walker shapes
    Dump,                 \* the model of the dump directory, or None
    None

NoEpoch == -1             \* ref_epoch_s has not been set

ExplorerSessionAssumption ==
    /\ Epochs \subseteq Nat /\ PROVISION_EPOCH_S \in Nat \ {0}
    /\ Predictors \subseteq Instances /\ Protected \subseteq Instances
    /\ Part \notin WalkerShapes
    /\ Instances \cap {"walker", "dump"} = {}   \* a target is an address

Shapes == WalkerShapes \cup {Part}
Models == [shape : Shapes, epoch : Epochs \cup {PROVISION_EPOCH_S}]
Modes == {"Walker", "Spacetime"}
Engines == {"Internal engine", "Spacetime oracle"}

VARIABLES
    model,        \* model[i]: the model instance i serves, None: no platforms
    candidates,   \* candidates[i]: the model its beam candidates were predicted from
    pulled,       \* _pulled: [model, from], None: no cached pull
    ref_epoch_s,  \* ConstellationSource.ref_epoch_s
    ui,           \* the widgets read by the running handler
    pc,           \* "idle", or the next step of the running handler
    elems,        \* the elements it works on: [model, from]
    ref,          \* the epoch it takes them at
    pair,         \* _oracle_pair: the two sides of the comparison
    panel,        \* the panel the last handler appended: widgets, elements, Delta tab
    written,      \* history: what the last handler provisioned in full
    touched       \* history: the pulled instance was rewritten since, other
                  \* than by a provisioning this session saw succeed

world   == <<model, candidates>>
cache   == <<pulled, ref_epoch_s>>
handler == <<elems, ref>>
shown   == <<pair, panel>>
vars == <<world, cache, ui, pc, handler, shown, written, touched>>

-----------------------------------------------------------------------------
(***************************************************************************)
(* The instances (external).                                               *)
(***************************************************************************)
PulledFrom(i) == pulled # None /\ pulled.from = i

OtherClientWrites(i, m) ==
    /\ model[i] # m
    /\ model' = [model EXCEPT ![i] = m]
    /\ touched' = (touched \/ PulledFrom(i))
    /\ UNCHANGED <<candidates, cache, ui, pc, handler, shown, written>>

Predict(i) ==
    /\ i \in Predictors
    /\ candidates' = [candidates EXCEPT ![i] = model[i]]
    /\ UNCHANGED <<model, cache, ui, pc, handler, shown, written, touched>>

-----------------------------------------------------------------------------
(***************************************************************************)
(* ConstellationSource.                                                    *)
(***************************************************************************)
\* Python's `x or default`: 0 counts as absent.
OrElse(x, default) == IF x \in {NoEpoch, 0} THEN default ELSE x

\* What a pull can find: the served model or, if the Store cannot be read, the dump.
Found ==
    (IF model[ui.target] = None THEN {} ELSE {[model |-> model[ui.target], from |-> ui.target]})
    \cup (IF Dump = None THEN {} ELSE {[model |-> Dump, from |-> "dump"]})

\* Mutant of PullReturns: the epoch of the first pull is kept.
PullReturnsFirstEpoch(e) ==
    /\ e \in Found \cup {None}
    /\ pulled' = e
    /\ ref_epoch_s' = IF e = None \/ ref_epoch_s # NoEpoch THEN ref_epoch_s ELSE e.model.epoch
    /\ touched' = FALSE

\* _pull: e is the new cache, None when the pull raised; the epoch of an
\* earlier pull then stays.
PullReturns(e) ==
    /\ e \in Found \cup {None}
    /\ pulled' = e
    /\ ref_epoch_s' = IF e = None THEN ref_epoch_s ELSE e.model.epoch
    /\ touched' = FALSE

\* elements(): e is what it returns, None when it raises.
ElementsReturn(e) ==
    \/ /\ ui.mode = "Walker"
       /\ e = [model |-> [shape |-> ui.shape, epoch |-> NoEpoch], from |-> "walker"]
       /\ UNCHANGED <<cache, touched>>
    \/ /\ ui.mode = "Spacetime" /\ pulled # None
       /\ e = pulled
       /\ UNCHANGED <<cache, touched>>
    \/ /\ ui.mode = "Spacetime" /\ pulled = None
       /\ PullReturns(e)

WalkerElements == [model : [shape : WalkerShapes, epoch : {NoEpoch}], from : {"walker"}]
PulledElements == [model : Models, from : Instances \cup {"dump"}]
Elements == WalkerElements \cup PulledElements \cup {None}

\* A click: the handler starts with the widgets as they are.
Click(step, u) ==
    /\ pc = "idle"
    /\ ui' = u /\ pc' = step
    /\ panel' = None /\ written' = None
    /\ UNCHANGED <<world, cache, handler, pair, touched>>

\* The handler is over; nothing of it stays but what it stored on the objects.
Over == pc' = "idle" /\ ui' = None /\ elems' = None /\ ref' = NoEpoch

Pull ==
    /\ pc = "pull"
    /\ \E e \in PulledElements \cup {None} : PullReturns(e)
    /\ Over
    /\ UNCHANGED <<world, shown, written>>

\* Mutant of ProvisionModel: the epoch is read before the elements.
ProvisionModelEpochFirst ==
    /\ pc = "provision"
    /\ \E e \in Elements :
          /\ ElementsReturn(e)
          /\ IF e = None THEN Over
             ELSE /\ elems' = e /\ ref' = OrElse(ref_epoch_s, PROVISION_EPOCH_S)
                  /\ pc' = "push" /\ UNCHANGED ui
    /\ UNCHANGED <<world, shown, written>>

\* _provision up to build_model: the elements first, then their epoch.
ProvisionModel ==
    /\ pc = "provision"
    /\ \E e \in Elements :
          /\ ElementsReturn(e)
          /\ IF e = None THEN Over
             ELSE /\ elems' = e /\ ref' = OrElse(ref_epoch_s', PROVISION_EPOCH_S)
                  /\ pc' = "push" /\ UNCHANGED ui
    /\ UNCHANGED <<world, shown, written>>

Generated == [shape |-> elems.model.shape, epoch |-> ref]

\* Mutant of ProvisionOk: the cached pull stays.
ProvisionOkKeepsPull ==
    /\ pc = "push" /\ ui.target \notin Protected
    /\ model' = [model EXCEPT ![ui.target] = Generated]
    /\ candidates' = [candidates EXCEPT ![ui.target] = None]
    /\ written' = [mode |-> ui.mode, source |-> elems.model, target |-> ui.target, model |-> Generated]
    /\ Over
    /\ UNCHANGED <<cache, shown, touched>>

\* push_model returned: the derived rows are wiped, the cache is dropped.
ProvisionOk ==
    /\ pc = "push" /\ ui.target \notin Protected
    /\ model' = [model EXCEPT ![ui.target] = Generated]
    /\ candidates' = [candidates EXCEPT ![ui.target] = None]
    /\ pulled' = None
    /\ written' = [mode |-> ui.mode, source |-> elems.model, target |-> ui.target, model |-> Generated]
    /\ touched' = FALSE
    /\ Over
    /\ UNCHANGED <<ref_epoch_s, shown>>

\* What a push that raises leaves: anything from nothing done to all done.
LeftBehind(old) ==
    {old, None, Generated, [Generated EXCEPT !.shape = Part]}
    \cup (IF old = None THEN {} ELSE {[old EXCEPT !.shape = Part]})

\* push_model raised: a refused target is untouched; the cache stays.
ProvisionFails ==
    /\ pc = "push"
    /\ \/ UNCHANGED <<model, candidates>>
       \/ /\ ui.target \notin Protected
          /\ \E m \in LeftBehind(model[ui.target]) : model' = [model EXCEPT ![ui.target] = m]
          /\ \E c \in {None, candidates[ui.target]} :
                candidates' = [candidates EXCEPT ![ui.target] = c]
    /\ touched' = (touched \/ (PulledFrom(ui.target) /\ model' # model))
    /\ Over
    /\ UNCHANGED <<cache, shown, written>>

-----------------------------------------------------------------------------
(***************************************************************************)
(* LiveCoverageExplorer.run.                                               *)
(***************************************************************************)
\* _workload_sats: reads the source as well, and swallows its exception.
Workload ==
    /\ pc = "workload"
    /\ \E e \in Elements : ElementsReturn(e)
    /\ pc' = "source"
    /\ UNCHANGED <<world, ui, handler, shown, written>>

\* Mutant of Source: the pair of an earlier run stays.
SourceKeepsPair ==
    /\ pc = "source"
    /\ \E e \in Elements :
          /\ ElementsReturn(e)
          /\ IF e = None THEN Over
             ELSE /\ elems' = e /\ ref' = OrElse(ref_epoch_s', 0)
                  /\ pc' = "oracle" /\ UNCHANGED ui
    /\ UNCHANGED <<world, shown, written>>

\* compute: the elements, the pair of an earlier run dropped, the epoch.
Source ==
    /\ pc = "source"
    /\ \E e \in Elements :
          /\ ElementsReturn(e)
          /\ IF e = None THEN Over /\ UNCHANGED pair
             ELSE /\ elems' = e /\ ref' = OrElse(ref_epoch_s', 0) /\ pair' = None
                  /\ pc' = "oracle" /\ UNCHANGED ui
    /\ UNCHANGED <<world, panel, written>>

NeedsOracle == ui.engine = "Spacetime oracle" \/ ui.compare

Compared == [elems |-> elems, ref |-> ref, target |-> ui.target, oracle |-> candidates[ui.target]]

\* The candidates are read, and compared if asked.
OracleOk ==
    /\ pc = "oracle" /\ NeedsOracle
    /\ candidates[ui.target] # None
    /\ pair' = IF ui.compare THEN Compared ELSE pair
    /\ pc' = "plot"
    /\ UNCHANGED <<world, cache, ui, handler, panel, written, touched>>

\* There are none: a RuntimeError, which only the internal engine survives.
OracleEmpty ==
    /\ pc = "oracle" /\ NeedsOracle
    /\ candidates[ui.target] = None
    /\ IF ui.engine = "Spacetime oracle" THEN Over
       ELSE pc' = "plot" /\ UNCHANGED <<ui, handler>>
    /\ UNCHANGED <<world, cache, shown, written, touched>>

\* The call fails with another exception: the run fails.
OracleFails ==
    /\ pc = "oracle" /\ NeedsOracle
    /\ Over
    /\ UNCHANGED <<world, cache, shown, written, touched>>

NoOracle ==
    /\ pc = "oracle" /\ ~NeedsOracle
    /\ pc' = "plot"
    /\ UNCHANGED <<world, cache, ui, handler, shown, written, touched>>

\* The run's panel, with a Delta tab when there is a pair.
Plot ==
    /\ pc = "plot"
    /\ panel' = [engine |-> ui.engine, compare |-> ui.compare, target |-> ui.target,
                 elems |-> elems, delta |-> pair]
    /\ Over
    /\ UNCHANGED <<world, cache, pair, written, touched>>

-----------------------------------------------------------------------------
Init ==
    /\ model \in [Instances -> Models \cup {None}]
    /\ candidates = [i \in Instances |-> None]
    /\ pulled = None /\ ref_epoch_s = NoEpoch
    /\ ui = None /\ pc = "idle" /\ elems = None /\ ref = NoEpoch
    /\ pair = None /\ panel = None
    /\ written = None /\ touched = FALSE

SourceWidgets == [mode : Modes, shape : WalkerShapes, target : Instances]
RunWidgets == [mode : Modes, shape : WalkerShapes, target : Instances,
               engine : Engines, compare : BOOLEAN]

Next ==
    \/ \E i \in Instances, m \in [shape : Shapes, epoch : Epochs] \cup {None} : OtherClientWrites(i, m)
    \/ \E i \in Instances : Predict(i)
    \/ \E u \in SourceWidgets : Click("pull", u) \/ Click("provision", u)
    \/ \E u \in RunWidgets : Click("workload", u)
    \/ Pull \/ ProvisionModel \/ ProvisionOk \/ ProvisionFails
    \/ Workload \/ Source \/ OracleOk \/ OracleEmpty \/ OracleFails \/ NoOracle \/ Plot

Spec == Init /\ [][Next]_vars

-----------------------------------------------------------------------------
(***************************************************************************)
(* Properties                                                              *)
(***************************************************************************)
Pairs == [elems : Elements \ {None}, ref : Epochs \cup {PROVISION_EPOCH_S, 0},
          target : Instances, oracle : Models]

TypeOK ==
    /\ model \in [Instances -> Models \cup {None}]
    /\ candidates \in [Instances -> Models \cup {None}]
    /\ pulled \in PulledElements \cup {None}
    /\ ref_epoch_s \in Epochs \cup {PROVISION_EPOCH_S, NoEpoch}
    /\ ui \in SourceWidgets \cup RunWidgets \cup {None}
    /\ pc \in {"idle", "pull", "provision", "push", "workload", "source", "oracle", "plot"}
    /\ elems \in Elements /\ ref \in Epochs \cup {PROVISION_EPOCH_S, 0, NoEpoch}
    /\ pair \in Pairs \cup {None}
    /\ touched \in BOOLEAN

\* The cache is what its instance serves unless somebody else rewrote the
\* instance, or a provisioning failed with an error on screen: after a
\* successful one ("force a re-pull of the new model") no run analyses the
\* model that is gone.  And it goes with the epoch of its own elements, through
\* failed pulls, fallbacks to the dump, provisionings and implicit pulls.
CacheIsTheInstance ==
    pulled # None =>
        /\ pulled.from \in Instances /\ ~touched => pulled.model = model[pulled.from]
        /\ ref_epoch_s = pulled.model.epoch

\* Provisioning a pulled constellation to an instance copies it: the same
\* shape, its elements at the epoch they were pulled with.
ProvisionKeepsConstellation ==
    written # None /\ written.mode = "Spacetime" /\ written.source.epoch # 0 =>
        written.model = written.source

\* The Delta tab of a panel belongs to the panel's own run: asked for by it,
\* about the elements and the instance it used.  Of a pulled constellation the
\* engine's side is taken at the epoch "the element set was reconciled to"
\* (engine_coverage_at_points).
DeltaOfThisRun ==
    panel # None /\ panel.delta # None =>
        /\ panel.compare
        /\ panel.delta.elems = panel.elems /\ panel.delta.target = panel.target
        /\ panel.elems.from # "walker" => panel.delta.ref = panel.elems.model.epoch
=============================================================================
