----------------------------- MODULE ClientProofs -----------------------------
(***************************************************************************)
(* Proofs about the three parts of MCDeps, each for every value of its     *)
(* constants: a store has its key while it is open and somebody removes    *)
(* every file (KeyFile); what a probe found is not lost, and a re-probe    *)
(* finds what there is (Deps); a load that ends is one load                *)
(* (EphemeralLoad).                                                        *)
(***************************************************************************)
EXTENDS MCDeps, SequenceTheorems, WellFoundedInduction, FiniteSetTheorems, TLAPS

-----------------------------------------------------------------------------
\* A nonempty set of naturals has a least element.
LEMMA LeastElement ==
    ASSUME NEW A \in SUBSET Nat, A # {}
    PROVE  \E m \in A : \A k \in A : m <= k
<1>1. PICK m \in A : \A k \in A : <<k, m>> \notin OpToRel(<, Nat)
    BY NatLessThanWellFounded, WFMin
<1>2. \A k \in A : ~(k < m)
    BY <1>1 DEF OpToRel
<1> QED
    BY <1>2


-----------------------------------------------------------------------------
(***************************************************************************)
(* The list of exit handlers                                               *)
(***************************************************************************)
LEMMA HandlerAdded ==
    ASSUME NEW S, NEW l \in Seq(S), NEW x \in S
    PROVE  /\ Append(l, x) \in Seq(S)
           /\ x \in ToSet(Append(l, x)) /\ ToSet(l) \subseteq ToSet(Append(l, x))
<1>1. Append(l, x) \in Seq(S) /\ Len(Append(l, x)) = Len(l) + 1
    OBVIOUS
<1>2. Append(l, x)[Len(l) + 1] = x /\ \A i \in 1 .. Len(l) : Append(l, x)[i] = l[i]
    OBVIOUS
<1> QED
    BY <1>1, <1>2 DEF ToSet

LEMMA HandlerTaken ==
    ASSUME NEW S, NEW l \in Seq(S), l # <<>>
    PROVE  /\ Front(l) \in Seq(S) /\ Last(l) \in S
           /\ ToSet(l) \subseteq ToSet(Front(l)) \cup {Last(l)}
<1>1. Len(l) \in Nat \ {0}
    OBVIOUS
<1>2. Last(l) = l[Len(l)] /\ Last(l) \in S
    BY <1>1 DEF Last
<1> DEFINE n == Len(l) - 1
           f == SubSeq(l, 1, n)
<1>3. n \in Nat /\ n + 1 = Len(l) /\ \A i \in 1 .. n : l[i] \in S
    BY <1>1
<1>4. /\ f \in Seq(S) /\ Len(f) = IF 1 <= n THEN n - 1 + 1 ELSE 0
      /\ \A i \in 1 .. n - 1 + 1 : f[i] = l[1 + i - 1]
    <2> HIDE DEF n
    <2> QED
        BY <1>3, SubSeqProperties
<1>5. Front(l) = f
    BY DEF Front
<1> HIDE DEF n, f
<1>6. Len(f) = n /\ \A i \in 1 .. n : f[i] = l[i]
    BY <1>3, <1>4
<1> QED
    BY <1>2, <1>3, <1>4, <1>5, <1>6 DEF ToSet

-----------------------------------------------------------------------------
(***************************************************************************)
(* One removal                                                             *)
(***************************************************************************)
\* It touches one file, which is gone then or known to be stubborn.
LEMMA ShredFacts ==
    ASSUME TypeOK, NEW p, Shred(p)
    PROVE  /\ file' \in [Paths -> Stores \cup {Absent, Garbage}] /\ stubborn' \subseteq Paths
           /\ \A q \in Paths : q # p => file'[q] = file[q] /\ (q \in stubborn' <=> q \in stubborn)
           /\ p \in Paths => file'[p] = Absent \/ p \in stubborn'
<1>1. CASE p \notin Paths /\ UNCHANGED <<file, stubborn>>
    BY <1>1 DEF TypeOK
<1>2. CASE /\ p \in Paths
           /\ file' = [file EXCEPT ![p] = Absent] /\ stubborn' = stubborn \ {p}
    BY <1>2 DEF TypeOK
<1>3. CASE /\ p \in Paths /\ file[p] # Absent
           /\ \E left \in {file[p], Garbage} : file' = [file EXCEPT ![p] = left]
           /\ stubborn' = stubborn \cup {p}
    BY <1>3 DEF TypeOK
<1> QED
    BY <1>1, <1>2, <1>3 DEF Shred

-----------------------------------------------------------------------------
(***************************************************************************)
(* The invariant: a file that is being connected is that of its store, and *)
(* its store has no cleanup yet.                                           *)
(***************************************************************************)
FileInv ==
    \A s \in Stores :
        /\ stage[s] \in {"new", "file"} => key_cleanup[s] = None
        /\ stage[s] = "file" =>
              interpreter = "running" /\ key_path[s] \in Paths /\ file[key_path[s]] = s

KeyInv == TypeOK /\ FileInv /\ OpenStoreHasItsKey /\ EveryKeyFileIsRemoved

LEMMA KeyInitHolds == KeyFileAssumption /\ Init => KeyInv
BY DEF KeyFileAssumption, Init, KeyInv, TypeOK, FileInv, OpenStoreHasItsKey, EveryKeyFileIsRemoved

\* Constructors that fail before their file is whole.
LEMMA NewFails ==
    ASSUME KeyFileAssumption, KeyInv, NEW s \in Stores,
           NoKey(s) \/ \E p \in Paths : MaterializeFails(s, p)
    PROVE  KeyInv'
<1>1. CASE NoKey(s)
    BY <1>1 DEF NoKey, Constructing, KeyInv, TypeOK, FileInv, OpenStoreHasItsKey, EveryKeyFileIsRemoved
<1>2. CASE \E p \in Paths : MaterializeFails(s, p)
    <2>1. PICK p \in Paths : MaterializeFails(s, p)
        BY <1>2
    <2>2. \A q \in Paths : q # p => file'[q] = file[q]
        BY <2>1 DEF MaterializeFails, KeyInv, TypeOK
    <2>3. TypeOK'
        BY <2>1 DEF MaterializeFails, KeyInv, TypeOK
    <2>4. FileInv' /\ OpenStoreHasItsKey'
        BY <2>1, <2>2 DEF MaterializeFails, Constructing, KeyInv, TypeOK, FileInv,
                          OpenStoreHasItsKey, KeyFileAssumption
    <2>5. EveryKeyFileIsRemoved'
        BY <2>1, <2>2 DEF MaterializeFails, Constructing, KeyInv, TypeOK, EveryKeyFileIsRemoved
    <2> QED
        BY <2>3, <2>4, <2>5 DEF KeyInv
<1> QED
    BY <1>1, <1>2

\* A name that mkstemp returns is nobody's.
LEMMA MaterializeHolds ==
    ASSUME KeyFileAssumption, KeyInv, NEW s \in Stores, NEW p \in Paths, Materialize(s, p)
    PROVE  KeyInv'
<1>1. \A q \in Paths : q # p => file'[q] = file[q]
    BY DEF Materialize, KeyInv, TypeOK
<1>2. file'[p] = s /\ file[p] = Absent /\ stage[s] = "new" /\ interpreter = "running"
    BY DEF Materialize, Constructing, KeyInv, TypeOK
<1>3. /\ \A t \in Stores : t # s => stage'[t] = stage[t] /\ key_path'[t] = key_path[t]
      /\ stage'[s] = "file" /\ key_path'[s] = p
    BY DEF Materialize, KeyInv, TypeOK
<1>4. TypeOK'
    BY DEF Materialize, KeyInv, TypeOK
<1>5. FileInv'
    BY <1>1, <1>2, <1>3 DEF Materialize, KeyInv, FileInv, KeyFileAssumption
<1>6. OpenStoreHasItsKey'
    BY <1>1, <1>2 DEF Materialize, KeyInv, OpenStoreHasItsKey, KeyFileAssumption
<1>7. EveryKeyFileIsRemoved'
    BY <1>1, <1>2, <1>3 DEF Materialize, KeyInv, EveryKeyFileIsRemoved
<1> QED
    BY <1>4, <1>5, <1>6, <1>7 DEF KeyInv

LEMMA ConnectHolds ==
    ASSUME KeyFileAssumption, KeyInv, NEW s \in Stores, Connect(s) \/ ConnectPortable(s)
    PROVE  KeyInv'
<1>1. PICK p \in Paths \cup {NoFile} :
          /\ at_exit' = Append(at_exit, p) /\ Opened(s, p)
          /\ p = NoFile => stage[s] = "new"
          /\ p \in Paths => stage[s] = "file" /\ p = key_path[s] /\ file[p] = s
    BY DEF Connect, ConnectPortable, Constructing, KeyInv, FileInv, KeyFileAssumption
<1>2. /\ at_exit' \in Seq(Paths \cup {NoFile})
      /\ p \in ToSet(at_exit') /\ ToSet(at_exit) \subseteq ToSet(at_exit')
    BY <1>1, HandlerAdded DEF KeyInv, TypeOK
<1>3. UNCHANGED <<modern, file, key_path, interpreter, orphaned, stubborn>>
    BY DEF Connect, ConnectPortable
<1>4. /\ \A t \in Stores : t # s => stage'[t] = stage[t] /\ key_cleanup'[t] = key_cleanup[t]
      /\ stage'[s] = "open" /\ key_cleanup'[s] = p
    BY <1>1 DEF Opened, KeyInv, TypeOK
<1>5. TypeOK'
    BY <1>1, <1>2, <1>3 DEF Opened, KeyInv, TypeOK
<1>6. FileInv'
    BY <1>3, <1>4 DEF KeyInv, FileInv
<1>7. OpenStoreHasItsKey'
    BY <1>1, <1>3, <1>4 DEF KeyInv, OpenStoreHasItsKey, KeyFileAssumption
<1>8. EveryKeyFileIsRemoved'
    BY <1>1, <1>2, <1>3, <1>4 DEF KeyInv, EveryKeyFileIsRemoved, KeyFileAssumption
<1> QED
    BY <1>5, <1>6, <1>7, <1>8 DEF KeyInv

\* Constructors that fail later: the file is removed, or left to nobody.
LEMMA ConnectingFails ==
    ASSUME KeyFileAssumption, KeyInv, NEW s \in Stores, ConnectFails(s) \/ Interrupt(s)
    PROVE  KeyInv'
<1> DEFINE p == key_path[s]
<1>1. stage[s] = "file" /\ p \in Paths /\ file[p] = s /\ key_cleanup[s] = None
    BY DEF ConnectFails, Interrupt, Constructing, KeyInv, FileInv
<1>2. /\ \A t \in Stores : t # s => stage'[t] = stage[t]
      /\ stage'[s] = "failed" /\ stage' \in [Stores -> {"new", "file", "open", "failed"}]
    BY DEF ConnectFails, Interrupt, KeyInv, TypeOK
<1>3. UNCHANGED <<modern, key_path, key_cleanup, at_exit, interpreter>>
    BY DEF ConnectFails, Interrupt
<1>4. /\ file' \in [Paths -> Stores \cup {Absent, Garbage}] /\ stubborn' \subseteq Paths
      /\ orphaned' \subseteq Paths
      /\ \A q \in Paths : q # p => /\ file'[q] = file[q]
                                   /\ q \in stubborn' <=> q \in stubborn
                                   /\ q \in orphaned' <=> q \in orphaned
      /\ file'[p] = Absent \/ p \in stubborn' \/ p \in orphaned'
    <2>1. CASE ConnectFails(s)
        BY <2>1, <1>1, ShredFacts DEF ConnectFails, KeyInv, TypeOK
    <2>2. CASE Interrupt(s)
        BY <2>2, <1>1 DEF Interrupt, KeyInv, TypeOK
    <2> QED
        BY <2>1, <2>2
<1>5. TypeOK'
    BY <1>2, <1>3, <1>4 DEF KeyInv, TypeOK
<1>6. FileInv'
    BY <1>1, <1>2, <1>3, <1>4 DEF KeyInv, FileInv
<1>7. OpenStoreHasItsKey'
    BY <1>1, <1>3, <1>4 DEF KeyInv, OpenStoreHasItsKey, KeyFileAssumption
<1>8. EveryKeyFileIsRemoved'
    BY <1>1, <1>2, <1>3, <1>4 DEF KeyInv, EveryKeyFileIsRemoved
<1> QED
    BY <1>5, <1>6, <1>7, <1>8 DEF KeyInv

\* The file a running store shreds is its own, so that of no other one.
LEMMA CloseHolds ==
    ASSUME KeyFileAssumption, KeyInv, NEW s \in Stores, Close(s)
    PROVE  KeyInv'
<1> DEFINE p == key_cleanup[s]
<1>1. /\ file' \in [Paths -> Stores \cup {Absent, Garbage}] /\ stubborn' \subseteq Paths
      /\ \A q \in Paths : q # p => file'[q] = file[q] /\ (q \in stubborn' <=> q \in stubborn)
      /\ p \in Paths => file'[p] = Absent \/ p \in stubborn'
    BY ShredFacts DEF Close, KeyInv
<1>2. /\ \A t \in Stores : t # s => key_cleanup'[t] = key_cleanup[t]
      /\ key_cleanup'[s] = None /\ p # None
    BY DEF Close, KeyInv, TypeOK
<1>3. UNCHANGED <<modern, stage, key_path, at_exit, interpreter, orphaned>>
    BY DEF Close
<1>4. interpreter = "running" /\ p \in Paths => file[p] = s
    BY DEF KeyInv, OpenStoreHasItsKey
<1>5. TypeOK'
    BY <1>1, <1>3 DEF Close, KeyInv, TypeOK
<1>6. FileInv'
    BY <1>1, <1>2, <1>3, <1>4 DEF KeyInv, FileInv
<1>7. OpenStoreHasItsKey'
    BY <1>1, <1>2, <1>3, <1>4 DEF KeyInv, OpenStoreHasItsKey, KeyFileAssumption
<1>8. EveryKeyFileIsRemoved'
    BY <1>1, <1>3 DEF KeyInv, EveryKeyFileIsRemoved
<1> QED
    BY <1>5, <1>6, <1>7, <1>8 DEF KeyInv

\* A handler that has run leaves its file removed or stubborn.
LEMMA ExitHolds ==
    ASSUME KeyFileAssumption, KeyInv, Exit \/ RunExitHandler
    PROVE  KeyInv'
<1>1. CASE Exit
    BY <1>1 DEF Exit, store_vars, KeyInv, TypeOK, FileInv, OpenStoreHasItsKey, EveryKeyFileIsRemoved
<1>2. CASE RunExitHandler /\ at_exit = <<>>
    BY <1>2 DEF RunExitHandler, store_vars, KeyInv, TypeOK, FileInv, OpenStoreHasItsKey,
                EveryKeyFileIsRemoved
<1>3. CASE RunExitHandler /\ at_exit # <<>>
    <2> DEFINE p == Last(at_exit)
    <2>1. /\ at_exit' \in Seq(Paths \cup {NoFile})
          /\ ToSet(at_exit) \subseteq ToSet(at_exit') \cup {p}
        BY <1>3, HandlerTaken DEF RunExitHandler, KeyInv, TypeOK
    <2>2. /\ file' \in [Paths -> Stores \cup {Absent, Garbage}] /\ stubborn' \subseteq Paths
          /\ \A q \in Paths : q # p => file'[q] = file[q] /\ (q \in stubborn' <=> q \in stubborn)
          /\ p \in Paths => file'[p] = Absent \/ p \in stubborn'
        BY <1>3, ShredFacts DEF RunExitHandler, KeyInv
    <2>3. UNCHANGED <<modern, stage, key_path, key_cleanup, orphaned, interpreter>> /\ interpreter = "exiting"
        BY <1>3 DEF RunExitHandler, store_vars
    <2>4. TypeOK'
        BY <2>1, <2>2, <2>3 DEF KeyInv, TypeOK
    <2>5. FileInv' /\ OpenStoreHasItsKey'
        BY <2>3 DEF KeyInv, FileInv, OpenStoreHasItsKey
    <2>6. EveryKeyFileIsRemoved'
        BY <2>1, <2>2, <2>3 DEF KeyInv, EveryKeyFileIsRemoved
    <2> QED
        BY <2>4, <2>5, <2>6 DEF KeyInv
<1> QED
    BY <1>1, <1>2, <1>3

LEMMA KeyStepHolds == ASSUME KeyFileAssumption, KeyInv, [Next]_vars PROVE KeyInv'
<1>1. CASE UNCHANGED vars
    BY <1>1 DEF vars, store_vars, KeyInv, TypeOK, FileInv, OpenStoreHasItsKey, EveryKeyFileIsRemoved
<1>2. CASE Stop
    BY <1>2, <1>1 DEF Stop
<1> QED
    BY <1>1, <1>2, NewFails, MaterializeHolds, ConnectHolds, ConnectingFails, CloseHolds, ExitHolds DEF Next

LEMMA KeyInvariance == ASSUME KeyFileAssumption PROVE Spec => []KeyInv
<1>1. Init => KeyInv
    BY KeyInitHolds
<1>2. KeyInv /\ [Next]_vars => KeyInv'
    BY KeyStepHolds
<1> QED
    BY <1>1, <1>2, PTL DEF Spec

-----------------------------------------------------------------------------
\* An open store finds its own key in its file, however often other stores are
\* opened, closed and closed again under names given out twice (_make_channel).
THEOREM StoresHaveTheirKeys == ASSUME KeyFileAssumption PROVE Spec => []OpenStoreHasItsKey
<1>1. KeyInv => OpenStoreHasItsKey
    BY DEF KeyInv
<1> QED
    BY KeyInvariance, <1>1, PTL

\* Every key file has somebody who will remove it: its constructor or an exit
\* handler (_cleanup, close, atexit).
THEOREM KeyFilesAreRemoved == ASSUME KeyFileAssumption PROVE Spec => []EveryKeyFileIsRemoved
<1>1. KeyInv => EveryKeyFileIsRemoved
    BY DEF KeyInv
<1> QED
    BY KeyInvariance, <1>1, PTL


\* Some root of s from r on can be imported.
Findable(s, r) == \E q \in 1 .. NRoots[s] : r <= q /\ Pkgs!Importable(s, q)

DepsShape ==
    /\ installed \subseteq Pkgs!Modules
    /\ root \in [Pkgs!Surfaces -> Nat] /\ flags \in [Pkgs!Surfaces -> BOOLEAN]
    /\ at \in [i : Nat, r : Nat] /\ 1 <= at.i /\ at.i <= 7 /\ 1 <= at.r

\* A root that was found can still be imported.
RootInv == \A s \in Pkgs!Surfaces : root[s] # Pkgs!Nowhere => Pkgs!Importable(s, root[s])

\* What the flags claim can still be found: from the first root before its turn,
\* from the root the probe is at when it is its turn; after that it is found.
ClaimInv ==
    \A k \in 1 .. 6 : flags[Pkgs!ProbeOrder[k]] =>
        /\ Findable(Pkgs!ProbeOrder[k], 1)
        /\ probe = "probe" /\ at.i = k => Findable(Pkgs!ProbeOrder[k], at.r)
        /\ probe = "probe" /\ at.i > k => root[Pkgs!ProbeOrder[k]] # Pkgs!Nowhere

DepsInv == DepsShape /\ RootInv /\ ClaimInv /\ Pkgs!StubsHaveGrpc

-----------------------------------------------------------------------------
\* The six surfaces of _probe, each at one place.
LEMMA Order ==
    /\ Len(Pkgs!ProbeOrder) = 6
    /\ \A k \in 1 .. 6 : Pkgs!ProbeOrder[k] \in Pkgs!Surfaces
    /\ \A s \in Pkgs!Surfaces : \E k \in 1 .. 6 : s = Pkgs!ProbeOrder[k]
    /\ \A j, k \in 1 .. 6 : Pkgs!ProbeOrder[j] = Pkgs!ProbeOrder[k] => j = k
<1>1. Len(Pkgs!ProbeOrder) = 6
    BY DEF Pkgs!ProbeOrder
<1>2. DOMAIN Pkgs!ProbeOrder = 1 .. 6
    BY DEF Pkgs!ProbeOrder
<1>3. \A j, k \in 1 .. 6 : Pkgs!ProbeOrder[j] = Pkgs!ProbeOrder[k] => j = k
    BY DEF Pkgs!ProbeOrder
<1> QED
    BY <1>1, <1>2, <1>3 DEF Pkgs!Surfaces

\* Only roots that there are can be imported.
LEMMA ImportableInRange ==
    ASSUME installed \subseteq Pkgs!Modules, NEW s \in Pkgs!Surfaces, NEW r, Pkgs!Importable(s, r)
    PROVE  r \in 1 .. NRoots[s]
<1>1. <<s, r, "pb2">> \in Pkgs!Modules
    BY DEF Pkgs!Importable
<1>2. PICK t \in Pkgs!Surfaces :
        <<s, r, "pb2">> \in {t} \X (1 .. NRoots[t])
                                \X (IF t \in Pkgs!Paired THEN {"pb2", "grpc"} ELSE {"pb2"})
    BY <1>1 DEF Pkgs!Modules
<1> QED
    BY <1>2

\* Installing takes nothing away.
LEMMA ImportableStays ==
    ASSUME installed \subseteq installed', grpc_there => grpc_there',
           NEW s, NEW r, Pkgs!Importable(s, r)
    PROVE  Pkgs!Importable(s, r)'
BY DEF Pkgs!Importable

LEMMA FindableStays ==
    ASSUME installed \subseteq installed', grpc_there => grpc_there',
           NEW s, NEW r, Findable(s, r)
    PROVE  Findable(s, r)'
BY ImportableStays DEF Findable

LEMMA DepsInitHolds == Pkgs!Init => DepsInv
<1> SUFFICES ASSUME Pkgs!Init PROVE DepsInv
    OBVIOUS
<1> USE DEF Pkgs!Init
<1>1. DepsShape
    BY DEF DepsShape, Pkgs!Nowhere
<1>2. RootInv
    BY DEF RootInv
<1>3. ClaimInv
    BY Order DEF ClaimInv
<1>4. Pkgs!StubsHaveGrpc
    BY DEF Pkgs!StubsHaveGrpc
<1> QED
    BY <1>1, <1>2, <1>3, <1>4 DEF DepsInv

-----------------------------------------------------------------------------
LEMMA InstallHolds ==
    ASSUME DepsInv, (\E m \in Pkgs!Modules : Pkgs!Install(m)) \/ Pkgs!InstallGrpc
    PROVE  DepsInv'
<1>1. /\ installed \subseteq installed' /\ installed' \subseteq Pkgs!Modules
      /\ grpc_there => grpc_there'
      /\ UNCHANGED <<Pkgs!globals, probe, at>>
    BY DEF Pkgs!Install, Pkgs!InstallGrpc, DepsInv, DepsShape
<1>2. DepsShape'
    BY <1>1 DEF DepsInv, DepsShape, Pkgs!globals
<1>3. RootInv'
    BY <1>1, ImportableStays DEF DepsInv, RootInv, Pkgs!globals
<1>4. ClaimInv'
    <2> SUFFICES ASSUME NEW k \in 1 .. 6, flags'[Pkgs!ProbeOrder[k]]
                 PROVE  /\ Findable(Pkgs!ProbeOrder[k], 1)'
                        /\ probe' = "probe" /\ at'.i = k => Findable(Pkgs!ProbeOrder[k], at.r)'
                        /\ probe' = "probe" /\ at'.i > k => root'[Pkgs!ProbeOrder[k]] # Pkgs!Nowhere
        BY DEF ClaimInv
    <2>1. flags[Pkgs!ProbeOrder[k]]
        BY <1>1 DEF Pkgs!globals
    <2>2. Findable(Pkgs!ProbeOrder[k], 1)'
        BY <1>1, <2>1, FindableStays DEF DepsInv, ClaimInv
    <2>3. ASSUME probe' = "probe", at'.i = k
          PROVE  Findable(Pkgs!ProbeOrder[k], at.r)'
        <3>1. Findable(Pkgs!ProbeOrder[k], at.r)
            BY <1>1, <2>1, <2>3 DEF DepsInv, ClaimInv
        <3> QED
            BY <1>1, <3>1 DEF Findable, Pkgs!Importable
    <2>4. probe' = "probe" /\ at'.i > k => root'[Pkgs!ProbeOrder[k]] # Pkgs!Nowhere
        BY <1>1, <2>1 DEF DepsInv, ClaimInv, Pkgs!globals
    <2> QED
        BY <2>2, <2>3, <2>4
<1>5. Pkgs!StubsHaveGrpc'
    BY <1>1 DEF DepsInv, Pkgs!StubsHaveGrpc, Pkgs!globals
<1> QED
    BY <1>2, <1>3, <1>4, <1>5 DEF DepsInv

LEMMA TryRootHolds ==
    ASSUME Pkgs!DepsAssumption, DepsInv, Pkgs!TryRoot
    PROVE  DepsInv'
<1> DEFINE s == Pkgs!ProbeOrder[at.i]
<1>1. at.i \in 1 .. 6 /\ probe = "probe" /\ s \in Pkgs!Surfaces /\ NRoots[s] \in Nat
    BY Order DEF Pkgs!DepsAssumption, Pkgs!TryRoot, DepsInv, DepsShape
<1>2. UNCHANGED <<Pkgs!path, grpc, flags, exported, probe>>
    BY DEF Pkgs!TryRoot
<1>3. \E v \in Nat :
        /\ root' = [root EXCEPT ![s] = v]
        /\ v # Pkgs!Nowhere => v = at.r /\ Pkgs!Importable(s, at.r)
    BY DEF Pkgs!TryRoot, DepsInv, DepsShape, Pkgs!Nowhere
<1>4. DepsShape'
    <2>1. at' \in [i : Nat, r : Nat] /\ 1 <= at'.i /\ at'.i <= 7 /\ 1 <= at'.r
        BY <1>1, Order DEF Pkgs!TryRoot, Pkgs!Next1, DepsInv, DepsShape
    <2>2. root' \in [Pkgs!Surfaces -> Nat]
        BY <1>1, <1>3 DEF DepsInv, DepsShape
    <2> QED
        BY <1>2, <2>1, <2>2 DEF DepsInv, DepsShape, Pkgs!path
<1>5. RootInv'
    BY <1>1, <1>2, <1>3 DEF DepsInv, DepsShape, RootInv, Pkgs!Importable, Pkgs!path
<1>6. ClaimInv'
    <2> SUFFICES ASSUME NEW k \in 1 .. 6, flags[Pkgs!ProbeOrder[k]]
                 PROVE  /\ Findable(Pkgs!ProbeOrder[k], 1)
                        /\ at'.i = k => Findable(Pkgs!ProbeOrder[k], at'.r)
                        /\ at'.i > k => root'[Pkgs!ProbeOrder[k]] # Pkgs!Nowhere
        BY <1>2 DEF ClaimInv, Findable, Pkgs!Importable, Pkgs!path
    <2>1. Findable(Pkgs!ProbeOrder[k], 1)
        BY DEF DepsInv, ClaimInv
    <2>2. CASE at.i = k
        <3>1. PICK q \in 1 .. NRoots[s] : at.r <= q /\ Pkgs!Importable(s, q)
            BY <1>1, <2>2 DEF DepsInv, ClaimInv, Findable
        <3>2. CASE Pkgs!Importable(s, at.r)
            <4>1. root'[s] = at.r /\ at' = Pkgs!Next1(at.i)
                BY <3>2, <1>1 DEF Pkgs!TryRoot, DepsInv, DepsShape
            <4> QED
                BY <2>1, <2>2, <4>1, <1>1 DEF Pkgs!Next1, DepsInv, DepsShape, Pkgs!Nowhere
        <3>3. CASE ~Pkgs!Importable(s, at.r)
            <4>1. q # at.r
                BY <3>1, <3>3
            <4>2. at.r + 1 <= q /\ at.r < NRoots[s] /\ q \in Nat
                BY <3>1, <4>1, <1>1 DEF DepsInv, DepsShape
            <4>3. at' = [at EXCEPT !.r = at.r + 1]
                BY <3>3, <4>2, <1>1 DEF Pkgs!TryRoot, DepsInv, DepsShape
            <4>4. Findable(s, at.r + 1)
                BY <3>1, <4>2 DEF Findable
            <4> QED
                BY <2>1, <2>2, <4>3, <4>4, <1>1 DEF DepsInv, DepsShape
        <3> QED
            BY <3>2, <3>3
    <2>3. CASE at.i # k
        <3>1. Pkgs!ProbeOrder[k] # s
            BY <2>3, <1>1, Order
        <3>2. root'[Pkgs!ProbeOrder[k]] = root[Pkgs!ProbeOrder[k]]
            BY <3>1, <1>1, <1>3, Order DEF DepsInv, DepsShape
        <3>3. at'.i = at.i \/ (at'.i = at.i + 1 /\ at'.r = 1)
            BY DEF Pkgs!TryRoot, Pkgs!Next1, DepsInv, DepsShape
        <3>4. at.i > k => root[Pkgs!ProbeOrder[k]] # Pkgs!Nowhere
            BY <1>1 DEF DepsInv, ClaimInv
        <3>5. CASE at'.i = at.i
            BY <2>1, <2>3, <3>2, <3>4, <3>5
        <3>6. CASE at'.i = at.i + 1 /\ at'.r = 1
            BY <2>1, <2>3, <3>2, <3>4, <3>6, <1>1
        <3> QED
            BY <3>3, <3>5, <3>6
    <2> QED
        BY <2>2, <2>3
<1>7. Pkgs!StubsHaveGrpc'
    BY <1>1, <1>2 DEF Pkgs!StubsHaveGrpc
<1> QED
    BY <1>4, <1>5, <1>6, <1>7 DEF DepsInv

\* When the probe is over, it has found what the flags claimed.
LEMMA TryGrpcKeeps ==
    ASSUME DepsInv, Pkgs!TryGrpc
    PROVE  \A s \in Pkgs!Surfaces : flags[s] => flags'[s]
<1>1. at.i = 7 /\ probe = "probe"
    BY Order DEF Pkgs!TryGrpc, DepsInv, DepsShape
<1>2. flags' = Pkgs!Flags
    BY DEF Pkgs!TryGrpc
<1> SUFFICES ASSUME NEW s \in Pkgs!Surfaces, flags[s] PROVE flags'[s]
    OBVIOUS
<1>3. PICK k \in 1 .. 6 : s = Pkgs!ProbeOrder[k]
    BY Order
<1>4. root[s] # Pkgs!Nowhere
    BY <1>1, <1>3 DEF DepsInv, ClaimInv
<1> QED
    BY <1>2, <1>4 DEF Pkgs!Flags

LEMMA TryGrpcHolds ==
    ASSUME Pkgs!DepsAssumption, DepsInv, Pkgs!TryGrpc
    PROVE  DepsInv'
<1>1. probe' # "probe"
    BY DEF Pkgs!TryGrpc, Pkgs!After
<1>2. UNCHANGED <<Pkgs!path, root, at>> /\ flags' = Pkgs!Flags /\ grpc' = grpc_there
    BY DEF Pkgs!TryGrpc
<1>3. DepsShape'
    BY <1>2 DEF DepsInv, DepsShape, Pkgs!Flags, Pkgs!path
<1>4. RootInv'
    BY <1>2 DEF DepsInv, RootInv, Pkgs!Importable, Pkgs!path
<1>5. ClaimInv'
    <2> SUFFICES ASSUME NEW k \in 1 .. 6, flags'[Pkgs!ProbeOrder[k]]
                 PROVE  Findable(Pkgs!ProbeOrder[k], 1)'
        BY <1>1 DEF ClaimInv
    <2>1. Pkgs!ProbeOrder[k] \in Pkgs!Surfaces
        BY Order
    <2>2. root[Pkgs!ProbeOrder[k]] # Pkgs!Nowhere
        BY <1>2, <2>1 DEF Pkgs!Flags
    <2>3. Pkgs!Importable(Pkgs!ProbeOrder[k], root[Pkgs!ProbeOrder[k]])
        BY <2>1, <2>2 DEF DepsInv, RootInv
    <2>4. root[Pkgs!ProbeOrder[k]] \in 1 .. NRoots[Pkgs!ProbeOrder[k]]
        BY <2>1, <2>3, ImportableInRange DEF DepsInv, DepsShape
    <2>5. Findable(Pkgs!ProbeOrder[k], 1)
        BY <2>3, <2>4, <2>1 DEF Pkgs!DepsAssumption, Findable
    <2> QED
        BY <1>2, <2>5 DEF Findable, Pkgs!Importable, Pkgs!path
<1>6. Pkgs!StubsHaveGrpc'
    <2> SUFFICES ASSUME NEW s \in Pkgs!Paired, root[s] # Pkgs!Nowhere
                 PROVE  grpc_there
        BY <1>2 DEF Pkgs!StubsHaveGrpc
    <2>1. s \in Pkgs!Surfaces
        <3>1. \A k \in 1 .. 6 : Pkgs!ProbeOrder[k] \in Pkgs!Surfaces
            BY Order
        <3>2. /\ Pkgs!ProbeOrder[2] = "NBI" /\ Pkgs!ProbeOrder[3] = "PROVISIONING"
              /\ Pkgs!ProbeOrder[4] = "MODEL" /\ Pkgs!ProbeOrder[6] = "STORAGE"
            BY DEF Pkgs!ProbeOrder
        <3> QED
            BY <3>1, <3>2 DEF Pkgs!Paired
    <2> QED
        BY <2>1 DEF DepsInv, RootInv, Pkgs!Importable
<1> QED
    BY <1>3, <1>4, <1>5, <1>6 DEF DepsInv

\* The other handlers start a probe at its first root, or leave everything alone.
LEMMA HandlerHolds ==
    ASSUME DepsInv,
           \/ Pkgs!Reprobe
           \/ \E g \in {"grpc_store", "probe_endpoint", "raw_store"} : Pkgs!Require(g)
           \/ Pkgs!BuildStore \/ Pkgs!BuildFails \/ Pkgs!BuildRawStore \/ Pkgs!Raise
           \/ UNCHANGED Pkgs!vars
    PROVE  DepsInv'
<1>1. /\ UNCHANGED <<Pkgs!path, Pkgs!globals>>
      /\ \/ probe' = probe /\ at' = at
         \/ probe' # "probe" /\ probe # "probe" /\ at' \in {at, [i |-> 1, r |-> 1]}
         \/ probe' = "probe" /\ probe # "probe" /\ at' = [i |-> 1, r |-> 1]
    BY DEF Pkgs!Reprobe, Pkgs!Require, Pkgs!BuildStore, Pkgs!BuildFails, Pkgs!BuildRawStore, Pkgs!Raise, Pkgs!vars
<1>2. DepsShape'
    BY <1>1 DEF DepsInv, DepsShape, Pkgs!path, Pkgs!globals
<1>3. RootInv'
    BY <1>1 DEF DepsInv, RootInv, Pkgs!Importable, Pkgs!path, Pkgs!globals
<1>4. ClaimInv'
    BY <1>1 DEF DepsInv, ClaimInv, Findable, Pkgs!Importable, Pkgs!path, Pkgs!globals
<1>5. Pkgs!StubsHaveGrpc'
    BY <1>1 DEF DepsInv, Pkgs!StubsHaveGrpc, Pkgs!path, Pkgs!globals
<1> QED
    BY <1>2, <1>3, <1>4, <1>5 DEF DepsInv

LEMMA DepsStepHolds == ASSUME Pkgs!DepsAssumption, DepsInv, [Pkgs!Next]_(Pkgs!vars) PROVE DepsInv'
BY InstallHolds, TryRootHolds, TryGrpcHolds, HandlerHolds DEF Pkgs!Next

LEMMA DepsInvariance == ASSUME Pkgs!DepsAssumption PROVE Pkgs!Spec => []DepsInv
<1>1. DepsInv /\ [Pkgs!Next]_(Pkgs!vars) => DepsInv'
    BY DepsStepHolds
<1> QED
    BY DepsInitHolds, <1>1, PTL DEF Pkgs!Spec

-----------------------------------------------------------------------------
\* A kernel that holds the stubs of a surface holds grpc (_probe tries grpc last),
\* for every number of roots and every order in which packages appear.
THEOREM GrpcComesWithStubs == ASSUME Pkgs!DepsAssumption PROVE Pkgs!Spec => []Pkgs!StubsHaveGrpc
<1>1. DepsInv => Pkgs!StubsHaveGrpc
    BY DEF DepsInv
<1> QED
    BY DepsInvariance, <1>1, PTL

\* A surface once found is found by every later probe (_FLAGS, require, reprobe).
THEOREM FlagsStay == ASSUME Pkgs!DepsAssumption PROVE Pkgs!Spec => Pkgs!FlagsNeverFall
<1>1. DepsInv /\ [Pkgs!Next]_(Pkgs!vars) => [\A s \in Pkgs!Surfaces : flags[s] => flags'[s]]_(Pkgs!vars)
    <2> SUFFICES ASSUME DepsInv, Pkgs!Next PROVE \A s \in Pkgs!Surfaces : flags[s] => flags'[s]
        OBVIOUS
    <2>1. CASE Pkgs!TryGrpc
        BY <2>1, TryGrpcKeeps
    <2>2. CASE ~Pkgs!TryGrpc
        <3>1. flags' = flags
            BY <2>2 DEF Pkgs!Next, Pkgs!Install, Pkgs!InstallGrpc, Pkgs!TryRoot, Pkgs!Reprobe, Pkgs!Require, Pkgs!BuildStore,
                        Pkgs!BuildFails, Pkgs!BuildRawStore, Pkgs!Raise, Pkgs!globals
        <3> QED
            BY <3>1
    <2> QED
        BY <2>1, <2>2
<1> QED
    BY DepsInvariance, <1>1, PTL DEF Pkgs!Spec, Pkgs!FlagsNeverFall

-----------------------------------------------------------------------------
(***************************************************************************)
(* Deps: a re-probe finds what could be imported when it was called, or    *)
(* something newer.                                                        *)
(***************************************************************************)
\* The newest root is there, of a surface that has one.
LEMMA NewestIsThere ==
    ASSUME Pkgs!DepsAssumption, NEW s \in Pkgs!Surfaces, Pkgs!Newest[s] # Pkgs!Nowhere
    PROVE  Pkgs!Newest[s] \in 1 .. NRoots[s] /\ Pkgs!Importable(s, Pkgs!Newest[s])
<1> DEFINE found == {r \in 1 .. NRoots[s] : Pkgs!Importable(s, r)}
<1>1. NRoots[s] \in Nat
    BY DEF Pkgs!DepsAssumption
<1>2. found # {} /\ Pkgs!Newest[s] = CHOOSE r \in found : \A q \in found : r <= q
    BY DEF Pkgs!Newest
<1>3. \E m \in found : \A q \in found : m <= q
    <2>1. found \in SUBSET Nat
        BY <1>1
    <2> HIDE DEF found
    <2> QED
        BY <2>1, <1>2, LeastElement
<1>4. Pkgs!Newest[s] \in found
    <2> HIDE DEF found
    <2> QED
        BY <1>2, <1>3
<1> QED
    BY <1>4

\* What was there when a probe began is there still, ...
SoughtThere ==
    \A s \in Pkgs!Surfaces : sought[s] # Pkgs!Nowhere =>
        sought[s] \in 1 .. NRoots[s] /\ Pkgs!Importable(s, sought[s])

\* ... is still before the probe, or has been found, ...
SoughtAhead ==
    probe = "probe" /\ goal = "reprobe" =>
        \A k \in 1 .. 6 :
            LET s == Pkgs!ProbeOrder[k] IN
            sought[s] # Pkgs!Nowhere =>
                /\ at.i = k => at.r <= sought[s]
                /\ at.i > k => root[s] # Pkgs!Nowhere /\ root[s] <= sought[s]

\* ... and only a re-probe that is over ends idle.
ReprobeInv ==
    /\ SoughtThere /\ SoughtAhead
    /\ probe \in {"build", "raised"} => goal # "reprobe"
    /\ ReprobePicksUp

LEMMA ReprobeInitHolds == Pkgs!Init => ReprobeInv
BY DEF Pkgs!Init, ReprobeInv, SoughtThere, SoughtAhead, ReprobePicksUp, Pkgs!ReprobePicksUp

\* Packages that arrive change nothing of what was found.
LEMMA ReprobeInstall ==
    ASSUME Pkgs!DepsAssumption, DepsInv, ReprobeInv,
           (\E m \in Pkgs!Modules : Pkgs!Install(m)) \/ Pkgs!InstallGrpc
    PROVE  ReprobeInv'
<1>1. /\ installed \subseteq installed'
      /\ grpc_there => grpc_there'
      /\ UNCHANGED <<Pkgs!globals, probe, goal, at, sought>>
    BY DEF Pkgs!Install, Pkgs!InstallGrpc
<1>2. SoughtThere'
    <2>1. ASSUME NEW s \in Pkgs!Surfaces, sought[s] # Pkgs!Nowhere
          PROVE  sought[s] \in 1 .. NRoots[s] /\ Pkgs!Importable(s, sought[s])'
        BY <1>1, <2>1 DEF ReprobeInv, SoughtThere, Pkgs!Importable
    <2> QED
        BY <1>1, <2>1 DEF SoughtThere, Pkgs!Importable
<1>3. SoughtAhead'
    BY <1>1 DEF ReprobeInv, SoughtAhead, Pkgs!globals
<1>4. ReprobePicksUp'
    BY <1>1 DEF ReprobeInv, ReprobePicksUp, Pkgs!ReprobePicksUp, Pkgs!globals
<1> QED
    BY <1>1, <1>2, <1>3, <1>4 DEF ReprobeInv

\* One import: the root that was sought is reached, unless an earlier one is taken.
LEMMA ReprobeTryRoot ==
    ASSUME Pkgs!DepsAssumption, DepsInv, ReprobeInv, Pkgs!TryRoot
    PROVE  ReprobeInv'
<1> DEFINE s == Pkgs!ProbeOrder[at.i]
<1>1. at.i \in 1 .. 6 /\ probe = "probe" /\ s \in Pkgs!Surfaces /\ NRoots[s] \in Nat /\ at.r \in Nat
    BY Order DEF Pkgs!DepsAssumption, Pkgs!TryRoot, DepsInv, DepsShape
<1>2. UNCHANGED <<Pkgs!path, grpc, flags, exported, probe, goal, sought>>
    BY DEF Pkgs!TryRoot
<1>3. SoughtThere'
    BY <1>2 DEF ReprobeInv, SoughtThere, Pkgs!Importable, Pkgs!path
<1>4. SoughtAhead'
    <2> SUFFICES ASSUME goal = "reprobe", NEW k \in 1 .. 6,
                        sought[Pkgs!ProbeOrder[k]] # Pkgs!Nowhere
                 PROVE  /\ at'.i = k => at'.r <= sought[Pkgs!ProbeOrder[k]]
                        /\ at'.i > k => /\ root'[Pkgs!ProbeOrder[k]] # Pkgs!Nowhere
                                        /\ root'[Pkgs!ProbeOrder[k]] <= sought[Pkgs!ProbeOrder[k]]
        BY <1>2 DEF SoughtAhead
    <2> DEFINE t == Pkgs!ProbeOrder[k]
    <2>1. /\ t \in Pkgs!Surfaces /\ sought[t] \in Nat /\ 1 <= sought[t] /\ sought[t] <= NRoots[t]
          /\ Pkgs!Importable(t, sought[t])
        BY Order DEF ReprobeInv, SoughtThere, Pkgs!DepsAssumption
    <2>2. /\ at.i = k => at.r <= sought[t]
          /\ at.i > k => root[t] # Pkgs!Nowhere /\ root[t] <= sought[t]
        BY <1>1 DEF ReprobeInv, SoughtAhead
    <2>3. CASE at.i = k
        <3>1. CASE Pkgs!Importable(s, at.r)
            <4>1. root'[s] = at.r /\ at' = Pkgs!Next1(at.i)
                BY <3>1, <1>1 DEF Pkgs!TryRoot, DepsInv, DepsShape
            <4>2. at'.i = k + 1 /\ at.r # Pkgs!Nowhere
                BY <2>3, <4>1 DEF Pkgs!Next1, Pkgs!Nowhere, DepsInv, DepsShape
            <4> QED
                BY <2>2, <2>3, <4>1, <4>2
        <3>2. CASE ~Pkgs!Importable(s, at.r)
            <4>1. at.r # sought[t] /\ at.r < NRoots[s]
                BY <2>1, <2>2, <2>3, <3>2, <1>1
            <4>2. at' = [at EXCEPT !.r = at.r + 1]
                BY <3>2, <4>1, <1>1 DEF Pkgs!TryRoot, DepsInv, DepsShape
            <4>3. at'.i = k /\ at'.r = at.r + 1
                BY <4>2, <2>3 DEF DepsInv, DepsShape
            <4> QED
                BY <2>1, <2>2, <2>3, <4>1, <4>3, <1>1
        <3> QED
            BY <3>1, <3>2
    <2>4. CASE at.i # k
        <3>1. t # s
            BY <2>4, <1>1, Order
        <3>2. root'[t] = root[t]
            BY <3>1, <2>1, <1>1 DEF Pkgs!TryRoot, DepsInv, DepsShape
        <3>3. at'.i = at.i \/ (at'.i = at.i + 1 /\ at'.r = 1)
            BY DEF Pkgs!TryRoot, Pkgs!Next1, DepsInv, DepsShape
        <3> QED
            BY <2>1, <2>2, <2>4, <3>2, <3>3, <1>1
    <2> QED
        BY <2>3, <2>4
<1> QED
    BY <1>1, <1>2, <1>3, <1>4 DEF ReprobeInv, ReprobePicksUp, Pkgs!ReprobePicksUp

\* The probe is over: every surface has had its turn.
LEMMA ReprobeTryGrpc ==
    ASSUME Pkgs!DepsAssumption, DepsInv, ReprobeInv, Pkgs!TryGrpc
    PROVE  ReprobeInv'
<1>1. /\ at.i = 7 /\ probe = "probe" /\ UNCHANGED <<Pkgs!path, root, goal, at, sought>>
      /\ grpc' = grpc_there /\ flags' = Pkgs!Flags /\ probe' = Pkgs!After(goal, Pkgs!Flags)
    BY Order DEF Pkgs!TryGrpc, DepsInv, DepsShape
<1>2. SoughtThere'
    BY <1>1 DEF ReprobeInv, SoughtThere, Pkgs!Importable, Pkgs!path
<1>3. probe' # "probe" /\ (goal = "reprobe" => probe' = "idle")
    BY <1>1 DEF Pkgs!After
<1>4. ReprobePicksUp'
    <2> SUFFICES ASSUME goal = "reprobe", NEW s \in Pkgs!Surfaces, sought[s] # Pkgs!Nowhere
                 PROVE  /\ root[s] # Pkgs!Nowhere /\ root[s] <= sought[s] /\ Pkgs!Flags[s]
                        /\ s \in Pkgs!Paired => grpc_there
        BY <1>1 DEF ReprobePicksUp, Pkgs!ReprobePicksUp
    <2>1. PICK k \in 1 .. 6 : s = Pkgs!ProbeOrder[k]
        BY Order
    <2>2. root[s] # Pkgs!Nowhere /\ root[s] <= sought[s]
        BY <1>1, <2>1 DEF ReprobeInv, SoughtAhead
    <2>3. s \in Pkgs!Paired => grpc_there
        BY DEF ReprobeInv, SoughtThere, Pkgs!Importable
    <2> QED
        BY <2>2, <2>3 DEF Pkgs!Flags
<1> QED
    BY <1>2, <1>3, <1>4, <1>1 DEF ReprobeInv, SoughtAhead

\* A handler that starts notes what is there; its probe begins with the first root.
LEMMA ReprobeHandler ==
    ASSUME Pkgs!DepsAssumption, DepsInv, ReprobeInv,
           \/ Pkgs!Reprobe
           \/ \E g \in {"grpc_store", "probe_endpoint", "raw_store"} : Pkgs!Require(g)
           \/ Pkgs!BuildStore \/ Pkgs!BuildFails \/ Pkgs!BuildRawStore \/ Pkgs!Raise
           \/ UNCHANGED Pkgs!vars
    PROVE  ReprobeInv'
<1>1. CASE Pkgs!Reprobe \/ \E g \in {"grpc_store", "probe_endpoint", "raw_store"} : Pkgs!Require(g)
    <2>1. /\ UNCHANGED Pkgs!path /\ sought' = Pkgs!Newest /\ at' = [i |-> 1, r |-> 1]
          /\ probe' = "probe" \/ goal' # "reprobe"
          /\ probe' # "idle"
        BY <1>1 DEF Pkgs!Reprobe, Pkgs!Require
    <2>2. SoughtThere'
        BY <2>1, NewestIsThere DEF SoughtThere, Pkgs!Importable, Pkgs!path
    <2>3. \A k \in 1 .. 6 : Pkgs!ProbeOrder[k] \in Pkgs!Surfaces /\ NRoots[Pkgs!ProbeOrder[k]] \in Nat
        BY Order DEF Pkgs!DepsAssumption
    <2>4. SoughtAhead'
        BY <2>1, <2>2, <2>3 DEF SoughtAhead, SoughtThere
    <2>5. probe' \in {"build", "raised"} => goal' # "reprobe"
        BY <1>1 DEF Pkgs!Reprobe, Pkgs!Require
    <2> QED
        BY <2>1, <2>2, <2>4, <2>5 DEF ReprobeInv, ReprobePicksUp, Pkgs!ReprobePicksUp
<1>2. CASE \/ Pkgs!BuildStore \/ Pkgs!BuildFails \/ Pkgs!BuildRawStore \/ Pkgs!Raise
           \/ UNCHANGED Pkgs!vars
    <2>1. /\ UNCHANGED <<Pkgs!path, Pkgs!globals, goal, at, sought>>
          /\ probe' = probe \/ (goal # "reprobe" /\ probe' # "probe")
        BY <1>2 DEF Pkgs!BuildStore, Pkgs!BuildFails, Pkgs!BuildRawStore, Pkgs!Raise, Pkgs!vars, ReprobeInv
    <2>2. SoughtThere'
        BY <2>1 DEF ReprobeInv, SoughtThere, Pkgs!Importable, Pkgs!path
    <2>3. SoughtAhead'
        BY <2>1 DEF ReprobeInv, SoughtAhead, Pkgs!globals
    <2>4. ReprobePicksUp'
        BY <2>1 DEF ReprobeInv, ReprobePicksUp, Pkgs!ReprobePicksUp, Pkgs!globals
    <2> QED
        BY <2>1, <2>2, <2>3, <2>4 DEF ReprobeInv
<1> QED
    BY <1>1, <1>2

\* "a re-probe picks up a newly-installed package without a kernel restart"
\* (reprobe): for every number of roots, whatever is installed meanwhile.
THEOREM ReprobeFinds == ASSUME Pkgs!DepsAssumption PROVE Pkgs!Spec => []ReprobePicksUp
<1>1. Pkgs!Init => DepsInv /\ ReprobeInv
    BY DepsInitHolds, ReprobeInitHolds
<1>2. DepsInv /\ ReprobeInv /\ [Pkgs!Next]_(Pkgs!vars) => DepsInv' /\ ReprobeInv'
    BY DepsStepHolds, ReprobeInstall, ReprobeTryRoot, ReprobeTryGrpc, ReprobeHandler DEF Pkgs!Next
<1>3. ReprobeInv => ReprobePicksUp
    BY DEF ReprobeInv
<1> QED
    BY <1>1, <1>2, <1>3, PTL DEF Pkgs!Spec

-----------------------------------------------------------------------------
(***************************************************************************)
(* EphemeralLoad: rows are those of one run at any time, as long as no     *)
(* request that was given up is processed.                                 *)
(***************************************************************************)
LoadShape ==
    /\ wanted \in Sizes /\ run \in Nat \ {0}
    /\ rows \in [Load!Rows -> Nat]
    /\ late \subseteq [op : {"DELETE", "INSERT"}, id : Load!Rows, run : Nat \ {0}]
    /\ load = "delete" => todo \subseteq Load!Rows
    /\ load = "write" => todo \subseteq 1 .. wanted

\* Nothing outlives a run's deletes, and what it has written is its own.
OneLoadInv ==
    ~disturbed =>
        /\ \A i, j \in Load!Existing : rows[i] = rows[j]
        /\ load = "delete" => Load!Existing \subseteq todo
        /\ load = "write" =>
              /\ Load!Existing = (1 .. wanted) \ todo
              /\ \A i \in Load!Existing : rows[i] = run
        /\ load = "loaded" => Load!Cardinality(Load!Existing) = wanted

LoadInv == LoadShape /\ OneLoadInv

\* There are rows for every preset.
LEMMA RowsOfPresets ==
    ASSUME Load!EphemeralLoadAssumption, NEW n \in Sizes
    PROVE  n \in Nat \ {0} /\ 1 .. n \subseteq Load!Rows
<1> DEFINE most == CHOOSE k \in Sizes : \A m \in Sizes : m <= k
<1>1. most \in Sizes /\ n <= most
    BY DEF Load!EphemeralLoadAssumption
<1>2. n \in Nat \ {0} /\ most \in Nat
    BY <1>1 DEF Load!EphemeralLoadAssumption
<1>3. Load!Rows = 1 .. most
    BY DEF Load!Rows
<1> HIDE DEF most
<1> QED
    BY <1>1, <1>2, <1>3

LEMMA LoadInitHolds == ASSUME Load!EphemeralLoadAssumption, Load!Init PROVE LoadInv
<1>1. PICK n \in {0} \cup Sizes : rows = [i \in Load!Rows |-> IF i <= n THEN 1 ELSE Load!NotLoaded]
    BY DEF Load!Init
<1>2. rows \in [Load!Rows -> Nat] /\ \A i \in Load!Existing : rows[i] = 1
    BY <1>1 DEF Load!Existing, Load!NotLoaded
<1>3. LoadShape
    BY <1>2 DEF Load!Init, LoadShape
<1>4. OneLoadInv
    BY <1>2 DEF Load!Init, OneLoadInv, Load!Existing
<1> QED
    BY <1>3, <1>4 DEF LoadInv

\* What a processed request leaves, of the rows that were there.
LEMMA DeletedRows ==
    ASSUME rows \in [Load!Rows -> Nat], NEW i \in Load!Rows, Load!Deleted(i)
    PROVE  /\ rows' \in [Load!Rows -> Nat]
           /\ Load!Existing' = Load!Existing \ {i}
           /\ \A j \in Load!Existing' : rows'[j] = rows[j]
<1>1. /\ rows' \in [Load!Rows -> Nat] /\ rows'[i] = 0
      /\ \A j \in Load!Rows : j # i => rows'[j] = rows[j]
    BY DEF Load!Deleted, Load!NotLoaded
<1> QED
    BY <1>1 DEF Load!Existing, Load!NotLoaded

LEMMA InsertedRows ==
    ASSUME rows \in [Load!Rows -> Nat], NEW i \in Load!Rows, NEW by \in Nat \ {0},
           Load!Inserted(i, by)
    PROVE  /\ rows' \in [Load!Rows -> Nat]
           /\ Load!Existing' = Load!Existing \cup {i}
           /\ \A j \in Load!Existing : rows'[j] = rows[j]
           /\ i \notin Load!Existing => rows'[i] = by
<1>1. /\ rows' \in [Load!Rows -> Nat]
      /\ rows'[i] = IF rows[i] = 0 THEN by ELSE rows[i]
      /\ \A j \in Load!Rows : j # i => rows'[j] = rows[j]
    BY DEF Load!Inserted, Load!NotLoaded
<1> QED
    BY <1>1 DEF Load!Existing, Load!NotLoaded

\* One step of the loops, each with what it leaves.
LEMMA DeleteRowHolds ==
    ASSUME LoadInv, NEW i \in Load!Rows, Load!DeleteRow(i) PROVE LoadInv'
<1>1. /\ rows' \in [Load!Rows -> Nat] /\ Load!Existing' = Load!Existing \ {i}
      /\ \A j \in Load!Existing' : rows'[j] = rows[j]
    BY DeletedRows DEF LoadInv, LoadShape, Load!DeleteRow
<1>2. LoadShape'
    BY <1>1 DEF LoadInv, LoadShape, Load!DeleteRow, Load!Advance
<1>3. OneLoadInv'
    BY <1>1 DEF LoadInv, OneLoadInv, Load!DeleteRow, Load!Advance
<1> QED
    BY <1>2, <1>3 DEF LoadInv

LEMMA WriteRowHolds ==
    ASSUME LoadInv, NEW i \in Load!Rows, Load!WriteRow(i) PROVE LoadInv'
<1>1. i \notin Load!Existing
    BY DEF Load!WriteRow, Load!Existing
<1>2. /\ rows' \in [Load!Rows -> Nat] /\ Load!Existing' = Load!Existing \cup {i}
      /\ \A j \in Load!Existing : rows'[j] = rows[j]
      /\ rows'[i] = run
    BY <1>1, InsertedRows DEF LoadInv, LoadShape, Load!WriteRow
<1>3. LoadShape'
    BY <1>2 DEF LoadInv, LoadShape, Load!WriteRow, Load!Advance
<1>4. OneLoadInv'
    BY <1>2 DEF LoadInv, LoadShape, OneLoadInv, Load!WriteRow, Load!Advance, Load!IsNext
<1> QED
    BY <1>3, <1>4 DEF LoadInv

LEMMA DoneHolds ==
    ASSUME Load!EphemeralLoadAssumption, LoadInv, Load!DeletesDone \/ Load!WritesDone PROVE LoadInv'
<1>1. wanted \in Nat \ {0} /\ 1 .. wanted \subseteq Load!Rows
    BY RowsOfPresets DEF LoadInv, LoadShape
<1>2. Load!Existing' = Load!Existing /\ rows' = rows /\ disturbed' = disturbed
    BY DEF Load!DeletesDone, Load!WritesDone, Load!store, Load!Existing
<1>3. CASE Load!DeletesDone
    <2>1. LoadShape'
        BY <1>3 DEF LoadInv, LoadShape, Load!DeletesDone, Load!store
    <2>2. OneLoadInv'
        BY <1>2, <1>3 DEF LoadInv, OneLoadInv, Load!DeletesDone, Load!Existing
    <2> QED
        BY <2>1, <2>2 DEF LoadInv
<1>4. CASE Load!WritesDone
    <2>1. LoadShape'
        BY <1>4 DEF LoadInv, LoadShape, Load!WritesDone, Load!store
    <2>2. Load!Cardinality(1 .. wanted) = wanted
        <3>1. Cardinality(1 .. wanted) = IF 1 > wanted THEN 0 ELSE wanted - 1 + 1
            BY <1>1, FS_Interval
        <3>2. Load!Cardinality(1 .. wanted) = Cardinality(1 .. wanted)
            BY DEF Load!Cardinality, Cardinality
        <3> QED
            BY <1>1, <3>1, <3>2
    <2>3. ~disturbed => Load!Existing = 1 .. wanted
        BY <1>4 DEF LoadInv, OneLoadInv, Load!WritesDone
    <2>4. OneLoadInv'
        BY <1>2, <1>4, <2>2, <2>3 DEF LoadInv, OneLoadInv, Load!WritesDone
    <2> QED
        BY <2>1, <2>4 DEF LoadInv
<1> QED
    BY <1>3, <1>4

\* A cell that starts, reads back, or is told "not committed".
LEMMA CellHolds ==
    ASSUME Load!EphemeralLoadAssumption, LoadInv,
           Load!RunCell \/ Load!ReadBack \/ \E i \in Load!Rows : Load!NotCommitted(i)
    PROVE  LoadInv'
<1>1. /\ Load!Existing' = Load!Existing /\ Load!Existing \subseteq Load!Rows
      /\ rows' = rows /\ disturbed' = disturbed /\ wanted' = wanted /\ late' = late
      /\ run' \in Nat \ {0}
    BY DEF Load!RunCell, Load!ReadBack, Load!NotCommitted, Load!Failed, Load!store, Load!Existing,
           LoadInv, LoadShape
<1>2. /\ load' # "write"
      /\ load' = "delete" => todo' = Load!Existing
      /\ load' = "loaded" => Load!Cardinality(Load!Existing) = wanted
    BY DEF Load!RunCell, Load!ReadBack, Load!NotCommitted, Load!Failed
<1>3. LoadShape'
    BY <1>1, <1>2 DEF LoadInv, LoadShape
<1>4. OneLoadInv'
    BY <1>1, <1>2 DEF LoadInv, OneLoadInv
<1> QED
    BY <1>3, <1>4 DEF LoadInv

\* A call that fails: the rows are of one run before and after.
LEMMA CallFailsHolds ==
    ASSUME Load!EphemeralLoadAssumption, LoadInv, Load!CallFails PROVE LoadInv'
<1>1. wanted \in Nat \ {0} /\ 1 .. wanted \subseteq Load!Rows
    BY RowsOfPresets DEF LoadInv, LoadShape
<1>2. \A m \in Load!Calls :
         /\ m \in [op : {"DELETE", "INSERT"}, id : Load!Rows, run : Nat \ {0}]
         /\ m.run = run /\ m.id \in todo
         /\ m.op = "INSERT" => load = "write"
    BY <1>1 DEF LoadInv, LoadShape, Load!Calls, Load!Message
<1>3. /\ load' = "failed" /\ wanted' = wanted /\ run' = run /\ disturbed' = disturbed
    BY DEF Load!CallFails, Load!Failed, Load!store
<1>4. CASE rows' = rows /\ late' \in {late} \cup {late \cup {m} : m \in Load!Calls}
    <2>1. LoadShape'
        BY <1>2, <1>3, <1>4 DEF LoadInv, LoadShape
    <2>2. OneLoadInv'
        BY <1>3, <1>4 DEF LoadInv, OneLoadInv, Load!Existing
    <2> QED
        BY <2>1, <2>2 DEF LoadInv
<1>5. CASE late' = late /\ \E m \in Load!Calls : Load!Processed(m)
    <2>1. PICK m \in Load!Calls : Load!Processed(m)
        BY <1>5
    <2>2. CASE m.op = "DELETE"
        <3>1. /\ rows' \in [Load!Rows -> Nat] /\ Load!Existing' = Load!Existing \ {m.id}
              /\ \A j \in Load!Existing' : rows'[j] = rows[j]
            BY <1>2, <2>1, <2>2, DeletedRows DEF LoadInv, LoadShape, Load!Processed
        <3>2. LoadShape'
            BY <1>3, <1>5, <3>1 DEF LoadInv, LoadShape
        <3>3. OneLoadInv'
            BY <1>3, <3>1 DEF LoadInv, OneLoadInv
        <3> QED
            BY <3>2, <3>3 DEF LoadInv
    <2>3. CASE m.op = "INSERT"
        <3>1. /\ rows' \in [Load!Rows -> Nat] /\ Load!Existing' = Load!Existing \cup {m.id}
              /\ \A j \in Load!Existing : rows'[j] = rows[j]
              /\ m.id \notin Load!Existing => rows'[m.id] = run
            BY <1>2, <2>1, <2>3, InsertedRows DEF LoadInv, LoadShape, Load!Processed
        <3>2. LoadShape'
            BY <1>3, <1>5, <3>1 DEF LoadInv, LoadShape
        <3>3. OneLoadInv'
            BY <1>2, <1>3, <2>1, <2>3, <3>1 DEF LoadInv, OneLoadInv
        <3> QED
            BY <3>2, <3>3 DEF LoadInv
    <2> QED
        BY <1>2, <2>1, <2>2, <2>3
<1> QED
    BY <1>4, <1>5 DEF Load!CallFails, Load!store

LEMMA LateHolds ==
    ASSUME LoadInv, NEW m \in late, Load!LateRequest(m) PROVE LoadInv'
<1>1. m \in [op : {"DELETE", "INSERT"}, id : Load!Rows, run : Nat \ {0}]
    BY DEF LoadInv, LoadShape
<1>2. rows' \in [Load!Rows -> Nat]
    BY <1>1, DeletedRows, InsertedRows DEF LoadInv, LoadShape, Load!LateRequest, Load!Processed
<1>3. LoadShape'
    BY <1>1, <1>2 DEF LoadInv, LoadShape, Load!LateRequest
<1> QED
    BY <1>3 DEF LoadInv, OneLoadInv, Load!LateRequest

LEMMA LoadStays == ASSUME LoadInv, UNCHANGED Load!vars PROVE LoadInv'
<1>1. UNCHANGED <<wanted, rows, late, disturbed, run, load, todo>>
    BY DEF Load!vars, Load!store
<1> QED
    BY <1>1 DEF LoadInv, LoadShape, OneLoadInv, Load!Existing

\* Whatever earlier runs left half-deleted or half-written, a cell that ends
\* without an error leaves one load: as many platforms as the preset has, all of
\* one run, unless a request that was given up has been processed since.
THEOREM LoadIsOneRun ==
    ASSUME Load!EphemeralLoadAssumption PROVE Load!Spec => []LoadedIsOneLoad
<1>1. Load!Init => LoadInv
    BY LoadInitHolds
<1>2. LoadInv /\ [Load!Next]_(Load!vars) => LoadInv'
    <2> SUFFICES ASSUME LoadInv, [Load!Next]_(Load!vars) PROVE LoadInv'
        OBVIOUS
    <2>1. CASE Load!Step
        BY <2>1, DeleteRowHolds, WriteRowHolds, DoneHolds, CellHolds DEF Load!Step
    <2>2. CASE Load!RunCell \/ Load!CallFails \/ \E m \in late : Load!LateRequest(m)
        BY <2>2, CellHolds, CallFailsHolds, LateHolds
    <2>3. CASE Load!Stop \/ UNCHANGED Load!vars
        BY <2>3, LoadStays DEF Load!Stop
    <2> QED
        BY <2>1, <2>2, <2>3 DEF Load!Next
<1>3. LoadInv => LoadedIsOneLoad
    BY DEF LoadInv, OneLoadInv, LoadedIsOneLoad, Load!LoadedIsOneLoad
<1> QED
    BY <1>1, <1>2, <1>3, PTL DEF Load!Spec
=============================================================================
