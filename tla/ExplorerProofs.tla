------------------------------ MODULE ExplorerProofs ------------------------------
(***************************************************************************)
(* The notebook explorers (MCExplorer).  For any number of runs, with or   *)
(* without failing writes and restarts of the kernel: tabs keep their      *)
(* titles and runs keep their files.  And in a session, whatever other     *)
(* clients write meanwhile: the cached pull, the provisioned model and the *)
(* Delta tab are what they are taken for.                                  *)
(***************************************************************************)
EXTENDS MCExplorer, SequenceTheorems, FiniteSetTheorems, TLAPS

-----------------------------------------------------------------------------
(***************************************************************************)
(* Closing a tab                                                           *)
(***************************************************************************)
LEMMA WithoutFacts ==
    ASSUME NEW S, NEW s \in Seq(S), NEW i \in 1 .. Len(s)
    PROVE  /\ Without(s, i) \in Seq(S) /\ Len(Without(s, i)) = Len(s) - 1
           /\ \A j \in 1 .. Len(s) - 1 : Without(s, i)[j] = s[IF j < i THEN j ELSE j + 1]
<1> DEFINE m == Len(s)
           f == SubSeq(s, 1, i - 1)
           g == SubSeq(s, i + 1, m)
<1>1. m \in Nat /\ i \in Nat /\ 1 <= i /\ i <= m /\ \A j \in 1 .. m : s[j] \in S
    OBVIOUS
<1>2. /\ f \in Seq(S) /\ Len(f) = IF 1 <= i - 1 THEN i - 1 - 1 + 1 ELSE 0
      /\ \A j \in 1 .. i - 1 - 1 + 1 : f[j] = s[1 + j - 1]
    <2> HIDE DEF m
    <2>1. i - 1 \in Int /\ \A j \in 1 .. i - 1 : s[j] \in S
        BY <1>1
    <2> QED
        BY <2>1, SubSeqProperties
<1>3. /\ g \in Seq(S) /\ Len(g) = IF i + 1 <= m THEN m - (i + 1) + 1 ELSE 0
      /\ \A j \in 1 .. m - (i + 1) + 1 : g[j] = s[i + 1 + j - 1]
    <2> HIDE DEF m
    <2>1. i + 1 \in Int /\ m \in Int /\ \A j \in i + 1 .. m : s[j] \in S
        BY <1>1
    <2> QED
        BY <2>1, SubSeqProperties
<1>4. Without(s, i) = f \o g
    BY DEF Without
<1> HIDE DEF f, g, m
<1>5. Len(f) = i - 1 /\ Len(g) = m - i
    BY <1>1, <1>2, <1>3
<1>6. /\ \A j \in 1 .. i - 1 : f[j] = s[j]
      /\ \A j \in 1 .. m - i : g[j] = s[i + j]
    BY <1>1, <1>2, <1>3
<1>7. /\ f \o g \in Seq(S) /\ Len(f \o g) = Len(f) + Len(g)
      /\ \A j \in 1 .. Len(f) + Len(g) :
            (f \o g)[j] = IF j <= Len(f) THEN f[j] ELSE g[j - Len(f)]
    BY <1>2, <1>3, ConcatProperties
<1>8. \A j \in 1 .. m - 1 : (f \o g)[j] = s[IF j < i THEN j ELSE j + 1]
    <2> SUFFICES ASSUME NEW j \in 1 .. m - 1
                 PROVE  (f \o g)[j] = s[IF j < i THEN j ELSE j + 1]
        OBVIOUS
    <2>1. CASE j < i
        BY <2>1, <1>1, <1>5, <1>6, <1>7
    <2>2. CASE j >= i
        <3>1. j - (i - 1) \in 1 .. m - i /\ i + (j - (i - 1)) = j + 1
            BY <2>2, <1>1
        <3>2. (f \o g)[j] = g[j - (i - 1)]
            BY <2>2, <1>1, <1>5, <1>7, SMTT(30)
        <3> QED
            BY <2>2, <3>1, <3>2, <1>1, <1>6
    <2>3. i \in Int /\ j \in Int
        BY <1>1
    <2>4. j < i \/ j >= i
        BY <2>3
    <2> QED
        BY <2>1, <2>2, <2>4
<1> QED
    BY <1>1, <1>4, <1>5, <1>7, <1>8 DEF m

-----------------------------------------------------------------------------
(***************************************************************************)
(* The invariant: the number of a run that is being saved is still free,   *)
(* and the stable name holds this run once its own file is written.        *)
(***************************************************************************)
RunInv ==
    /\ pc = "compute" => made < MaxRuns
    /\ pc \in {"latest", "run_csv", "panel"} => run_count < made /\ res = made
    /\ pc = "run_csv" => latest = res

FileInv ==
    /\ \A s \in saved : s.n <= IF pc = "panel" THEN run_count + 1 ELSE run_count
    /\ \A i \in Numbers : run_csv[i] <= made

IInv == TypeOK /\ RunInv /\ FileInv /\ TitlesMatchTabs /\ SavedRunsKeepTheirFile

LEMMA ContentsAreNumbers ==
    ASSUME ExplorerRunsAssumption PROVE Contents \subseteq Int /\ \A c \in Contents : c >= -1
BY DEF ExplorerRunsAssumption, Contents, Numbers, Absent, Torn

LEMMA InitHolds == ASSUME ExplorerRunsAssumption, Init PROVE IInv
<1>1. Absent \in Contents /\ 0 \in 0 .. MaxRuns
    BY DEF ExplorerRunsAssumption, Contents, Absent
<1>2. TypeOK
    BY <1>1 DEF Init, TypeOK
<1> QED
    BY <1>1, <1>2 DEF Init, IInv, RunInv, FileInv, TitlesMatchTabs, SavedRunsKeepTheirFile,
                      Absent, Torn, ExplorerRunsAssumption

\* Steps that leave files and page alone.
LEMMA QuietHolds ==
    ASSUME ExplorerRunsAssumption, IInv, Press \/ Compute \/ UNCHANGED vars
    PROVE  IInv'
<1>1. UNCHANGED <<latest, run_csv, run_count, tabs, titles, saved>>
    BY DEF Press, Compute, vars, files, page
<1>2. made' \in {made, made + 1} /\ made' <= MaxRuns /\ (pc = "compute" /\ made' # made => res' = made')
    BY DEF Press, Compute, vars, IInv, RunInv, TypeOK, ExplorerRunsAssumption
<1>3. made \in Nat /\ made' \in Nat /\ run_count \in Nat /\ run_count <= made
    BY <1>2 DEF IInv, TypeOK, ExplorerRunsAssumption
<1>4. TypeOK'
    BY <1>1, <1>2, <1>3 DEF Press, Compute, vars, IInv, TypeOK, ExplorerRunsAssumption
<1>5. RunInv'
    BY <1>1, <1>2, <1>3 DEF Press, Compute, vars, IInv, RunInv
<1>6. FileInv'
    <2>1. pc' = "panel" <=> pc = "panel"
        BY DEF Press, Compute, vars
    <2>2. \A i \in Numbers : run_csv[i] <= made /\ run_csv[i] \in Int
        BY ContentsAreNumbers DEF IInv, FileInv, TypeOK
    <2> QED
        BY <1>1, <1>2, <1>3, <2>1, <2>2 DEF IInv, FileInv
<1>7. TitlesMatchTabs' /\ SavedRunsKeepTheirFile'
    BY <1>1 DEF IInv, TitlesMatchTabs, SavedRunsKeepTheirFile
<1> QED
    BY <1>4, <1>5, <1>6, <1>7 DEF IInv

\* The two writes, whole or not.
LEMMA WriteHolds ==
    ASSUME ExplorerRunsAssumption, IInv, WriteLatest \/ WriteRun \/ WriteFails
    PROVE  IInv'
<1> USE DEF n
<1>1. UNCHANGED <<run_count, tabs, titles, res, made>>
    BY DEF WriteLatest, WriteRun, WriteFails, page
<1>2. /\ pc \in {"latest", "run_csv"} /\ run_count < made /\ res = made
      /\ made \in 1 .. MaxRuns /\ run_count \in Nat /\ run_count + 1 \in Numbers
    BY DEF WriteLatest, WriteRun, WriteFails, IInv, RunInv, TypeOK, Numbers, ExplorerRunsAssumption
<1>3. /\ run_csv \in [Numbers -> Contents] /\ latest \in Contents
      /\ res \in Contents /\ Torn \in Contents
      /\ Contents \subseteq Int /\ \A c \in Contents : c >= -1
    BY <1>2, ContentsAreNumbers DEF IInv, TypeOK, Contents, Numbers
<1>4. \A s \in saved : s.n \in Int /\ s.n # run_count + 1 /\ s.n \in Numbers
    BY <1>2 DEF IInv, FileInv, TypeOK, Numbers
<1>5. CASE WriteLatest
    <2>1. TypeOK'
        BY <1>1, <1>2, <1>3, <1>5 DEF WriteLatest, IInv, TypeOK
    <2>2. RunInv' /\ FileInv'
        BY <1>1, <1>2, <1>5 DEF WriteLatest, IInv, RunInv, FileInv
    <2>3. TitlesMatchTabs' /\ SavedRunsKeepTheirFile'
        BY <1>1, <1>2, <1>5 DEF WriteLatest, IInv, FileInv, TitlesMatchTabs, SavedRunsKeepTheirFile
    <2> QED
        BY <2>1, <2>2, <2>3 DEF IInv
<1>6. CASE WriteRun
    <2>1. run_csv' \in [Numbers -> Contents]
          /\ run_csv'[run_count + 1] = res /\ latest = res /\ latest' = latest
          /\ \A i \in Numbers : i # run_count + 1 => run_csv'[i] = run_csv[i]
        BY <1>2, <1>3, <1>6 DEF WriteRun, IInv, RunInv
    <2>2. saved' = saved \cup {[n |-> run_count + 1, run |-> res]} /\ pc' = "panel"
        BY <1>6 DEF WriteRun
    <2>3. saved' \subseteq [n : Numbers, run : Numbers]
        BY <1>2, <2>2 DEF IInv, TypeOK, Numbers
    <2>4. TypeOK'
        BY <1>1, <2>1, <2>2, <2>3 DEF IInv, TypeOK
    <2>5. RunInv' /\ FileInv'
        BY <1>1, <1>2, <1>3, <1>4, <2>1, <2>2 DEF WriteRun, IInv, RunInv, FileInv, TypeOK
    <2>6. TitlesMatchTabs'
        BY <1>1 DEF IInv, TitlesMatchTabs
    <2>7. SavedRunsKeepTheirFile'
        BY <1>1, <1>2, <1>3, <1>4, <2>1, <2>2 DEF IInv, FileInv, SavedRunsKeepTheirFile
    <2> QED
        BY <2>4, <2>5, <2>6, <2>7 DEF IInv
<1>7. CASE WriteFails
    <2>1. /\ run_csv' \in [Numbers -> Contents] /\ latest' \in {latest, Torn}
          /\ \A i \in Numbers : run_csv'[i] \in {run_csv[i], Torn}
          /\ \A i \in Numbers : i # run_count + 1 => run_csv'[i] = run_csv[i]
          /\ saved' = saved /\ pc' = "panel"
        BY <1>2, <1>3, <1>7 DEF WriteFails
    <2>2. TypeOK'
        BY <1>1, <1>3, <2>1 DEF IInv, TypeOK
    <2>3. RunInv' /\ FileInv'
        BY <1>1, <1>2, <1>3, <1>4, <2>1 DEF IInv, RunInv, FileInv, Torn
    <2>4. TitlesMatchTabs'
        BY <1>1 DEF IInv, TitlesMatchTabs
    <2>5. SavedRunsKeepTheirFile'
        BY <1>1, <1>2, <1>3, <1>4, <2>1 DEF IInv, SavedRunsKeepTheirFile, Torn
    <2> QED
        BY <2>2, <2>3, <2>4, <2>5 DEF IInv
<1> QED
    BY <1>5, <1>6, <1>7

\* The panel takes the number; a failing one uses it up.
LEMMA PanelHolds ==
    ASSUME ExplorerRunsAssumption, IInv, Panel \/ PanelFails
    PROVE  IInv'
<1> USE DEF n
<1>1. /\ UNCHANGED <<latest, run_csv, res, made, saved>> /\ pc' = "idle"
      /\ pc = "panel" /\ run_count' = run_count + 1
    BY DEF Panel, PanelFails, files
<1>2. /\ run_count < made /\ res = made /\ made \in 1 .. MaxRuns /\ run_count \in Nat
      /\ run_count + 1 \in Numbers /\ res \in Numbers
      /\ tabs \in Seq([n : Numbers, run : Numbers]) /\ Len(tabs) <= run_count /\ Len(tabs) \in Nat
    BY <1>1 DEF IInv, RunInv, TypeOK, Numbers, ExplorerRunsAssumption
<1>3. /\ tabs' \in Seq([n : Numbers, run : Numbers]) /\ Len(tabs') <= run_count + 1
      /\ titles' \in [Numbers -> 0 .. MaxRuns]
      /\ TitlesMatchTabs'
    <2>1. CASE PanelFails
        BY <2>1, <1>2 DEF PanelFails, page, IInv, TypeOK, TitlesMatchTabs
    <2>2. CASE Panel
        <3> DEFINE tab == [n |-> run_count + 1, run |-> res]
        <3>1. tab \in [n : Numbers, run : Numbers]
            BY <1>2
        <3>2. tabs' = Append(tabs, tab) /\ titles' = [titles EXCEPT ![Len(tabs) + 1] = run_count + 1]
            BY <2>2 DEF Panel
        <3>3. Len(tabs) + 1 \in Numbers /\ run_count + 1 \in 0 .. MaxRuns
            BY <1>2 DEF Numbers, ExplorerRunsAssumption
        <3>4. /\ titles' \in [Numbers -> 0 .. MaxRuns] /\ titles'[Len(tabs) + 1] = run_count + 1
              /\ \A i \in 1 .. Len(tabs) : titles'[i] = titles[i]
            <4>1. titles \in [Numbers -> 0 .. MaxRuns]
                BY DEF IInv, TypeOK
            <4>2. Len(tabs) \in Nat /\ \A i \in 1 .. Len(tabs) : i \in Numbers /\ i # Len(tabs) + 1
                <5> DEFINE m == Len(tabs)
                <5>1. m \in Nat /\ run_count \in Nat /\ m <= run_count /\ run_count < MaxRuns /\ MaxRuns \in Nat
                    BY <1>2 DEF Numbers, ExplorerRunsAssumption
                <5> HIDE DEF m
                <5>2. \A i \in 1 .. m : i \in Numbers /\ i # m + 1
                    BY <5>1 DEF Numbers
                <5> QED
                    BY <5>1, <5>2 DEF m
            <4> HIDE DEF tab, n
            <4> QED
                BY <3>2, <3>3, <4>1, <4>2
        <3>5. /\ tabs' \in Seq([n : Numbers, run : Numbers]) /\ Len(tabs') = Len(tabs) + 1
              /\ tabs'[Len(tabs) + 1] = tab /\ \A i \in 1 .. Len(tabs) : tabs'[i] = tabs[i]
            BY <1>2, <3>1, <3>2
        <3>6. TitlesMatchTabs'
            <4>1. \A i \in 1 .. Len(tabs) : titles[i] = tabs[i].n
                BY <1>2 DEF IInv, TitlesMatchTabs
            <4>2. tab.n = run_count + 1
                OBVIOUS
            <4>3. DOMAIN tabs' = 1 .. Len(tabs) + 1
                BY <3>5
            <4>4. \A i \in 1 .. Len(tabs) + 1 : i \in 1 .. Len(tabs) \/ i = Len(tabs) + 1
                BY <1>2
            <4> HIDE DEF tab
            <4> QED
                BY <3>4, <3>5, <4>1, <4>2, <4>3, <4>4 DEF TitlesMatchTabs
        <3> QED
            BY <1>2, <3>4, <3>5, <3>6
    <2> QED
        BY <2>1, <2>2
<1>4. TypeOK'
    BY <1>1, <1>2, <1>3 DEF IInv, TypeOK
<1>5. RunInv' /\ FileInv' /\ SavedRunsKeepTheirFile'
    BY <1>1 DEF IInv, RunInv, FileInv, SavedRunsKeepTheirFile
<1> QED
    BY <1>3, <1>4, <1>5 DEF IInv

\* A closed tab takes its title along, and no other one's.
LEMMA CloseHolds ==
    ASSUME ExplorerRunsAssumption, IInv, NEW i \in Numbers, Close(i)
    PROVE  IInv'
<1>1. UNCHANGED <<latest, run_csv, run_count, pc, res, made, saved>> /\ pc = "idle"
    BY DEF Close, files
<1>2. /\ tabs \in Seq([n : Numbers, run : Numbers]) /\ i \in 1 .. Len(tabs) /\ Len(tabs) \in Nat
      /\ tabs' = Without(tabs, i) /\ Len(tabs) <= run_count
      /\ run_count \in Nat /\ run_count <= made /\ made \in 0 .. MaxRuns
    BY DEF Close, IInv, TypeOK, ExplorerRunsAssumption
<1>3. /\ tabs' \in Seq([n : Numbers, run : Numbers]) /\ Len(tabs') = Len(tabs) - 1
      /\ \A j \in 1 .. Len(tabs) - 1 : tabs'[j] = tabs[IF j < i THEN j ELSE j + 1]
    BY <1>2, WithoutFacts
<1>4. /\ titles' \in [Numbers -> 0 .. MaxRuns]
      /\ \A j \in 1 .. Len(tabs) - 1 : titles'[j] = titles[IF j < i THEN j ELSE j + 1]
    <2>1. titles \in [Numbers -> 0 .. MaxRuns] /\ Len(tabs) <= MaxRuns
        BY <1>2 DEF IInv, TypeOK, ExplorerRunsAssumption
    <2>2. titles' = [j \in Numbers |-> IF j \in i .. Len(tabs) - 1 THEN titles[j + 1] ELSE titles[j]]
        BY <2>1 DEF Close
    <2> DEFINE m == Len(tabs)
    <2>3. m \in Nat /\ m <= MaxRuns /\ MaxRuns \in Nat /\ i \in 1 .. m
        BY <1>2, <2>1 DEF ExplorerRunsAssumption
    <2> HIDE DEF m
    <2>4. \A j \in 1 .. m - 1 : j \in Numbers /\ j + 1 \in Numbers /\ (j \in i .. m - 1 <=> ~ j < i)
        BY <2>3 DEF Numbers
    <2>5. \A j \in i .. m - 1 : j + 1 \in Numbers
        BY <2>3 DEF Numbers
    <2>6. titles' = [j \in Numbers |-> IF j \in i .. m - 1 THEN titles[j + 1] ELSE titles[j]]
        BY <2>2 DEF m
    <2>7. titles' \in [Numbers -> 0 .. MaxRuns]
        BY <2>1, <2>5, <2>6
    <2>8. \A j \in 1 .. m - 1 : titles'[j] = titles[IF j < i THEN j ELSE j + 1]
        BY <2>4, <2>6
    <2> QED
        BY <2>7, <2>8 DEF m
<1>5. TypeOK'
    <2>1. Len(tabs') <= run_count
        <3> HIDE DEF Without
        <3> DEFINE m == Len(tabs)
        <3>1. m \in Nat /\ m <= run_count /\ Len(tabs') = m - 1
            BY <1>2, <1>3
        <3> HIDE DEF m
        <3> QED
            BY <3>1, <1>2
    <2> QED
        BY <1>1, <1>3, <1>4, <2>1 DEF IInv, TypeOK
<1>6. TitlesMatchTabs'
    <2>1. \A j \in 1 .. Len(tabs) : titles[j] = tabs[j].n
        BY <1>2 DEF IInv, TitlesMatchTabs
    <2>2. \A j \in 1 .. Len(tabs) - 1 : titles'[j] = tabs'[j].n
        <3> DEFINE m == Len(tabs)
        <3>1. m \in Nat /\ i \in 1 .. m /\ Len(tabs) = m
            BY <1>2
        <3> HIDE DEF m
        <3>2. \A j \in 1 .. m - 1 : (IF j < i THEN j ELSE j + 1) \in 1 .. m
            BY <3>1
        <3> QED
            BY <1>3, <1>4, <2>1, <3>1, <3>2
    <2>3. DOMAIN tabs' = 1 .. Len(tabs) - 1
        BY <1>3
    <2> QED
        BY <2>2, <2>3 DEF TitlesMatchTabs
<1>7. RunInv' /\ FileInv' /\ SavedRunsKeepTheirFile'
    BY <1>1 DEF IInv, RunInv, FileInv, SavedRunsKeepTheirFile
<1> QED
    BY <1>5, <1>6, <1>7 DEF IInv

\* A new session knows of no run; files of the old one stay, or are torn.
LEMMA RestartHolds ==
    ASSUME ExplorerRunsAssumption, IInv, RestartKernel
    PROVE  IInv'
<1> USE DEF n
<1>1. /\ run_count' = 0 /\ tabs' = <<>> /\ titles' = [i \in Numbers |-> 0]
      /\ pc' = "idle" /\ saved' = {} /\ UNCHANGED <<res, made>>
    BY DEF RestartKernel
<1>2. /\ run_csv \in [Numbers -> Contents] /\ latest \in Contents /\ made \in Nat /\ Torn \in Contents
      /\ Contents \subseteq Int /\ \A c \in Contents : c >= -1
    BY ContentsAreNumbers DEF IInv, TypeOK, Contents, ExplorerRunsAssumption
<1>3. /\ run_csv' \in [Numbers -> Contents] /\ latest' \in {latest, Torn}
      /\ \A i \in Numbers : run_csv'[i] \in {run_csv[i], Torn}
    BY <1>2 DEF RestartKernel, files
<1>4. TypeOK'
    BY <1>1, <1>2, <1>3 DEF IInv, TypeOK, ExplorerRunsAssumption
<1>5. RunInv' /\ TitlesMatchTabs'
    BY <1>1 DEF RunInv, TitlesMatchTabs
<1>6. FileInv' /\ SavedRunsKeepTheirFile'
    BY <1>1, <1>2, <1>3 DEF IInv, FileInv, SavedRunsKeepTheirFile, Torn
<1> QED
    BY <1>4, <1>5, <1>6 DEF IInv

LEMMA Invariance == ASSUME ExplorerRunsAssumption PROVE Spec => []IInv
<1>1. Init => IInv
    BY InitHolds
<1>2. IInv /\ [Next]_vars => IInv'
    BY QuietHolds, WriteHolds, PanelHolds, CloseHolds, RestartHolds DEF Next
<1> QED
    BY <1>1, <1>2, PTL DEF Spec

-----------------------------------------------------------------------------
\* Every open tab is titled with its own run, whatever is closed in whatever order
\* and whatever fails (_append_run_panel, _close_run).
THEOREM TabsKeepTheirTitles == ASSUME ExplorerRunsAssumption PROVE Spec => []TitlesMatchTabs
<1>1. IInv => TitlesMatchTabs
    BY DEF IInv
<1> QED
    BY Invariance, <1>1, PTL

\* No later run of a session writes into the file of an earlier one, and the
\* stable name is never behind (run, _run_csv_path).
THEOREM RunsKeepTheirFiles == ASSUME ExplorerRunsAssumption PROVE Spec => []SavedRunsKeepTheirFile
<1>1. IInv => SavedRunsKeepTheirFile
    BY DEF IInv
<1> QED
    BY Invariance, <1>1, PTL

-----------------------------------------------------------------------------
(***************************************************************************)
(* The session                                                             *)
(***************************************************************************)
SessionShape ==
    /\ model = [i \in Instances |-> model[i]]
    /\ touched \in BOOLEAN
    /\ pulled # None => pulled \in Session!PulledElements

\* The elements a handler took belong to its widgets, and their epoch is the one
\* they were pulled with (0 stands for no epoch when a model is provisioned).
ElementsTaken ==
    /\ session_pc # "idle" => ui.target \in Instances
    /\ session_pc \in {"push", "oracle", "plot"} =>
          \/ ui.mode = "Walker" /\ elems.from = "walker"
          \/ /\ ui.mode = "Spacetime" /\ elems \in Session!PulledElements
             /\ (session_pc = "push" => elems.model.epoch # 0) => ref = elems.model.epoch

\* The pair is dropped when the elements are taken, and set by this run or not at all.
PairOfThisRun ==
    /\ session_pc = "oracle" => pair = None
    /\ session_pc = "plot" /\ pair # None =>
          /\ ui.compare
          /\ pair.elems = elems /\ pair.ref = ref /\ pair.target = ui.target

SessionInv ==
    /\ SessionShape /\ ElementsTaken /\ PairOfThisRun
    /\ CacheIsTheInstance /\ ProvisionKeepsConstellation /\ DeltaOfThisRun

LEMMA InitSession ==
    ASSUME Session!ExplorerSessionAssumption, Session!Init PROVE SessionInv
<1>1. SessionShape /\ ElementsTaken /\ PairOfThisRun
    BY DEF Session!Init, SessionShape, ElementsTaken, PairOfThisRun
<1>2. CacheIsTheInstance /\ ProvisionKeepsConstellation /\ DeltaOfThisRun
    BY DEF Session!Init, CacheIsTheInstance, ProvisionKeepsConstellation, DeltaOfThisRun,
           Session!CacheIsTheInstance, Session!ProvisionKeepsConstellation, Session!DeltaOfThisRun
<1> QED
    BY <1>1, <1>2 DEF SessionInv

\* Epochs are no smaller than 0, so NoEpoch is none of them.
LEMMA EpochsAreNat ==
    ASSUME Session!ExplorerSessionAssumption, NEW e \in Session!PulledElements
    PROVE  e.model.epoch \in Nat /\ e.model = [shape |-> e.model.shape, epoch |-> e.model.epoch]
BY DEF Session!ExplorerSessionAssumption, Session!PulledElements, Session!Models

\* A pull brings what the instance serves now, with its epoch.
LEMMA PullKeepsCache ==
    ASSUME Session!ExplorerSessionAssumption, SessionInv,
           NEW e, e = None \/ e \in Session!PulledElements,
           Session!PullReturns(e), model' = model
    PROVE  /\ SessionShape' /\ CacheIsTheInstance'
           /\ e # None => ref_epoch_s' = e.model.epoch
<1>1. /\ pulled' = e /\ touched' = FALSE
      /\ e # None => ref_epoch_s' = e.model.epoch
      /\ e # None => \/ e = [model |-> model[ui.target], from |-> ui.target]
                     \/ e.from = "dump"
    BY DEF Session!PullReturns, Session!Found
<1>2. SessionShape'
    BY <1>1 DEF SessionInv, SessionShape
<1>3. e # None /\ e.from \in Instances => e.model = model[e.from]
    BY <1>1 DEF Session!ExplorerSessionAssumption
<1>4. CacheIsTheInstance'
    BY <1>1, <1>3 DEF CacheIsTheInstance, Session!CacheIsTheInstance
<1> QED
    BY <1>1, <1>2, <1>4

\* elements() leaves the cache right, and what it returns is of the widgets.
LEMMA ElementsKeepCache ==
    ASSUME Session!ExplorerSessionAssumption, SessionInv,
           session_pc # "idle",
           NEW e \in Session!Elements, Session!ElementsReturn(e), model' = model
    PROVE  /\ SessionShape' /\ CacheIsTheInstance'
           /\ e # None =>
                 \/ ui.mode = "Walker" /\ e.from = "walker"
                 \/ /\ ui.mode = "Spacetime" /\ e \in Session!PulledElements
                    /\ ref_epoch_s' = e.model.epoch
<1>1. CASE /\ ui.mode = "Walker"
           /\ e = [model |-> [shape |-> ui.shape, epoch |-> Session!NoEpoch], from |-> "walker"]
           /\ UNCHANGED <<Session!cache, touched>>
    <2>1. UNCHANGED <<model, pulled, ref_epoch_s, touched>>
        BY <1>1 DEF Session!cache
    <2>2. SessionShape' /\ CacheIsTheInstance'
        BY <2>1 DEF SessionInv, SessionShape, CacheIsTheInstance, Session!CacheIsTheInstance
    <2> QED
        BY <1>1, <2>2
<1>2. CASE /\ ui.mode = "Spacetime" /\ pulled # None /\ e = pulled
           /\ UNCHANGED <<Session!cache, touched>>
    <2>1. UNCHANGED <<model, pulled, ref_epoch_s, touched>>
        BY <1>2 DEF Session!cache
    <2>2. SessionShape' /\ CacheIsTheInstance'
        BY <2>1 DEF SessionInv, SessionShape, CacheIsTheInstance, Session!CacheIsTheInstance
    <2>3. e \in Session!PulledElements /\ ref_epoch_s' = e.model.epoch
        BY <1>2, <2>1 DEF SessionInv, SessionShape, CacheIsTheInstance, Session!CacheIsTheInstance
    <2> QED
        BY <1>2, <2>2, <2>3
<1>3. CASE ui.mode = "Spacetime" /\ pulled = None /\ Session!PullReturns(e)
    <2>1. e = None \/ e \in Session!PulledElements
        <3>1. e \in Session!WalkerElements => e.from = "walker"
            BY DEF Session!WalkerElements
        <3>2. e # None => e.from \in Instances \cup {"dump"} /\ (e.from = "dump" \/ e.from = ui.target)
            BY <1>3 DEF Session!PullReturns, Session!Found, SessionInv, ElementsTaken
        <3> QED
            BY <3>1, <3>2 DEF Session!Elements, Session!ExplorerSessionAssumption
    <2> QED
        BY <1>3, <2>1, PullKeepsCache
<1> QED
    BY <1>1, <1>2, <1>3 DEF Session!ElementsReturn

\* The epoch a handler keeps of the elements it took.
LEMMA EpochKept ==
    ASSUME Session!ExplorerSessionAssumption, NEW e \in Session!PulledElements, NEW other,
           other = 0 \/ e.model.epoch # 0
    PROVE  Session!OrElse(e.model.epoch, other) = e.model.epoch
<1> DEFINE x == e.model.epoch
<1>1. x \in Nat
    BY EpochsAreNat
<1>2. Session!OrElse(x, other) = IF x \in {Session!NoEpoch, 0} THEN other ELSE x
    BY DEF Session!OrElse
<1>3. Session!NoEpoch \notin Nat
    BY DEF Session!NoEpoch
<1> HIDE DEF x
<1>4. other = 0 \/ x # 0
    BY DEF x
<1>5. Session!OrElse(x, other) = x
    BY <1>1, <1>2, <1>3, <1>4
<1> QED
    BY <1>5 DEF x

\* What is shown stays as it is.
LEMMA ShownStays ==
    ASSUME SessionInv, UNCHANGED <<panel, written>>
    PROVE  ProvisionKeepsConstellation' /\ DeltaOfThisRun'
BY DEF SessionInv, ProvisionKeepsConstellation, DeltaOfThisRun,
       Session!ProvisionKeepsConstellation, Session!DeltaOfThisRun

\* The instances change beneath the cache: touched says so.
LEMMA InstancesStep ==
    ASSUME SessionInv,
           \/ \E i \in Instances : \E m : Session!OtherClientWrites(i, m)
           \/ \E i \in Instances : Session!Predict(i)
    PROVE  SessionInv'
<1>1. UNCHANGED <<pulled, ref_epoch_s, ui, session_pc, elems, ref, pair, panel, written>>
    BY DEF Session!OtherClientWrites, Session!Predict, Session!cache, Session!handler, Session!shown
<1>2. \/ \E i \in Instances : \E m :
            /\ model' = [model EXCEPT ![i] = m]
            /\ touched' = (touched \/ (pulled # None /\ pulled.from = i))
      \/ UNCHANGED <<model, touched>>
    BY DEF Session!OtherClientWrites, Session!Predict, Session!PulledFrom
<1>3. SessionShape'
    BY <1>1, <1>2 DEF SessionInv, SessionShape
<1>4. CacheIsTheInstance'
    BY <1>1, <1>2 DEF SessionInv, SessionShape, CacheIsTheInstance, Session!CacheIsTheInstance
<1>5. ElementsTaken' /\ PairOfThisRun'
    BY <1>1 DEF SessionInv, ElementsTaken, PairOfThisRun, Session!PulledElements, Session!Models,
                Session!Shapes
<1> QED
    BY <1>1, <1>3, <1>4, <1>5, ShownStays DEF SessionInv

LEMMA ClickStep ==
    ASSUME SessionInv, NEW u \in Session!SourceWidgets \cup Session!RunWidgets,
           NEW step \in {"pull", "provision", "workload"}, Session!Click(step, u)
    PROVE  SessionInv'
<1>1. /\ session_pc' = step /\ ui'.target \in Instances /\ panel' = None /\ written' = None
      /\ UNCHANGED <<model, touched, pulled, ref_epoch_s>>
    BY DEF Session!Click, Session!world, Session!cache, Session!SourceWidgets, Session!RunWidgets
<1>2. SessionShape' /\ CacheIsTheInstance'
    BY <1>1 DEF SessionInv, SessionShape, CacheIsTheInstance, Session!CacheIsTheInstance
<1>3. ElementsTaken' /\ PairOfThisRun'
    BY <1>1 DEF ElementsTaken, PairOfThisRun
<1>4. ProvisionKeepsConstellation' /\ DeltaOfThisRun'
    BY <1>1 DEF ProvisionKeepsConstellation, DeltaOfThisRun,
                Session!ProvisionKeepsConstellation, Session!DeltaOfThisRun
<1> QED
    BY <1>2, <1>3, <1>4 DEF SessionInv

\* A handler that is over has nothing taken.
LEMMA OverStep ==
    ASSUME Session!Over PROVE ElementsTaken' /\ PairOfThisRun'
BY DEF Session!Over, ElementsTaken, PairOfThisRun

LEMMA PullStep ==
    ASSUME Session!ExplorerSessionAssumption, SessionInv, Session!Pull
    PROVE  SessionInv'
<1>1. PICK e \in Session!PulledElements \cup {None} : Session!PullReturns(e)
    BY DEF Session!Pull
<1>2. Session!Over /\ UNCHANGED <<model, panel, written>>
    BY DEF Session!Pull, Session!world, Session!shown
<1> QED
    BY <1>1, <1>2, PullKeepsCache, OverStep, ShownStays DEF SessionInv

LEMMA ProvisionModelStep ==
    ASSUME Session!ExplorerSessionAssumption, SessionInv, Session!ProvisionModel
    PROVE  SessionInv'
<1>1. PICK e \in Session!Elements :
         /\ Session!ElementsReturn(e)
         /\ IF e = None THEN Session!Over
            ELSE /\ elems' = e /\ ref' = Session!OrElse(ref_epoch_s', PROVISION_EPOCH_S)
                 /\ session_pc' = "push" /\ UNCHANGED ui
    BY DEF Session!ProvisionModel
<1>2. session_pc = "provision" /\ UNCHANGED <<model, panel, written>>
    BY DEF Session!ProvisionModel, Session!world, Session!shown
<1>3. SessionShape' /\ CacheIsTheInstance'
    BY <1>1, <1>2, ElementsKeepCache
<1>4. ElementsTaken' /\ PairOfThisRun'
    <2>1. CASE e = None
        BY <1>1, <2>1, OverStep
    <2>2. CASE e # None
        <3>1. elems' = e /\ ref' = Session!OrElse(ref_epoch_s', PROVISION_EPOCH_S)
              /\ session_pc' = "push" /\ ui' = ui
            BY <1>1, <2>2
        <3>2. \/ ui.mode = "Walker" /\ e.from = "walker"
              \/ /\ ui.mode = "Spacetime" /\ e \in Session!PulledElements
                 /\ ref_epoch_s' = e.model.epoch
            BY <1>1, <1>2, <2>2, ElementsKeepCache
        <3>3. Session!PulledElements' = Session!PulledElements
            BY DEF Session!PulledElements, Session!Models, Session!Shapes
        <3> QED
            BY <1>2, <3>1, <3>2, <3>3, EpochKept DEF SessionInv, ElementsTaken, PairOfThisRun
    <2> QED
        BY <2>1, <2>2
<1> QED
    BY <1>2, <1>3, <1>4, ShownStays DEF SessionInv

\* The model written is the one pulled, if it has an epoch.
LEMMA ProvisionOkStep ==
    ASSUME Session!ExplorerSessionAssumption, SessionInv, Session!ProvisionOk
    PROVE  SessionInv'
<1>1. /\ session_pc = "push"
      /\ model' = [model EXCEPT ![ui.target] = Session!Generated]
      /\ pulled' = None /\ touched' = FALSE /\ Session!Over
      /\ written' = [mode |-> ui.mode, source |-> elems.model, target |-> ui.target,
                     model |-> Session!Generated]
      /\ panel' = panel
    BY DEF Session!ProvisionOk, Session!shown
<1>2. SessionShape' /\ CacheIsTheInstance'
    BY <1>1 DEF SessionInv, SessionShape, CacheIsTheInstance, Session!CacheIsTheInstance
<1>3. ProvisionKeepsConstellation'
    <2>1. ASSUME ui.mode = "Spacetime", elems.model.epoch # 0
          PROVE  Session!Generated = elems.model
        <3>1. elems \in Session!PulledElements /\ ref = elems.model.epoch
            BY <1>1, <2>1 DEF SessionInv, ElementsTaken
        <3> QED
            BY <3>1, EpochsAreNat DEF Session!Generated
    <2>2. /\ written'.mode = ui.mode /\ written'.source = elems.model
          /\ written'.model = Session!Generated
        BY <1>1
    <2> QED
        BY <2>1, <2>2 DEF ProvisionKeepsConstellation, Session!ProvisionKeepsConstellation
<1>4. DeltaOfThisRun'
    BY <1>1 DEF SessionInv, DeltaOfThisRun, Session!DeltaOfThisRun
<1> QED
    BY <1>1, <1>2, <1>3, <1>4, OverStep DEF SessionInv

LEMMA ProvisionFailsStep ==
    ASSUME SessionInv, Session!ProvisionFails
    PROVE  SessionInv'
<1>1. /\ Session!Over /\ UNCHANGED <<pulled, ref_epoch_s, panel, written>>
      /\ touched' = (touched \/ (pulled # None /\ pulled.from = ui.target /\ model' # model))
      /\ \/ model' = model
         \/ \E m : model' = [model EXCEPT ![ui.target] = m]
    BY DEF Session!ProvisionFails, Session!cache, Session!shown, Session!PulledFrom
<1>2. SessionShape'
    BY <1>1 DEF SessionInv, SessionShape
<1>3. CacheIsTheInstance'
    BY <1>1 DEF SessionInv, SessionShape, CacheIsTheInstance, Session!CacheIsTheInstance
<1> QED
    BY <1>1, <1>2, <1>3, OverStep, ShownStays DEF SessionInv

LEMMA WorkloadStep ==
    ASSUME Session!ExplorerSessionAssumption, SessionInv, Session!Workload
    PROVE  SessionInv'
<1>1. PICK e \in Session!Elements : Session!ElementsReturn(e)
    BY DEF Session!Workload
<1>2. /\ session_pc = "workload" /\ session_pc' = "source"
      /\ UNCHANGED <<ui, model, panel, written>>
    BY DEF Session!Workload, Session!world, Session!shown
<1>3. ElementsTaken' /\ PairOfThisRun'
    BY <1>2 DEF SessionInv, ElementsTaken, PairOfThisRun
<1> QED
    BY <1>1, <1>2, <1>3, ElementsKeepCache, ShownStays DEF SessionInv

LEMMA SourceStep ==
    ASSUME Session!ExplorerSessionAssumption, SessionInv, Session!Source
    PROVE  SessionInv'
<1>1. PICK e \in Session!Elements :
         /\ Session!ElementsReturn(e)
         /\ IF e = None THEN Session!Over /\ UNCHANGED pair
            ELSE /\ elems' = e /\ ref' = Session!OrElse(ref_epoch_s', 0) /\ pair' = None
                 /\ session_pc' = "oracle" /\ UNCHANGED ui
    BY DEF Session!Source
<1>2. session_pc = "source" /\ UNCHANGED <<model, panel, written>>
    BY DEF Session!Source, Session!world
<1>3. SessionShape' /\ CacheIsTheInstance'
    BY <1>1, <1>2, ElementsKeepCache
<1>4. ElementsTaken' /\ PairOfThisRun'
    <2>1. CASE e = None
        BY <1>1, <2>1, OverStep
    <2>2. CASE e # None
        <3>1. elems' = e /\ ref' = Session!OrElse(ref_epoch_s', 0) /\ pair' = None
              /\ session_pc' = "oracle" /\ ui' = ui
            BY <1>1, <2>2
        <3>2. \/ ui.mode = "Walker" /\ e.from = "walker"
              \/ /\ ui.mode = "Spacetime" /\ e \in Session!PulledElements
                 /\ ref_epoch_s' = e.model.epoch
            BY <1>1, <1>2, <2>2, ElementsKeepCache
        <3>3. Session!PulledElements' = Session!PulledElements
            BY DEF Session!PulledElements, Session!Models, Session!Shapes
        <3> QED
            BY <1>2, <3>1, <3>2, <3>3, EpochKept DEF SessionInv, ElementsTaken, PairOfThisRun
    <2> QED
        BY <2>1, <2>2
<1> QED
    BY <1>2, <1>3, <1>4, ShownStays DEF SessionInv

\* The oracle is asked, or not: the handler goes on with what it took, or ends.
LEMMA OracleStepKeeps ==
    ASSUME SessionInv,
           Session!OracleOk \/ Session!OracleEmpty \/ Session!OracleFails \/ Session!NoOracle
    PROVE  SessionInv'
<1>1. session_pc = "oracle" /\ UNCHANGED <<model, pulled, ref_epoch_s, panel, written, touched>>
    BY DEF Session!OracleOk, Session!OracleEmpty, Session!OracleFails, Session!NoOracle,
           Session!world, Session!cache, Session!shown
<1>2. \/ Session!Over
      \/ /\ session_pc' = "plot" /\ UNCHANGED <<ui, elems, ref>>
         /\ \/ pair' = pair
            \/ ui.compare /\ pair' = Session!Compared
    BY DEF Session!OracleOk, Session!OracleEmpty, Session!OracleFails, Session!NoOracle,
           Session!handler, Session!shown
<1>3. pair = None
    BY <1>1 DEF SessionInv, PairOfThisRun
<1>4. SessionShape' /\ CacheIsTheInstance'
    BY <1>1 DEF SessionInv, SessionShape, CacheIsTheInstance, Session!CacheIsTheInstance
<1>5. ElementsTaken' /\ PairOfThisRun'
    <2>1. CASE Session!Over
        BY <2>1, OverStep
    <2>2. CASE /\ session_pc' = "plot" /\ UNCHANGED <<ui, elems, ref>>
               /\ \/ pair' = pair
                  \/ ui.compare /\ pair' = Session!Compared
        <3>1. ElementsTaken'
            BY <1>1, <2>2 DEF SessionInv, ElementsTaken, Session!PulledElements, Session!Models,
                              Session!Shapes
        <3>2. PairOfThisRun'
            BY <1>3, <2>2 DEF PairOfThisRun, Session!Compared
        <3> QED
            BY <3>1, <3>2
    <2> QED
        BY <1>2, <2>1, <2>2
<1> QED
    BY <1>1, <1>4, <1>5, ShownStays DEF SessionInv

\* The panel shows the pair of this run or none.
LEMMA PlotStep ==
    ASSUME SessionInv, Session!Plot
    PROVE  SessionInv'
<1>1. /\ session_pc = "plot" /\ Session!Over
      /\ panel' = [engine |-> ui.engine, compare |-> ui.compare, target |-> ui.target,
                   elems |-> elems, delta |-> pair]
      /\ UNCHANGED <<model, pulled, ref_epoch_s, written, touched>>
    BY DEF Session!Plot, Session!world, Session!cache
<1>2. SessionShape' /\ CacheIsTheInstance'
    BY <1>1 DEF SessionInv, SessionShape, CacheIsTheInstance, Session!CacheIsTheInstance
<1>3. ProvisionKeepsConstellation'
    BY <1>1 DEF SessionInv, ProvisionKeepsConstellation, Session!ProvisionKeepsConstellation
<1>4. pair # None => /\ ui.compare /\ pair.elems = elems /\ pair.ref = ref /\ pair.target = ui.target
    BY <1>1 DEF SessionInv, PairOfThisRun
<1>5. elems.from # "walker" => ref = elems.model.epoch
    BY <1>1 DEF SessionInv, ElementsTaken
<1>6. /\ panel'.compare = ui.compare /\ panel'.target = ui.target
      /\ panel'.elems = elems /\ panel'.delta = pair
    BY <1>1
<1>7. DeltaOfThisRun'
    BY <1>4, <1>5, <1>6 DEF DeltaOfThisRun, Session!DeltaOfThisRun
<1> QED
    BY <1>1, <1>2, <1>3, <1>7, OverStep DEF SessionInv

LEMMA StepSession ==
    ASSUME Session!ExplorerSessionAssumption, SessionInv, [Session!Next]_Session!vars
    PROVE  SessionInv'
<1>1. CASE UNCHANGED Session!vars
    <2>1. UNCHANGED <<model, pulled, ref_epoch_s, ui, session_pc, elems, ref, pair, panel, written, touched>>
        BY <1>1 DEF Session!vars, Session!world, Session!cache, Session!handler, Session!shown
    <2>2. SessionShape' /\ CacheIsTheInstance'
        BY <2>1 DEF SessionInv, SessionShape, CacheIsTheInstance, Session!CacheIsTheInstance
    <2>3. ElementsTaken' /\ PairOfThisRun'
        BY <2>1 DEF SessionInv, ElementsTaken, PairOfThisRun, Session!PulledElements, Session!Models,
                    Session!Shapes
    <2> QED
        BY <2>1, <2>2, <2>3, ShownStays DEF SessionInv
<1>2. CASE \/ \E i \in Instances, m \in [shape : Session!Shapes, epoch : Epochs] \cup {None} :
                 Session!OtherClientWrites(i, m)
           \/ \E i \in Instances : Session!Predict(i)
    BY <1>2, InstancesStep
<1>3. CASE \/ \E u \in Session!SourceWidgets : Session!Click("pull", u) \/ Session!Click("provision", u)
           \/ \E u \in Session!RunWidgets : Session!Click("workload", u)
    BY <1>3, ClickStep
<1>4. CASE Session!OracleOk \/ Session!OracleEmpty \/ Session!OracleFails \/ Session!NoOracle
    BY <1>4, OracleStepKeeps
<1> QED
    BY <1>1, <1>2, <1>3, <1>4, PullStep, ProvisionModelStep, ProvisionOkStep, ProvisionFailsStep,
       WorkloadStep, SourceStep, PlotStep DEF Session!Next

LEMMA SessionInvariant ==
    ASSUME Session!ExplorerSessionAssumption PROVE Session!Spec => []SessionInv
<1>1. Session!Init => SessionInv
    BY InitSession
<1>2. SessionInv /\ [Session!Next]_Session!vars => SessionInv'
    BY StepSession
<1> QED
    BY <1>1, <1>2, PTL DEF Session!Spec

\* For all instances, shapes and epochs, and whatever other clients and failing
\* pushes do between two steps of a handler: a cached pull is what its instance
\* serves, or somebody is known to have rewritten it, and goes with its epoch.
THEOREM CacheCorrect ==
    ASSUME Session!ExplorerSessionAssumption PROVE Session!Spec => []CacheIsTheInstance
<1>1. SessionInv => CacheIsTheInstance
    BY DEF SessionInv
<1> QED
    BY <1>1, SessionInvariant, PTL

\* A pulled constellation is provisioned with its own shape and epoch.
THEOREM ProvisionCorrect ==
    ASSUME Session!ExplorerSessionAssumption PROVE Session!Spec => []ProvisionKeepsConstellation
<1>1. SessionInv => ProvisionKeepsConstellation
    BY DEF SessionInv
<1> QED
    BY <1>1, SessionInvariant, PTL

\* A Delta tab is about the elements, the instance and the epoch of its own run.
THEOREM DeltaCorrect ==
    ASSUME Session!ExplorerSessionAssumption PROVE Session!Spec => []DeltaOfThisRun
<1>1. SessionInv => DeltaOfThisRun
    BY DEF SessionInv
<1> QED
    BY <1>1, SessionInvariant, PTL

-----------------------------------------------------------------------------
(***************************************************************************)
(* The oracle's segments read back                                         *)
(***************************************************************************)
LEMMA OracleCardinality ==
    ASSUME NEW S
    PROVE  Oracle!Cardinality(S) = Cardinality(S) /\ (Oracle!IsFiniteSet(S) <=> IsFiniteSet(S))
<1>1. Oracle!Cardinality(S) = Cardinality(S)
    BY Zenon DEF Oracle!Cardinality, Cardinality
<1>2. Oracle!IsFiniteSet(S) <=> IsFiniteSet(S)
    BY Zenon DEF Oracle!IsFiniteSet, IsFiniteSet
<1> QED
    BY <1>1, <1>2

LEMMA SegmentType ==
    ASSUME Oracle!OracleCoverageAssumption, NEW e \in Segments
    PROVE  LET m == Oracle!Length(e.acc)
           IN  /\ m \in Nat /\ e.acc \in [0 .. m - 1 -> BOOLEAN]
               /\ e.start \in Int /\ e.step \in Nat \ {0} /\ e.platforms \in Nat /\ e.rows \in BOOLEAN
<1>1. /\ e.start \in Int /\ e.step \in Nat \ {0} /\ e.platforms \in Nat /\ e.rows \in BOOLEAN
      /\ e.acc \in [0 .. Oracle!Cardinality(DOMAIN e.acc) - 1 -> BOOLEAN]
      /\ Oracle!IsFiniteSet(DOMAIN e.acc)
    BY DEF Oracle!OracleCoverageAssumption
<1>2. IsFiniteSet(DOMAIN e.acc) /\ Oracle!Cardinality(DOMAIN e.acc) = Cardinality(DOMAIN e.acc)
    BY <1>1, OracleCardinality
<1>3. Cardinality(DOMAIN e.acc) \in Nat
    BY <1>2, FS_CardinalityType
<1> QED
    BY <1>1, <1>2, <1>3 DEF Oracle!Length

\* Products that a decision procedure for linear arithmetic does not compare.
LEMMA ProductsGrow ==
    ASSUME NEW width \in Nat, NEW p \in Nat, NEW r \in Nat
    PROVE  /\ p * width \in Nat /\ (p + 1) * width = (p * width) + width
           /\ p * width <= (p + r) * width
<1>1. p * width \in Nat /\ r * width \in Nat
    OBVIOUS
<1>2. (p + r) * width = (p * width) + (r * width)
    OBVIOUS
<1>3. (p + 1) * width = (p * width) + width
    OBVIOUS
<1> QED
    BY <1>1, <1>2, <1>3

LEMMA RemainderUnique ==
    ASSUME NEW C \in Nat \ {0}, NEW q \in Int, NEW r \in 0 .. C - 1
    PROVE  ((C * q) + r) % C = r
  OBVIOUS

LEMMA Remainder ==
    ASSUME NEW C \in Nat \ {0}, NEW x \in Int
    PROVE  /\ x = (C * (x \div C)) + (x % C)
           /\ x % C \in 0 .. C - 1 /\ x \div C \in Int
  OBVIOUS

LEMMA QuotientAndRemainder ==
    ASSUME NEW width \in Nat \ {0}, NEW j \in Nat
    PROVE  j = ((j \div width) * width) + (j % width) /\ j % width \in 0 .. width - 1 /\ j \div width \in Nat
<1>1. j = (width * (j \div width)) + (j % width) /\ j % width \in 0 .. width - 1 /\ j \div width \in Int
    BY Remainder
<1> DEFINE d == j \div width
<1>2. d \in Int /\ width \in Nat /\ j = (width * d) + (j % width) /\ j % width < width /\ j % width \in Nat
    BY <1>1
<1> HIDE DEF d
<1>3. width * d = d * width
    BY <1>2
<1>4. ASSUME d < 0 PROVE FALSE
    <2>1. -(d + 1) \in Nat
        BY <1>2, <1>4
    <2>2. width * (-(d + 1)) \in Nat
        BY <1>2, <2>1
    <2>3. width * (-(d + 1)) = -(width * d) - width
        BY <1>2
    <2>4. width * d \in Int
        BY <1>2
    <2> QED
        BY <1>2, <2>2, <2>3, <2>4
<1>5. d \in Nat
    BY <1>2, <1>4
<1> QED
    BY <1>1, <1>3, <1>5 DEF d

\* Sample i of row p, in a list of rows of width samples.
InItsRow(q, width, p, i) == (p * width) + i \in 0 .. (q * width) - 1 /\ ((p * width) + i) % width = i

LEMMA SampleOfRow ==
    ASSUME NEW q \in Nat, NEW width \in Nat \ {0}, NEW p \in 0 .. q - 1, NEW i \in 0 .. width - 1
    PROVE  InItsRow(q, width, p, i)
<1>1. p \in Nat /\ i \in Nat /\ i < width /\ p + 1 \in Nat /\ q - (p + 1) \in Nat /\ width \in Nat
    OBVIOUS
<1>2. (p + 1) * width = (p * width) + width /\ p * width \in Nat
    BY <1>1, ProductsGrow
<1>3. (p + 1) * width <= ((p + 1) + (q - (p + 1))) * width
    BY <1>1, ProductsGrow
<1>4. (p + 1) + (q - (p + 1)) = q
    BY <1>1
<1>5. (p + 1) * width <= q * width
    BY <1>3, <1>4
<1>6. q * width \in Nat
    OBVIOUS
<1>7. ((width * p) + i) % width = i
    <2>1. p \in Int
        BY <1>1
    <2> QED
        BY <2>1, RemainderUnique
<1>8. width * p = p * width
    BY <1>1
<1>9. ((p * width) + i) % width = i
    BY <1>7, <1>8
<1>10. (p * width) + i <= (q * width) - 1
    BY <1>1, <1>2, <1>5, <1>6
<1> QED
    BY <1>1, <1>2, <1>6, <1>9, <1>10 DEF InItsRow

LEMMA RowOfSample ==
    ASSUME NEW q \in Nat, NEW width \in Nat \ {0}, NEW j \in 0 .. (q * width) - 1
    PROVE  j \div width \in 0 .. q - 1 /\ j = ((j \div width) * width) + (j % width)
<1>1. q * width \in Nat /\ j \in Nat /\ j < q * width
    OBVIOUS
<1>2. j = ((j \div width) * width) + (j % width) /\ j % width \in 0 .. width - 1 /\ j \div width \in Nat
    BY <1>1, QuotientAndRemainder
<1> DEFINE p == j \div width
           r == j % width
<1>3. p \in Nat /\ r \in Nat /\ j = (p * width) + r /\ width \in Nat
    BY <1>2
<1> HIDE DEF p, r
<1>4. p * width \in Nat /\ p * width <= j
    BY <1>3, ProductsGrow
<1>5. CASE p >= q
    <2>1. p - q \in Nat /\ q + (p - q) = p
        BY <1>3, <1>5
    <2>2. q * width <= (q + (p - q)) * width
        BY <1>3, <2>1, ProductsGrow
    <2>3. q * width <= p * width
        BY <2>1, <2>2
    <2> QED
        BY <1>1, <1>4, <2>3
<1>6. p \in 0 .. q - 1
    BY <1>3, <1>5
<1> QED
    BY <1>2, <1>6 DEF p

\* A segment's series has one value per instant it samples: whether any of its
\* samples of that instant is accessible.
LEMMA SeriesFacts ==
    ASSUME Oracle!OracleCoverageAssumption, Oracle!LayoutIsClear, NEW e \in Segments, ~Oracle!Skipped(e)
    PROVE  LET width == Oracle!TrueSamples(e)
               m == Oracle!Length(e.acc)
           IN  /\ width \in Nat \ {0} /\ m \in Nat
               /\ DOMAIN Oracle!Series(e) = 0 .. width - 1
               /\ \A i \in 0 .. width - 1 :
                     Oracle!Series(e)[i] <=> \E j \in 0 .. m - 1 : j % width = i /\ e.acc[j]
<1> DEFINE m == Oracle!Length(e.acc)
           width == Oracle!TrueSamples(e)
           q == Oracle!AtLeastOne(e.platforms)
<1>1. /\ m \in Nat /\ e.acc \in [0 .. m - 1 -> BOOLEAN] /\ e.platforms \in Nat /\ e.rows \in BOOLEAN
    BY SegmentType
<1>2. m # 0
    BY DEF Oracle!Skipped
<1>3. IF e.rows THEN e.platforms > 0 /\ m % e.platforms = 0
      ELSE e.platforms < 2 \/ m % e.platforms # 0
    BY <1>2 DEF Oracle!LayoutIsClear
<1>4. q \in Nat \ {0} /\ (e.platforms > 0 => q = e.platforms) /\ (e.platforms = 0 => q = 1)
    BY <1>1 DEF Oracle!AtLeastOne
<1>5. width = IF e.rows THEN m \div e.platforms ELSE m
    BY DEF Oracle!TrueSamples
<1>6. Oracle!NSamp(e) = IF m % q # 0 THEN m ELSE m \div q
    BY DEF Oracle!NSamp
<1> HIDE DEF m, width, q
<1>7. width \in Nat \ {0} /\ Oracle!NSamp(e) = width /\ (m = width \/ m = q * width)
    <2>1. CASE e.rows
        <3>1. q = e.platforms /\ m % q = 0 /\ width = m \div q
            BY <1>1, <1>3, <1>4, <1>5, <2>1
        <3>2. m = ((m \div q) * q) + (m % q) /\ m \div q \in Nat
            BY <1>1, <1>4, QuotientAndRemainder
        <3>3. m = (width * q) + 0 /\ width \in Nat /\ width * q = q * width /\ q * width \in Nat
            BY <1>4, <3>1, <3>2
        <3>5. m = q * width
            BY <3>3
        <3>4. width # 0
            BY <1>2, <1>4, <3>3, <3>5
        <3> QED
            BY <1>6, <3>1, <3>3, <3>4, <3>5
    <2>2. CASE ~e.rows /\ e.platforms < 2
        <3>1. q = 1 /\ width = m /\ m \div 1 = m
            BY <1>1, <1>4, <1>5, <2>2
        <3> QED
            BY <1>1, <1>2, <1>6, <3>1
    <2>3. CASE ~e.rows /\ m % e.platforms # 0 /\ e.platforms >= 2
        <3>1. q = e.platforms /\ width = m /\ m % q # 0
            BY <1>1, <1>4, <1>5, <2>3
        <3> QED
            BY <1>1, <1>2, <1>6, <3>1
    <2> QED
        BY <1>1, <1>3, <2>1, <2>2, <2>3
<1>8. Oracle!Series(e) = [i \in 0 .. width - 1 |->
            IF m = width THEN e.acc[i] ELSE \E p \in 0 .. q - 1 : e.acc[(p * width) + i]]
    BY <1>7 DEF Oracle!Series, m, q
<1>9. ASSUME NEW i \in 0 .. width - 1
      PROVE  Oracle!Series(e)[i] <=> \E j \in 0 .. m - 1 : j % width = i /\ e.acc[j]
    <2>1. CASE m = width
        <3>1. \A j \in 0 .. m - 1 : j % width = j
            BY <1>7, <2>1
        <3>2. Oracle!Series(e)[i] = e.acc[i] /\ e.acc[i] \in BOOLEAN /\ i \in 0 .. m - 1
            BY <1>1, <1>8, <2>1
        <3> QED
            BY <3>1, <3>2
    <2>2. CASE m # width
        <3>1. m = q * width /\ q \in Nat /\ width \in Nat \ {0}
            BY <1>4, <1>7, <2>2
        <3>2. Oracle!Series(e)[i] <=> \E p \in 0 .. q - 1 : e.acc[(p * width) + i]
            BY <1>8, <2>2
        <3>3. ASSUME NEW p \in 0 .. q - 1, e.acc[(p * width) + i]
              PROVE  \E j \in 0 .. m - 1 : j % width = i /\ e.acc[j]
            <4> DEFINE j == (p * width) + i
            <4>1. j \in 0 .. (q * width) - 1 /\ j % width = i
                <5>1. InItsRow(q, width, p, i)
                    BY <3>1, SampleOfRow
                <5> QED
                    BY <5>1 DEF InItsRow
            <4>2. e.acc[j]
                BY <3>3
            <4> HIDE DEF j
            <4> QED
                BY <3>1, <4>1, <4>2
        <3>4. ASSUME NEW j \in 0 .. m - 1, j % width = i, e.acc[j]
              PROVE  \E p \in 0 .. q - 1 : e.acc[(p * width) + i]
            <4>1. j \div width \in 0 .. q - 1 /\ j = ((j \div width) * width) + i
                BY <3>1, <3>4, RowOfSample
            <4> QED
                BY <3>4, <4>1
        <3> QED
            BY <3>2, <3>3, <3>4
    <2> QED
        BY <2>1, <2>2
<1>10. DOMAIN Oracle!Series(e) = 0 .. width - 1
    BY <1>8
<1> QED
    BY <1>1, <1>7, <1>9, <1>10 DEF m, width

\* The instants are read where they are, whatever the layout.
LEMMA TimesAgree ==
    ASSUME Oracle!OracleCoverageAssumption, Oracle!LayoutIsClear, NEW e \in Segments, ~Oracle!Skipped(e)
    PROVE  /\ Oracle!SampleTimes(e) = Oracle!Sampled(e)
           /\ Oracle!TimesInView(e) = Oracle!Reached(e)
           /\ IsFiniteSet(Oracle!Sampled(e))
<1> DEFINE m == Oracle!Length(e.acc)
           width == Oracle!TrueSamples(e)
           s == Oracle!Series(e)
           at(i) == e.start + i * e.step
<1>1. /\ width \in Nat \ {0} /\ m \in Nat /\ DOMAIN s = 0 .. width - 1
      /\ \A i \in 0 .. width - 1 : s[i] <=> \E j \in 0 .. m - 1 : j % width = i /\ e.acc[j]
    BY SeriesFacts
<1>2. DOMAIN e.acc = 0 .. m - 1
    BY SegmentType
<1>3. /\ Oracle!SampleTimes(e) = {at(i) : i \in DOMAIN s}
      /\ Oracle!TimesInView(e) = {at(i) : i \in {j \in DOMAIN s : s[j]}}
      /\ Oracle!Sampled(e) = {at(i) : i \in 0 .. width - 1}
      /\ Oracle!Reached(e) = {at(j % width) : j \in {i \in DOMAIN e.acc : e.acc[i]}}
    BY DEF Oracle!SampleTimes, Oracle!TimesInView, Oracle!Sampled, Oracle!Reached
<1> HIDE DEF m, width, s, at
<1>4. Oracle!SampleTimes(e) = Oracle!Sampled(e)
    BY <1>1, <1>3
<1>5. \A j \in 0 .. m - 1 : j % width \in 0 .. width - 1
    <2> TAKE j \in 0 .. m - 1
    <2>1. j \in Int
        OBVIOUS
    <2> QED
        BY <1>1, <2>1, Remainder
<1>6. Oracle!TimesInView(e) = Oracle!Reached(e)
    <2>1. ASSUME NEW t \in Oracle!TimesInView(e) PROVE t \in Oracle!Reached(e)
        <3>1. PICK i \in 0 .. width - 1 : s[i] /\ t = at(i)
            BY <1>1, <1>3, <2>1
        <3>2. PICK j \in 0 .. m - 1 : j % width = i /\ e.acc[j]
            BY <1>1, <3>1
        <3> QED
            BY <1>2, <1>3, <3>1, <3>2
    <2>2. ASSUME NEW t \in Oracle!Reached(e) PROVE t \in Oracle!TimesInView(e)
        <3>1. PICK j \in 0 .. m - 1 : e.acc[j] /\ t = at(j % width)
            BY <1>2, <1>3, <2>2
        <3>2. j % width \in 0 .. width - 1 /\ s[j % width]
            BY <1>1, <1>5, <3>1
        <3> QED
            BY <1>1, <1>3, <3>1, <3>2
    <2> QED
        BY <2>1, <2>2
<1>7. IsFiniteSet(Oracle!Sampled(e))
    <2>1. IsFiniteSet(0 .. width - 1)
        <3>1. 0 \in Int /\ width - 1 \in Int
            BY <1>1
        <3> QED
            BY <3>1, FS_Interval
    <2> DEFINE f == [i \in 0 .. width - 1 |-> at(i)]
    <2>2. f \in Surjection(0 .. width - 1, Oracle!Sampled(e))
        BY <1>3 DEF Surjection
    <2> QED
        BY <2>1, <2>2, FS_Surjection
<1> QED
    BY <1>4, <1>6, <1>7

\* What has been read so far, and what it says.
Visited == {e \in entities \ todo : ~Oracle!Skipped(e)}

Gathered(V) ==
    [p \in {e.point : e \in V} |->
        [t \in UNION {Oracle!Reached(e) : e \in {f \in V : f.point = p}} |->
            {e.sat : e \in {f \in V : f.point = p /\ t \in Oracle!Reached(f)}}]]

GatheredTimes(V) == UNION {Oracle!Sampled(e) : e \in V}

\* The inductive invariant: the dictionaries hold what the visited segments say,
\* and the result, once there is one, is their reduction.
OracleInv ==
    /\ todo \subseteq entities /\ entities \subseteq Segments
    /\ points = Gathered(Visited)
    /\ time_grid = GatheredTimes(Visited) /\ IsFiniteSet(time_grid)
    /\ result # None =>
          /\ todo = {}
          /\ result = IF DOMAIN points = {} THEN ValueError ELSE [p \in DOMAIN points |-> Oracle!Counts(p)]

\* One more segment.
GatheredWith(V, e) ==
    LET slot(p) == IF p \in DOMAIN Gathered(V) THEN Gathered(V)[p] ELSE [t \in {} |-> {}]
        seen == Oracle!Reached(e)
    IN  [p \in DOMAIN Gathered(V) \cup {e.point} |->
            IF p = e.point
            THEN [t \in DOMAIN slot(p) \cup seen |->
                     Oracle!At(slot(p), t) \cup IF t \in seen THEN {e.sat} ELSE {}]
            ELSE Gathered(V)[p]]

LEMMA GatherOne ==
    ASSUME NEW V, NEW e
    PROVE  /\ GatheredTimes(V \cup {e}) = GatheredTimes(V) \cup Oracle!Sampled(e)
           /\ Gathered(V \cup {e}) = GatheredWith(V, e)
<1> DEFINE W == V \cup {e}
           seen == Oracle!Reached(e)
           of(X, p) == {f \in X : f.point = p}
           times(X, p) == UNION {Oracle!Reached(f) : f \in of(X, p)}
           sats(X, p, t) == {f.sat : f \in {h \in X : h.point = p /\ t \in Oracle!Reached(h)}}
           slot(p) == IF p \in DOMAIN Gathered(V) THEN Gathered(V)[p] ELSE [t \in {} |-> {}]
<1>1. GatheredTimes(W) = GatheredTimes(V) \cup Oracle!Sampled(e)
    BY DEF GatheredTimes
<1>2. \A X : Gathered(X) = [p \in {f.point : f \in X} |-> [t \in times(X, p) |-> sats(X, p, t)]]
    BY DEF Gathered
<1>3. ASSUME NEW p
      PROVE  /\ p # e.point => times(W, p) = times(V, p) /\ \A t : sats(W, p, t) = sats(V, p, t)
             /\ p = e.point => /\ times(W, p) = times(V, p) \cup seen
                               /\ \A t : sats(W, p, t) = sats(V, p, t) \cup IF t \in seen THEN {e.sat} ELSE {}
    <2>1. of(W, p) = IF p = e.point THEN of(V, p) \cup {e} ELSE of(V, p)
        OBVIOUS
    <2>2. \A t : {h \in W : h.point = p /\ t \in Oracle!Reached(h)} =
                   IF p = e.point /\ t \in seen
                   THEN {h \in V : h.point = p /\ t \in Oracle!Reached(h)} \cup {e}
                   ELSE {h \in V : h.point = p /\ t \in Oracle!Reached(h)}
        OBVIOUS
    <2> HIDE DEF of, W
    <2>3. p # e.point => times(W, p) = times(V, p) /\ \A t : sats(W, p, t) = sats(V, p, t)
        BY <2>1, <2>2
    <2>4. p = e.point => times(W, p) = times(V, p) \cup seen
        BY <2>1
    <2>5. p = e.point =>
             \A t : sats(W, p, t) = sats(V, p, t) \cup IF t \in seen THEN {e.sat} ELSE {}
        BY <2>2
    <2> QED
        BY <2>3, <2>4, <2>5
<1>4. {f.point : f \in W} = {f.point : f \in V} \cup {e.point}
    OBVIOUS
<1>5. DOMAIN Gathered(V) = {f.point : f \in V}
    BY <1>2
<1>6. ASSUME NEW p, p \notin DOMAIN Gathered(V)
      PROVE  times(V, p) = {} /\ \A t : sats(V, p, t) = {}
    BY <1>5, <1>6
<1> HIDE DEF W, times, sats, of
<1>7. ASSUME NEW p
      PROVE  DOMAIN slot(p) = times(V, p) /\ \A t \in times(V, p) : slot(p)[t] = sats(V, p, t)
    <2>1. CASE p \in DOMAIN Gathered(V)
        BY <1>2, <1>5, <2>1
    <2>2. CASE p \notin DOMAIN Gathered(V)
        BY <1>6, <2>2
    <2> QED
        BY <2>1, <2>2
<1>8. ASSUME NEW p, NEW t
      PROVE  Oracle!At(slot(p), t) = sats(V, p, t)
    <2>1. CASE t \in times(V, p)
        BY <1>7, <2>1 DEF Oracle!At
    <2>2. CASE t \notin times(V, p)
        <3>1. sats(V, p, t) = {}
            BY <2>2 DEF sats, times, of
        <3>2. Oracle!At(slot(p), t) = {}
            BY <1>7, <2>2 DEF Oracle!At
        <3> QED
            BY <3>1, <3>2
    <2> QED
        BY <2>1, <2>2
<1> HIDE DEF slot, seen
<1>9. Gathered(W) =
         [p \in DOMAIN Gathered(V) \cup {e.point} |->
             IF p = e.point
             THEN [t \in DOMAIN slot(p) \cup seen |->
                      Oracle!At(slot(p), t) \cup IF t \in seen THEN {e.sat} ELSE {}]
             ELSE Gathered(V)[p]]
    <2>1. \A p \in DOMAIN Gathered(V) \cup {e.point} :
             [t \in times(W, p) |-> sats(W, p, t)] =
             IF p = e.point
             THEN [t \in DOMAIN slot(p) \cup seen |->
                      Oracle!At(slot(p), t) \cup IF t \in seen THEN {e.sat} ELSE {}]
             ELSE Gathered(V)[p]
        <3> TAKE p \in DOMAIN Gathered(V) \cup {e.point}
        <3>1. CASE p = e.point
            <4>1. times(W, p) = DOMAIN slot(p) \cup seen
                BY <1>3, <1>7, <3>1
            <4>2. \A t : sats(W, p, t) = Oracle!At(slot(p), t) \cup IF t \in seen THEN {e.sat} ELSE {}
                BY <1>3, <1>8, <3>1
            <4> QED
                BY <3>1, <4>1, <4>2
        <3>2. CASE p # e.point
            <4>1. Gathered(V)[p] = [t \in times(V, p) |-> sats(V, p, t)]
                BY <1>2, <1>5, <3>2
            <4>2. times(W, p) = times(V, p) /\ \A t : sats(W, p, t) = sats(V, p, t)
                BY <1>3, <3>2
            <4> QED
                BY <3>2, <4>1, <4>2
        <3> QED
            BY <3>1, <3>2
    <2>2. Gathered(W) = [p \in DOMAIN Gathered(V) \cup {e.point} |-> [t \in times(W, p) |-> sats(W, p, t)]]
        BY <1>2, <1>4, <1>5
    <2> QED
        BY <2>1, <2>2
<1> QED
    BY <1>1, <1>9 DEF slot, seen, W, GatheredWith

LEMMA GatherNothing ==
    Gathered({}) = [p \in {} |-> 0] /\ GatheredTimes({}) = {}
  BY DEF Gathered, GatheredTimes

LEMMA InitOracle ==
    ASSUME Oracle!Init PROVE OracleInv
<1>1. /\ entities \in SUBSET Segments /\ todo = entities
      /\ points = [p \in {} |-> 0] /\ time_grid = {} /\ result = None
    BY DEF Oracle!Init
<1>2. Visited = {}
    BY <1>1 DEF Visited
<1>3. IsFiniteSet({})
    BY FS_EmptySet
<1> QED
    BY <1>1, <1>2, <1>3, GatherNothing DEF OracleInv

LEMMA VisitStep ==
    ASSUME Oracle!OracleCoverageAssumption, Oracle!LayoutIsClear, OracleInv,
           NEW e \in Segments, Oracle!Visit(e)
    PROVE  OracleInv'
<1>1. /\ e \in todo /\ todo' = todo \ {e} /\ entities' = entities /\ result' = result
    BY DEF Oracle!Visit
<1>2. result = None
    BY <1>1 DEF OracleInv
<1>3. todo' \subseteq entities' /\ entities' \subseteq Segments
    BY <1>1 DEF OracleInv
<1>4. CASE Oracle!Skipped(e)
    <2>1. points' = points /\ time_grid' = time_grid
        BY <1>4 DEF Oracle!Visit
    <2>2. Visited' = Visited
        BY <1>1, <1>4 DEF Visited, OracleInv
    <2>3. /\ points' = Gathered(Visited') /\ time_grid' = GatheredTimes(Visited') /\ IsFiniteSet(time_grid')
        BY <2>1, <2>2 DEF OracleInv
    <2> QED
        BY <1>1, <1>2, <1>3, <2>3 DEF OracleInv
<1>5. CASE ~Oracle!Skipped(e)
    <2> DEFINE seen == Oracle!Reached(e)
    <2>1. /\ time_grid' = time_grid \cup Oracle!SampleTimes(e)
          /\ points' = [p \in DOMAIN points \cup {e.point} |->
                IF p = e.point THEN Oracle!WithSat(Oracle!SlotOf(p), e) ELSE points[p]]
        BY <1>5 DEF Oracle!Visit
    <2>2. /\ Oracle!SampleTimes(e) = Oracle!Sampled(e) /\ Oracle!TimesInView(e) = seen
          /\ IsFiniteSet(Oracle!Sampled(e))
        BY <1>5, TimesAgree
    <2>3. Visited' = Visited \cup {e}
        BY <1>1, <1>5 DEF Visited, OracleInv
    <2>4. points = Gathered(Visited) /\ time_grid = GatheredTimes(Visited) /\ IsFiniteSet(time_grid)
        BY DEF OracleInv
    <2>5. time_grid' = GatheredTimes(Visited')
        BY <2>1, <2>2, <2>3, <2>4, GatherOne
    <2>6. IsFiniteSet(time_grid')
        BY <2>1, <2>2, <2>4, FS_Union
    <2> DEFINE slot(p) == IF p \in DOMAIN Gathered(Visited) THEN Gathered(Visited)[p] ELSE [t \in {} |-> {}]
    <2>7. \A p : Oracle!WithSat(Oracle!SlotOf(p), e) =
             [t \in DOMAIN slot(p) \cup seen |->
                 Oracle!At(slot(p), t) \cup IF t \in seen THEN {e.sat} ELSE {}]
        BY <2>2, <2>4 DEF Oracle!WithSat, Oracle!SlotOf
    <2>8. GatheredWith(Visited, e) =
             [p \in DOMAIN Gathered(Visited) \cup {e.point} |->
                 IF p = e.point
                 THEN [t \in DOMAIN slot(p) \cup seen |->
                          Oracle!At(slot(p), t) \cup IF t \in seen THEN {e.sat} ELSE {}]
                 ELSE Gathered(Visited)[p]]
        BY DEF GatheredWith
    <2>10. Gathered(Visited \cup {e}) = GatheredWith(Visited, e)
        BY GatherOne
    <2> HIDE DEF slot, seen
    <2>9. points' = Gathered(Visited')
        BY <2>1, <2>3, <2>4, <2>7, <2>8, <2>10, ZenonT(60)
    <2> QED
        BY <1>1, <1>2, <1>3, <2>5, <2>6, <2>9 DEF OracleInv
<1> QED
    BY <1>4, <1>5

LEMMA ReduceStep ==
    ASSUME OracleInv, Oracle!Reduce PROVE OracleInv'
<1>1. /\ todo = {} /\ entities' = entities /\ todo' = todo /\ points' = points /\ time_grid' = time_grid
      /\ result' = IF DOMAIN points = {} THEN ValueError ELSE [p \in DOMAIN points |-> Oracle!Counts(p)]
    BY DEF Oracle!Reduce
<1>2. Visited' = Visited
    BY <1>1 DEF Visited
<1>3. \A p : Oracle!Counts(p)' = Oracle!Counts(p)
    BY <1>1 DEF Oracle!Counts
<1>4. result' = IF DOMAIN points' = {} THEN ValueError ELSE [p \in DOMAIN points' |-> Oracle!Counts(p)']
    BY <1>1, <1>3
<1> QED
    BY <1>1, <1>2, <1>4 DEF OracleInv

LEMMA StepOracle ==
    ASSUME Oracle!OracleCoverageAssumption, Oracle!LayoutIsClear, OracleInv, [Oracle!Next]_Oracle!vars
    PROVE  OracleInv'
<1>1. CASE \E e \in Segments : Oracle!Visit(e)
    BY <1>1, VisitStep
<1>2. CASE Oracle!Reduce
    BY <1>2, ReduceStep
<1>3. CASE UNCHANGED Oracle!vars
    <2>1. /\ entities' = entities /\ todo' = todo /\ points' = points
          /\ time_grid' = time_grid /\ result' = result
        BY <1>3 DEF Oracle!vars
    <2>2. Visited' = Visited
        BY <2>1 DEF Visited
    <2>3. \A p : Oracle!Counts(p)' = Oracle!Counts(p)
        BY <2>1 DEF Oracle!Counts
    <2>4. [p \in DOMAIN points' |-> Oracle!Counts(p)'] = [p \in DOMAIN points |-> Oracle!Counts(p)]
        BY <2>1, <2>3
    <2> QED
        BY <2>1, <2>2, <2>4 DEF OracleInv
<1> QED
    BY <1>1, <1>2, <1>3 DEF Oracle!Next, Oracle!Stop

\* The counts of a point are two natural numbers for each k, and so the result is
\* neither of the two values that stand for none.
LEMMA CountsType ==
    ASSUME Oracle!OracleCoverageAssumption, OracleInv
    PROVE  /\ [p \in DOMAIN points |-> Oracle!Counts(p)] \in Oracle!Results(DOMAIN points)
           /\ DOMAIN points \subseteq {e.point : e \in Segments}
<1>1. IsFiniteSet(time_grid) /\ points = Gathered(Visited) /\ Visited \subseteq Segments
    BY DEF OracleInv, Visited
<1>2. \A T \in SUBSET time_grid : Oracle!Cardinality(T) \in Nat
    <2> TAKE T \in SUBSET time_grid
    <2>1. IsFiniteSet(T)
        BY <1>1, FS_Subset
    <2>2. Cardinality(T) \in Nat
        BY <2>1, FS_CardinalityType
    <2> QED
        BY <2>2, OracleCardinality
<1>3. \A p : Oracle!Counts(p) \in [KValues -> [good : Nat, of : Nat]]
    <2> TAKE p
    <2> DEFINE hit(k) == {t \in time_grid : Oracle!Cardinality(Oracle!At(points[p], t)) >= k}
    <2>1. \A k : hit(k) \in SUBSET time_grid
        OBVIOUS
    <2>2. Oracle!Counts(p) = [k \in KValues |->
             [good |-> Oracle!Cardinality(hit(k)), of |-> Oracle!Cardinality(time_grid)]]
        BY DEF Oracle!Counts
    <2> HIDE DEF hit
    <2>3. \A k : Oracle!Cardinality(hit(k)) \in Nat
        BY <1>2, <2>1
    <2>4. Oracle!Cardinality(time_grid) \in Nat
        BY <1>2
    <2> QED
        BY <2>2, <2>3, <2>4
<1>4. DOMAIN points \subseteq {e.point : e \in Segments}
    BY <1>1 DEF Gathered
<1> QED
    BY <1>3, <1>4 DEF Oracle!Results

LEMMA UnionFollows ==
    ASSUME Oracle!OracleCoverageAssumption, OracleInv PROVE ResultIsUnion
<1> DEFINE counts == [p \in DOMAIN points |-> Oracle!Counts(p)]
<1>1. None # ValueError /\ counts # None /\ counts # ValueError
    BY CountsType DEF Oracle!OracleCoverageAssumption
<1>2. SUFFICES ASSUME result # None
               PROVE  ResultIsUnion
    BY <1>1 DEF ResultIsUnion, Oracle!ResultIsUnion, Oracle!Done
<1>3. todo = {} /\ result = IF DOMAIN points = {} THEN ValueError ELSE counts
    BY <1>2 DEF OracleInv
<1>4. Visited = Oracle!Read
    BY <1>3 DEF Visited, Oracle!Read
<1>5. DOMAIN points = {e.point : e \in Oracle!Read}
    BY <1>4 DEF OracleInv, Gathered
<1>6. time_grid = Oracle!Times
    BY <1>4 DEF OracleInv, GatheredTimes, Oracle!Times
<1>7. ASSUME NEW p \in DOMAIN points, NEW t
      PROVE  Oracle!At(points[p], t) = Oracle!InView(p, t)
    <2> DEFINE times == UNION {Oracle!Reached(e) : e \in {f \in Oracle!Read : f.point = p}}
    <2>1. points[p] = [u \in times |-> Oracle!InView(p, u)]
        BY <1>4, <1>5, <1>7 DEF OracleInv, Gathered, Oracle!InView
    <2>2. t \notin times => Oracle!InView(p, t) = {}
        BY DEF Oracle!InView
    <2> HIDE DEF times
    <2> QED
        BY <2>1, <2>2 DEF Oracle!At
<1>8. ASSUME NEW p \in DOMAIN points, NEW k \in KValues
      PROVE  Oracle!Counts(p)[k] = [good |-> Oracle!Share(p, k), of |-> Oracle!Cardinality(Oracle!Times)]
    <2>1. {t \in time_grid : Oracle!Cardinality(Oracle!At(points[p], t)) >= k} =
          {t \in Oracle!Times : Oracle!Cardinality(Oracle!InView(p, t)) >= k}
        BY <1>6, <1>7
    <2> QED
        BY <1>6, <2>1 DEF Oracle!Counts, Oracle!Share
<1>9. CASE DOMAIN points = {}
    <2>1. Oracle!Read = {}
        BY <1>5, <1>9
    <2> QED
        BY <1>3, <1>9, <2>1 DEF ResultIsUnion, Oracle!ResultIsUnion, Oracle!Done
<1>10. CASE DOMAIN points # {}
    <2>1. result = counts
        BY <1>3, <1>10
    <2>2. DOMAIN result = DOMAIN points /\ \A p \in DOMAIN points : result[p] = Oracle!Counts(p)
        BY <2>1
    <2> HIDE DEF counts
    <2> QED
        BY <1>1, <1>5, <1>8, <2>1, <2>2 DEF ResultIsUnion, Oracle!ResultIsUnion
<1> QED
    BY <1>9, <1>10

\* For all sets of segments, in whatever order they come: the coverage read back
\* from the oracle counts, at each instant any of them samples, the distinct
\* satellites some segment of the point has in view then.
THEOREM OracleCorrect ==
    ASSUME Oracle!OracleCoverageAssumption, Oracle!LayoutIsClear
    PROVE  Oracle!Spec => []ResultIsUnion
<1>1. Oracle!Init => OracleInv
    BY InitOracle
<1>2. OracleInv /\ [Oracle!Next]_Oracle!vars => OracleInv'
    BY StepOracle
<1>3. OracleInv => ResultIsUnion
    BY UnionFollows
<1> QED
    BY <1>1, <1>2, <1>3, PTL DEF Oracle!Spec
=============================================================================
