------------------------------ MODULE ExplorerRuns ------------------------------
(***************************************************************************)
(* The run history of CoverageExplorer (MinSatSweep keeps the same one in  *)
(* a box without titles): each run writes two CSV files and appends a tab, *)
(* tabs can be closed, files stay.                                         *)
(*                                                                         *)
(* Runs are numbered 1, 2, ... over all sessions in "made", the program    *)
(* itself numbers them from 1 in every session.  The content of a file is  *)
(* the run whose data it holds in full; Torn is a file truncated by        *)
(* open(path, "w") whose rows were not all written.                        *)
(***************************************************************************)
EXTENDS Integers, Sequences

CONSTANTS
    MaxRuns,        \* bound: computed runs in a behaviour
    WritesFail,     \* whether writing a file can fail (disk full, no permission)
    KernelDies      \* whether the kernel can be restarted

ExplorerRunsAssumption ==
    MaxRuns \in Nat \ {0} /\ WritesFail \in BOOLEAN /\ KernelDies \in BOOLEAN

Absent == 0
Torn == -1
Numbers == 1 .. MaxRuns
Contents == Numbers \cup {Absent, Torn}

VARIABLES
    latest,         \* content of csv_path
    run_csv,        \* run_csv[n]: content of _run_csv_path(csv_path, n)
    run_count,      \* _run_count
    tabs,           \* children of runs_tab: [n, run]
    titles,         \* titles[i]: number in the title of tab i, 0 if none was set
    pc,             \* "idle", "compute", "latest", "run_csv", "panel"
    res,            \* the run the handler computed
    made,           \* runs computed so far
    saved           \* history: runs of this session whose own file was written

files == <<latest, run_csv>>
page == <<tabs, titles>>
vars == <<files, run_count, page, pc, res, made, saved>>

n == run_count + 1

-----------------------------------------------------------------------------
\* The button; run_btn.disabled only matters between handlers.
Press ==
    /\ pc = "idle" /\ made < MaxRuns
    /\ pc' = "compute"
    /\ UNCHANGED <<files, run_count, page, res, made, saved>>

\* compute runs outside the Output context: its exception ends the run.
Compute ==
    /\ pc = "compute"
    /\ \/ pc' = "latest" /\ made' = made + 1 /\ res' = made + 1
       \/ pc' = "idle" /\ UNCHANGED <<made, res>>
    /\ UNCHANGED <<files, run_count, page, saved>>

\* write_availability_csv(res, csv_path): the stable name first.
WriteLatest ==
    /\ pc = "latest"
    /\ latest' = res
    /\ pc' = "run_csv"
    /\ UNCHANGED <<run_csv, run_count, page, res, made, saved>>

\* write_availability_csv(res, run_csv): the file of the run.
WriteRun ==
    /\ pc = "run_csv"
    /\ run_csv' = [run_csv EXCEPT ![n] = res]
    /\ saved' = saved \cup {[n |-> n, run |-> res]}
    /\ pc' = "panel"
    /\ UNCHANGED <<latest, run_count, page, res, made>>

\* A write raises, on opening the file or later.  Output.__exit__ swallows the
\* exception: what is left of the block is skipped, the panel is not.
WriteFails ==
    /\ WritesFail
    /\ \/ pc = "latest" /\ latest' \in {latest, Torn} /\ UNCHANGED run_csv
       \/ pc = "run_csv" /\ UNCHANGED latest
          /\ \E c \in {run_csv[n], Torn} : run_csv' = [run_csv EXCEPT ![n] = c]
    /\ pc' = "panel"
    /\ UNCHANGED <<run_count, page, res, made, saved>>

\* _append_run_panel: the number is taken first.
Panel ==
    /\ pc = "panel"
    /\ run_count' = n
    /\ tabs' = Append(tabs, [n |-> n, run |-> res])
    /\ titles' = [titles EXCEPT ![Len(tabs) + 1] = n]
    /\ pc' = "idle"
    /\ UNCHANGED <<files, res, made, saved>>

\* Mutant of PanelFails: the number is taken last.
PanelFailsUncounted ==
    /\ pc = "panel" /\ WritesFail
    /\ pc' = "idle"
    /\ UNCHANGED <<files, run_count, page, res, made, saved>>

\* Saving a PNG raises: no tab, but the number is used up.
PanelFails ==
    /\ pc = "panel" /\ WritesFail
    /\ run_count' = n
    /\ pc' = "idle"
    /\ UNCHANGED <<files, page, res, made, saved>>

Without(s, i) == SubSeq(s, 1, i - 1) \o SubSeq(s, i + 1, Len(s))

\* Mutant of Close: the titles are not reindexed.
CloseKeepsTitles(i) ==
    /\ pc = "idle" /\ i \in 1 .. Len(tabs)
    /\ tabs' = Without(tabs, i)
    /\ UNCHANGED <<files, run_count, titles, pc, res, made, saved>>

\* _close_run: titles belong to indices, so those that follow move down; the
\* title of the last index stays behind.
Close(i) ==
    /\ pc = "idle" /\ i \in 1 .. Len(tabs)
    /\ tabs' = Without(tabs, i)
    /\ titles' = [j \in DOMAIN titles |->
                    IF j \in i .. Len(tabs) - 1 THEN titles[j + 1] ELSE titles[j]]
    /\ UNCHANGED <<files, run_count, pc, res, made, saved>>

\* A new kernel and a new explorer; a file being written is torn.
RestartKernel ==
    /\ KernelDies
    /\ \/ UNCHANGED files
       \/ pc = "latest" /\ latest' = Torn /\ UNCHANGED run_csv
       \/ pc = "run_csv" /\ run_csv' = [run_csv EXCEPT ![n] = Torn] /\ UNCHANGED latest
    /\ run_count' = 0
    /\ tabs' = <<>> /\ titles' = [i \in Numbers |-> 0]
    /\ pc' = "idle"
    /\ saved' = {}
    /\ UNCHANGED <<res, made>>

-----------------------------------------------------------------------------
Init ==
    /\ latest = Absent /\ run_csv = [i \in Numbers |-> Absent]
    /\ run_count = 0
    /\ tabs = <<>> /\ titles = [i \in Numbers |-> 0]
    /\ pc = "idle" /\ res = 0 /\ made = 0 /\ saved = {}

Next ==
    \/ Press \/ Compute \/ WriteLatest \/ WriteRun \/ WriteFails
    \/ Panel \/ PanelFails \/ RestartKernel
    \/ \E i \in Numbers : Close(i)

Spec == Init /\ [][Next]_vars

-----------------------------------------------------------------------------
(***************************************************************************)
(* Properties                                                              *)
(***************************************************************************)
TypeOK ==
    /\ latest \in Contents /\ run_csv \in [Numbers -> Contents]
    /\ run_count \in 0 .. made
    /\ tabs \in Seq([n : Numbers, run : Numbers]) /\ Len(tabs) <= run_count
    /\ titles \in [Numbers -> 0 .. MaxRuns]
    /\ pc \in {"idle", "compute", "latest", "run_csv", "panel"}
    /\ made \in 0 .. MaxRuns /\ res \in 0 .. made
    /\ saved \subseteq [n : Numbers, run : Numbers]

\* Whatever tabs are closed and whatever runs fail to draw, every open tab is
\* titled with its own run.
TitlesMatchTabs == \A i \in DOMAIN tabs : titles[i] = tabs[i].n

\* "Each run persists its own file so a closed tab never loses its data", within
\* a session: no later run writes into the file of an earlier one.  And the
\* stable name is never behind: no run's own file is newer than it, unless
\* writing it was cut short.
SavedRunsKeepTheirFile ==
    /\ \A s \in saved : run_csv[s.n] = s.run
    /\ latest # Torn => \A i \in Numbers : run_csv[i] <= latest
=============================================================================
