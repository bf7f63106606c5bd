-------------------------------- MODULE KeyFile --------------------------------
(***************************************************************************)
(* The private keys of live stores on disk (spacetime/client.py).  With    *)
(* auth.Credentials a store needs its key in a file: it is written to a    *)
(* temporary file, and shredded by close, by __del__ or by the exit        *)
(* handler, whichever comes first.                                         *)
(*                                                                         *)
(* mkstemp never returns a name in use, but a name that was removed may be *)
(* given out again, also to another store of the same interpreter.         *)
(***************************************************************************)
EXTENDS Sequences, SequencesExt

CONSTANTS
    Stores,     \* the GrpcEntityStore objects of an interpreter
    Paths,      \* names mkstemp can return
    NoFile,     \* what the cleanup of the portable path works on: nothing
    None,
    Absent,     \* a file that is not there
    Garbage     \* a file with part of a key, or with zeros

KeyFileAssumption == NoFile \notin Paths /\ None \notin Paths /\ Absent \notin Stores

VARIABLES
    modern,         \* hasattr(auth, "Credentials")
    file,           \* file[p]: Absent, Garbage, or the store whose key it holds
    stage,          \* stage[s]: how far the constructor of s is
    key_path,       \* key_path[s]: the file its constructor made
    key_cleanup,    \* _key_cleanup: the file it removes, None if there is nothing to call
    at_exit,        \* files of the registered exit handlers, in order
    interpreter,    \* "running", "exiting", "gone"
    orphaned,       \* history: files whose constructor was cut short
    stubborn        \* history: files whose last removal failed

store_vars == <<stage, key_path, key_cleanup>>
vars == <<modern, file, store_vars, at_exit, interpreter, orphaned, stubborn>>

-----------------------------------------------------------------------------
\* _cleanup: overwrites, then unlinks; each is best-effort and may fail unseen.
Shred(p) ==
    \/ p \notin Paths /\ UNCHANGED <<file, stubborn>>
    \/ /\ p \in Paths
       /\ file' = [file EXCEPT ![p] = Absent] /\ stubborn' = stubborn \ {p}
    \/ /\ p \in Paths /\ file[p] # Absent
       /\ \E left \in {file[p], Garbage} : file' = [file EXCEPT ![p] = left]
       /\ stubborn' = stubborn \cup {p}

Constructing(s, at) == interpreter = "running" /\ stage[s] = at

\* _key_bytes raises: no key was given, or it is not base64.
NoKey(s) ==
    /\ Constructing(s, "new")
    /\ stage' = [stage EXCEPT ![s] = "failed"]
    /\ UNCHANGED <<modern, file, key_path, key_cleanup, at_exit, interpreter, orphaned, stubborn>>

\* _materialize_key_file.
Materialize(s, p) ==
    /\ modern /\ Constructing(s, "new") /\ file[p] = Absent
    /\ file' = [file EXCEPT ![p] = s]
    /\ key_path' = [key_path EXCEPT ![s] = p]
    /\ stage' = [stage EXCEPT ![s] = "file"]
    /\ UNCHANGED <<modern, key_cleanup, at_exit, interpreter, orphaned, stubborn>>

\* fchmod or os.write raises: the descriptor is closed, the file stays.
MaterializeFails(s, p) ==
    /\ modern /\ Constructing(s, "new") /\ file[p] = Absent
    /\ file' = [file EXCEPT ![p] = Garbage]
    /\ orphaned' = orphaned \cup {p}
    /\ stage' = [stage EXCEPT ![s] = "failed"]
    /\ UNCHANGED <<modern, key_path, key_cleanup, at_exit, interpreter, stubborn>>

Opened(s, p) ==
    /\ stage' = [stage EXCEPT ![s] = "open"]
    /\ key_cleanup' = [key_cleanup EXCEPT ![s] = p]

\* Mutant of Connect: the exit handler is not registered.
ConnectUnregistered(s) ==
    /\ Constructing(s, "file") /\ Opened(s, key_path[s])
    /\ UNCHANGED <<modern, file, key_path, at_exit, interpreter, orphaned, stubborn>>

\* The channel is made, with options or without, and the store registers the
\* exit handler.
Connect(s) ==
    /\ Constructing(s, "file") /\ Opened(s, key_path[s])
    /\ at_exit' = Append(at_exit, key_path[s])
    /\ UNCHANGED <<modern, file, key_path, interpreter, orphaned, stubborn>>

\* An older auth takes the key itself: no file, a cleanup that does nothing.
ConnectPortable(s) ==
    /\ ~modern /\ Constructing(s, "new") /\ Opened(s, NoFile)
    /\ at_exit' = Append(at_exit, NoFile)
    /\ UNCHANGED <<modern, file, key_path, interpreter, orphaned, stubborn>>

\* except Exception: cleanup(); raise.
ConnectFails(s) ==
    /\ Constructing(s, "file") /\ Shred(key_path[s])
    /\ stage' = [stage EXCEPT ![s] = "failed"]
    /\ UNCHANGED <<modern, key_path, key_cleanup, at_exit, interpreter, orphaned>>

\* KeyboardInterrupt is no Exception: nobody is left to remove the file.
Interrupt(s) ==
    /\ Constructing(s, "file")
    /\ orphaned' = orphaned \cup {key_path[s]}
    /\ stage' = [stage EXCEPT ![s] = "failed"]
    /\ UNCHANGED <<modern, file, key_path, key_cleanup, at_exit, interpreter, stubborn>>

\* Mutant of Close: the cleanup is not forgotten.
CloseKeepsCleanup(s) ==
    /\ interpreter # "gone" /\ key_cleanup[s] # None
    /\ Shred(key_cleanup[s])
    /\ UNCHANGED <<modern, store_vars, at_exit, interpreter, orphaned>>

\* close, __exit__ or __del__, at any time and as often as they like.
Close(s) ==
    /\ interpreter # "gone" /\ key_cleanup[s] # None
    /\ Shred(key_cleanup[s])
    /\ key_cleanup' = [key_cleanup EXCEPT ![s] = None]
    /\ UNCHANGED <<modern, stage, key_path, at_exit, interpreter, orphaned>>

\* Not within a constructor: what ends one early is Interrupt.
Exit ==
    /\ interpreter = "running" /\ \A s \in Stores : stage[s] # "file"
    /\ interpreter' = "exiting"
    /\ UNCHANGED <<modern, file, store_vars, at_exit, orphaned, stubborn>>

\* The handlers run last registered first; the file may be gone, or be that of
\* another store by now.
RunExitHandler ==
    /\ interpreter = "exiting"
    /\ IF at_exit = <<>>
       THEN interpreter' = "gone" /\ UNCHANGED <<file, at_exit, stubborn>>
       ELSE /\ Shred(Last(at_exit)) /\ at_exit' = Front(at_exit)
            /\ UNCHANGED interpreter
    /\ UNCHANGED <<modern, store_vars, orphaned>>

-----------------------------------------------------------------------------
Init ==
    /\ modern \in BOOLEAN
    /\ file = [p \in Paths |-> Absent]
    /\ stage = [s \in Stores |-> "new"]
    /\ key_path = [s \in Stores |-> None] /\ key_cleanup = [s \in Stores |-> None]
    /\ at_exit = <<>> /\ interpreter = "running"
    /\ orphaned = {} /\ stubborn = {}

Stop == interpreter = "gone" /\ UNCHANGED vars

Next ==
    \/ \E s \in Stores :
          \/ NoKey(s) \/ Connect(s) \/ ConnectPortable(s) \/ ConnectFails(s)
          \/ Interrupt(s) \/ Close(s)
          \/ \E p \in Paths : Materialize(s, p) \/ MaterializeFails(s, p)
    \/ Exit \/ RunExitHandler \/ Stop

Spec == Init /\ [][Next]_vars

-----------------------------------------------------------------------------
(***************************************************************************)
(* Properties                                                              *)
(***************************************************************************)
TypeOK ==
    /\ modern \in BOOLEAN
    /\ file \in [Paths -> Stores \cup {Absent, Garbage}]
    /\ stage \in [Stores -> {"new", "file", "open", "failed"}]
    /\ key_path \in [Stores -> Paths \cup {None}]
    /\ key_cleanup \in [Stores -> Paths \cup {None, NoFile}]
    /\ at_exit \in Seq(Paths \cup {NoFile})
    /\ interpreter \in {"running", "exiting", "gone"}
    /\ orphaned \subseteq Paths /\ stubborn \subseteq Paths

\* "kept for the store's lifetime ... and shredded on cleanup": as long as a
\* store is open its file holds its key, whatever other stores are closed, and
\* closed again, over a name that was given out twice.
OpenStoreHasItsKey ==
    interpreter = "running" =>
        \A s \in Stores : key_cleanup[s] \in Paths => file[key_cleanup[s]] = s

\* Someone removes every file: its constructor, or an exit handler; none
\* outlives the interpreter, except those of a constructor that was cut short
\* and those that cannot be removed.
EveryKeyFileIsRemoved ==
    \A p \in Paths \ (orphaned \cup stubborn) : file[p] # Absent =>
        \/ p \in ToSet(at_exit)
        \/ \E s \in Stores : stage[s] = "file" /\ key_path[s] = p
=============================================================================
