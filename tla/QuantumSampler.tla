----------------------------- MODULE QuantumSampler -----------------------------
(***************************************************************************)
(* sample: one Listen stream, read until the dump is complete and a window *)
(* of live mutations is over.  Time is a clock in whole units; gRPC raises *)
(* in the reading client when the deadline of the call is reached.         *)
(***************************************************************************)
EXTENDS Integers

CONSTANTS
    Window,         \* window_s
    DumpTimeout,    \* dump_timeout_s
    Slack,          \* the 30 s added to both in the deadline of the call
    MaxChunk,       \* bound: mutations of one chunk
    MaxSent,        \* bound: mutations of one stream
    None

QuantumSamplerAssumption ==
    /\ Window \in Nat /\ DumpTimeout \in Nat /\ Slack \in Nat \ {0}
    /\ MaxChunk \in Nat /\ MaxSent \in Nat
    /\ None \notin Int

Deadline == DumpTimeout + Window + Slack

VARIABLES
    pc,             \* "reading", "returned", "timeout" (TimeoutError), "rpc" (RpcError)
    now,            \* the clock, 0 at t0
    dump_n,         \* mutations counted as dump
    dump_done_at,   \* when dump_complete was read, or None
    live_n,         \* mutations counted as live
    last_live,      \* when the last of them was read, or None
    sent,           \* what the server sent: [dump |-> n, live |-> n, complete |-> t]
    ended           \* whether the server closed the stream

result == <<dump_n, dump_done_at, live_n, last_live>>
vars == <<pc, now, result, sent, ended>>

-----------------------------------------------------------------------------
Tick ==
    /\ pc = "reading" /\ now < Deadline
    /\ now' = now + 1
    /\ UNCHANGED <<pc, result, sent, ended>>

\* The end of an iteration: enough live time has passed.
WindowOver == dump_done_at # None /\ now - dump_done_at >= Window

\* A chunk of n mutations before dump_complete; none of it lets the loop end,
\* and the time is only looked at when there is a mutation.
DumpChunk(n) ==
    /\ pc = "reading" /\ now < Deadline
    /\ dump_done_at = None
    /\ sent.dump + n <= MaxSent
    /\ sent' = [sent EXCEPT !.dump = @ + n]
    /\ IF n > 0 /\ now > DumpTimeout
       THEN dump_n' = dump_n + 1 /\ pc' = "timeout"
       ELSE dump_n' = dump_n + n /\ UNCHANGED pc
    /\ UNCHANGED <<now, dump_done_at, live_n, last_live, ended>>

\* The delimiter; the iteration ends without a look at the window.
DumpComplete ==
    /\ pc = "reading" /\ now < Deadline
    /\ sent.complete = None
    /\ sent' = [sent EXCEPT !.complete = now]
    /\ dump_done_at' = now
    /\ UNCHANGED <<pc, now, dump_n, live_n, last_live, ended>>

\* Mutant of LiveChunk: the window is looked at before the mutations are counted.
LiveChunkWindowFirst(n) ==
    /\ pc = "reading" /\ now < Deadline
    /\ dump_done_at # None
    /\ sent.live + n <= MaxSent
    /\ sent' = [sent EXCEPT !.live = @ + n]
    /\ IF WindowOver
       THEN pc' = "returned" /\ UNCHANGED <<live_n, last_live>>
       ELSE /\ live_n' = live_n + n
            /\ last_live' = IF n > 0 THEN now ELSE last_live
            /\ UNCHANGED pc
    /\ UNCHANGED <<now, dump_n, dump_done_at, ended>>

\* A chunk after dump_complete: it is counted, then the window is looked at.
LiveChunk(n) ==
    /\ pc = "reading" /\ now < Deadline
    /\ dump_done_at # None
    /\ sent.live + n <= MaxSent
    /\ sent' = [sent EXCEPT !.live = @ + n]
    /\ live_n' = live_n + n
    /\ last_live' = IF n > 0 THEN now ELSE last_live
    /\ pc' = IF WindowOver THEN "returned" ELSE pc
    /\ UNCHANGED <<now, dump_n, dump_done_at, ended>>

\* The server closes the stream: the loop is over, with or without a dump.
StreamEnds ==
    /\ pc = "reading" /\ now < Deadline
    /\ ended' = TRUE /\ pc' = "returned"
    /\ UNCHANGED <<now, result, sent>>

\* The call fails on the server's side.
StreamFails ==
    /\ pc = "reading" /\ now < Deadline
    /\ ended' = TRUE /\ pc' = "rpc"
    /\ UNCHANGED <<now, result, sent>>

\* Mutant of DeadlineExceeded: the call is made again.
DeadlineExceededRetries ==
    /\ pc = "reading" /\ now = Deadline
    /\ now' = 0 /\ dump_n' = 0 /\ dump_done_at' = None /\ live_n' = 0 /\ last_live' = None
    /\ sent' = [dump |-> 0, live |-> 0, complete |-> None]
    /\ UNCHANGED <<pc, ended>>

\* DEADLINE_EXCEEDED in the client that waits for the next chunk.
DeadlineExceeded ==
    /\ pc = "reading" /\ now = Deadline
    /\ pc' = "rpc"
    /\ UNCHANGED <<now, result, sent, ended>>

Stop == pc # "reading" /\ UNCHANGED vars

Init ==
    /\ pc = "reading" /\ now = 0 /\ dump_n = 0 /\ dump_done_at = None
    /\ live_n = 0 /\ last_live = None
    /\ sent = [dump |-> 0, live |-> 0, complete |-> None] /\ ended = FALSE

Next ==
    \/ Tick \/ DumpComplete \/ StreamEnds \/ StreamFails \/ DeadlineExceeded
    \/ \E n \in 0 .. MaxChunk : DumpChunk(n) \/ LiveChunk(n)
    \/ Stop

\* Time passes, and gRPC raises when the deadline is reached; the server need
\* not send anything.
Fairness == WF_vars(Tick) /\ WF_vars(DeadlineExceeded)

Spec == Init /\ [][Next]_vars /\ Fairness

-----------------------------------------------------------------------------
(***************************************************************************)
(* Properties                                                              *)
(***************************************************************************)
TypeOK ==
    /\ pc \in {"reading", "returned", "timeout", "rpc"}
    /\ now \in 0 .. Deadline
    /\ dump_n \in 0 .. MaxSent /\ live_n \in 0 .. MaxSent
    /\ dump_done_at \in (0 .. Deadline) \cup {None}
    /\ last_live = None \/ (dump_done_at # None /\ dump_done_at <= last_live /\ last_live <= now)
    /\ sent \in [dump : 0 .. MaxSent, live : 0 .. MaxSent, complete : (0 .. Deadline) \cup {None}]
    /\ ended \in BOOLEAN

\* What a sample says is so.  One that returns has counted what the server sent,
\* the state before the delimiter and the mutations after it, none in both and
\* none in neither, and returned because the stream was closed or the live
\* window is over.  TimeoutError is about the dump: it is raised while the dump
\* is still being streamed, and not before dump_timeout_s.
SampleIsOfTheStream ==
    /\ pc = "returned" =>
          /\ dump_n = sent.dump /\ live_n = sent.live /\ dump_done_at = sent.complete
          /\ ~ended => sent.complete # None /\ now - sent.complete >= Window
    /\ pc = "timeout" => dump_done_at = None /\ now > DumpTimeout /\ dump_n > 0

\* A sample ends, whatever the server does or fails to do.
SampleEnds == <>(pc # "reading")
=============================================================================
