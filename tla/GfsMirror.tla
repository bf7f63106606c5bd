------------------------------- MODULE GfsMirror -------------------------------
(***************************************************************************)
(* The wildcard mirror and one weather server that reads from it: an       *)
(* inventory (.idx) first, then byte ranges of the GRIB it describes.      *)
(* Handler threads share nothing but the fixture directory, so one client  *)
(* with one request at a time is enough; the operator publishes and        *)
(* withdraws per-cycle files meanwhile.                                    *)
(*                                                                         *)
(* A file is named by the pair it belongs to: a path of the GFS grammar,   *)
(* or Wildcard.  An inventory is right for the GRIB of its own pair only.  *)
(* The wildcard pair is there throughout or not at all.                    *)
(***************************************************************************)
EXTENDS Integers, FiniteSets

CONSTANTS
    Paths,          \* paths that match GFS_PATH_RE
    Wildcard,       \* the wildcard pair
    Length,         \* Length[pair]: bytes of its GRIB
    MaxByte,        \* bound: bytes a client asks for are 0 .. MaxByte
    None

GfsMirrorAssumption ==
    /\ Wildcard \notin Paths /\ None \notin Nat
    /\ Length \in [Paths \cup {Wildcard} -> Nat \ {0}] /\ MaxByte \in Nat

Pairs == Paths \cup {Wildcard}
Ranges == [first : 0 .. MaxByte, last : 0 .. MaxByte \cup {None}]

VARIABLES
    has_wildcard,   \* whether wildcard.grib and wildcard.idx are there
    idx,        \* paths whose exact inventory is there
    grib,       \* grib[p]: bytes of the exact GRIB, None if the file is not there
    withdrawn,  \* paths whose files were removed
    unsettled,  \* history: paths whose GRIB was written or removed since the last
                \* inventory was looked up, or was there then without its own
    held,       \* the inventory the client works with: [path, pair], or None
    request,    \* [path, is_idx, range], None between requests
    fixture,    \* the pair whose file the handler is about to open, or None
    reply       \* what the client got last, or None

files == <<has_wildcard, idx, grib, withdrawn>>
vars == <<files, unsettled, held, request, fixture, reply>>

-----------------------------------------------------------------------------
(***************************************************************************)
(* The operator (external).  A pair is published once, the inventory after *)
(* the whole GRIB, and withdrawn in the opposite order.                    *)
(***************************************************************************)
PublishGrib(p) ==
    /\ p \notin withdrawn /\ p \notin idx
    /\ grib[p] # Length[p]
    /\ grib' = [grib EXCEPT ![p] = IF grib[p] = None THEN 0 ELSE grib[p] + 1]
    /\ unsettled' = unsettled \cup {p}
    /\ UNCHANGED <<has_wildcard, idx, withdrawn, held, request, fixture, reply>>

PublishIdx(p) ==
    /\ p \notin withdrawn /\ grib[p] = Length[p]
    /\ idx' = idx \cup {p}
    /\ UNCHANGED <<has_wildcard, grib, withdrawn, unsettled, held, request, fixture, reply>>

WithdrawIdx(p) ==
    /\ p \in idx
    /\ idx' = idx \ {p} /\ withdrawn' = withdrawn \cup {p}
    /\ UNCHANGED <<has_wildcard, grib, unsettled, held, request, fixture, reply>>

WithdrawGrib(p) ==
    /\ p \in withdrawn /\ grib[p] # None
    /\ grib' = [grib EXCEPT ![p] = None]
    /\ unsettled' = unsettled \cup {p}
    /\ UNCHANGED <<has_wildcard, idx, withdrawn, held, request, fixture, reply>>

-----------------------------------------------------------------------------
(***************************************************************************)
(* The weather server (external): any range of the GRIB whose inventory it *)
(* holds.                                                                  *)
(***************************************************************************)
AskIdx(p) ==
    /\ request = None
    /\ request' = [path |-> p, is_idx |-> TRUE, range |-> None]
    /\ held' = None /\ reply' = None
    /\ UNCHANGED <<files, unsettled, fixture>>

AskRange(r) ==
    /\ request = None /\ held # None
    /\ request' = [path |-> held.path, is_idx |-> FALSE, range |-> r]
    /\ reply' = None
    /\ UNCHANGED <<files, unsettled, held, fixture>>

-----------------------------------------------------------------------------
(***************************************************************************)
(* GFSMirrorHandler.                                                       *)
(***************************************************************************)
IsFile(pair, is_idx) ==
    IF pair = Wildcard THEN has_wildcard ELSE IF is_idx THEN pair \in idx ELSE grib[pair] # None

Bytes(pair) == IF pair = Wildcard THEN Length[Wildcard] ELSE grib[pair]

Answer(status, pair) ==
    [status |-> status, pair |-> pair, path |-> request.path, range |-> request.range,
     bytes |-> {}, total |-> None]

HalfThere == {p \in Paths : p \notin idx /\ grib[p] # None}

LookedUp == unsettled' = IF request.is_idx THEN HalfThere ELSE unsettled

\* Mutant of Resolve: another cycle's file before a 404.
ResolveAnyCycle ==
    /\ request # None /\ fixture = None /\ reply = None
    /\ LET found == {p \in Paths \cup {Wildcard} : IsFile(p, request.is_idx)}
       IN  IF found = {}
           THEN reply' = Answer(404, None) /\ request' = None /\ UNCHANGED fixture
           ELSE /\ fixture' = IF request.path \in found THEN request.path
                              ELSE CHOOSE p \in found : TRUE
                /\ UNCHANGED <<reply, request>>
    /\ LookedUp
    /\ UNCHANGED <<files, held>>

\* _resolve: the exact file, else the wildcard file of the same kind, else 404.
Resolve ==
    /\ request # None /\ fixture = None /\ reply = None
    /\ IF IsFile(request.path, request.is_idx)
       THEN fixture' = request.path /\ UNCHANGED <<reply, request>>
       ELSE IF IsFile(Wildcard, request.is_idx)
       THEN fixture' = Wildcard /\ UNCHANGED <<reply, request>>
       ELSE reply' = Answer(404, None) /\ request' = None /\ UNCHANGED fixture
    /\ LookedUp
    /\ UNCHANGED <<files, held>>

\* The file is gone between isfile and open: the connection is dropped.
OpenFails ==
    /\ fixture # None /\ ~IsFile(fixture, request.is_idx)
    /\ reply' = Answer(0, None)
    /\ fixture' = None /\ request' = None
    /\ UNCHANGED <<files, unsettled, held>>

SendIdx ==
    /\ fixture # None /\ request.is_idx /\ IsFile(fixture, TRUE)
    /\ reply' = Answer(200, fixture)
    /\ held' = [path |-> request.path, pair |-> fixture]
    /\ fixture' = None /\ request' = None
    /\ UNCHANGED <<files, unsettled>>

\* Mutant of LastByte: the last byte of a range is taken for the first behind it.
LastByteExclusive(r, size) == IF r.last = None \/ r.last > size THEN size - 1 ELSE r.last - 1

\* "last-byte-pos is inclusive; empty means to EOF"
LastByte(r, size) == IF r.last = None \/ r.last > size - 1 THEN size - 1 ELSE r.last

\* _send_ranged, with a Range header.
SendRanged ==
    /\ fixture # None /\ ~request.is_idx /\ IsFile(fixture, FALSE)
    /\ LET size  == Bytes(fixture)
           start == request.range.first
           end   == LastByte(request.range, size)
       IN  reply' = IF start > end THEN Answer(416, fixture)
                    ELSE [Answer(206, fixture) EXCEPT !.bytes = start .. end, !.total = size]
    /\ fixture' = None /\ request' = None
    /\ UNCHANGED <<files, unsettled, held>>

-----------------------------------------------------------------------------
Init ==
    /\ has_wildcard \in BOOLEAN
    /\ idx = {} /\ grib = [p \in Paths |-> None] /\ withdrawn = {} /\ unsettled = {}
    /\ held = None /\ request = None /\ fixture = None /\ reply = None

Next ==
    \/ \E p \in Paths : PublishGrib(p) \/ PublishIdx(p) \/ WithdrawIdx(p) \/ WithdrawGrib(p)
    \/ \E p \in Paths : AskIdx(p)
    \/ \E r \in Ranges : AskRange(r)
    \/ Resolve \/ OpenFails \/ SendIdx \/ SendRanged

Spec == Init /\ [][Next]_vars

-----------------------------------------------------------------------------
(***************************************************************************)
(* Properties                                                              *)
(***************************************************************************)
TypeOK ==
    /\ has_wildcard \in BOOLEAN
    /\ idx \subseteq Paths /\ withdrawn \subseteq Paths /\ unsettled \subseteq Paths
    /\ \A p \in Paths : grib[p] \in 0 .. Length[p] \cup {None}
    /\ \A p \in idx : grib[p] = Length[p]
    /\ held = None \/ held \in [path : Paths, pair : Pairs]
    /\ request = None \/ request \in [path : Paths, is_idx : BOOLEAN, range : Ranges \cup {None}]
    /\ fixture \in Pairs \cup {None} /\ (fixture # None => request # None)
    /\ reply = None \/ reply.status \in {0, 200, 206, 404, 416}

\* A ranged GET is never answered by the whole file, and the bytes of a 206 are
\* those asked for that one file has, of the cycle asked for or the wildcard pair.
\* They are of the whole GRIB whose inventory the client works with: always where
\* there is no wildcard pair, and beside one unless the GRIB of the cycle came or
\* went after the inventory was looked up, or was there already without its own.
OffsetsMatchGrib ==
    /\ reply # None /\ reply.range # None => reply.status # 200
    /\ reply # None /\ reply.status = 206 =>
          /\ reply.pair \in {held.path, Wildcard}
          /\ reply.total \in 1 .. Length[reply.pair] /\ reply.bytes # {}
          /\ reply.bytes = {b \in 0 .. reply.total - 1 :
                               /\ reply.range.first <= b
                               /\ reply.range.last # None => b <= reply.range.last}
          /\ ~has_wildcard \/ held.path \notin unsettled =>
                reply.pair = held.pair /\ reply.total = Length[held.pair]

\* "The .idx byte offsets must match the GRIB actually served", of every reply:
\* what _resolve looks up for two requests does not keep it.
OffsetsAlwaysMatch ==
    reply # None /\ reply.status = 206 => reply.pair = held.pair
=============================================================================
