------------------------------- MODULE Library -------------------------------
(***************************************************************************)
(* One video of a meeting's playlist (routes/playback.py): its row and     *)
(* file, the links that play it again, its length, which is probed late,   *)
(* and those who read the file: the ingress, by a signed URL, and the      *)
(* public, on demand.  Handlers run in threads and SQLite reads take no    *)
(* lock: a request is cut where it reads, probes, unlinks and commits.     *)
(***************************************************************************)
EXTENDS Integers, Sequences

CONSTANTS
  Links,          \* rows that may be made of the video ("aliases")
  Calls,          \* requests of moderators, and background probes
  MaxSize,        \* the bytes of the file, if it is not empty
  Piece,          \* _RANGE_CHUNK
  MaxRequests

VARIABLES
  row,        \* the video's own row: whether it is there, and its length
  file,       \* the file on the disk: how long the video and the file are
  links,      \* the length each link's row has
  gate,       \* what of the meeting decides about On Demand
  call,       \* the request or probe of each caller
  reader,     \* one reader of the file
  proc,       \* the ffmpeg process of the reader
  crossed,    \* history: a link was made while the video was being deleted
  requests

vars == <<row, file, links, gate, call, reader, proc, crossed, requests>>

Absent == "absent"     \* there is no such row
Unknown == "unknown"   \* duration_seconds is NULL
Lengths == {"short", "long"}   \* "long": over _ON_DEMAND_MIN_SECONDS
Idle == [op |-> "none", length |-> Unknown]

\* What may follow "bytes=": a start and an end, a start alone, the last bytes,
\* or what is not understood; and no header at all.
Ask(kind, a, b) == [kind |-> kind, a |-> a, b |-> b]
Asks ==
  {Ask("part", a, b) : a, b \in 0..MaxSize + 1} \cup {Ask("from", a, 0) : a \in 0..MaxSize + 1}
    \cup {Ask("last", a, 0) : a \in 0..MaxSize + 1} \cup {Ask("other", 0, 0), Ask("whole", 0, 0)}
NoReader == [phase |-> "none", ask |-> Ask("whole", 0, 0), at |-> 0, end |-> 0, got |-> <<>>]

TypeOK ==
  /\ row \in Lengths \cup {Unknown, Absent}
  /\ file.there \in BOOLEAN /\ file.length \in Lengths /\ file.size \in {0, MaxSize}
  /\ links \in [Links -> Lengths \cup {Unknown, Absent}]
  /\ gate \subseteq {"active", "public", "slug", "hidden"}
  /\ \A k \in Calls : call[k].op \in {"none", "probe", "copy", "insert", "delete", "unlinked"}
  /\ reader.phase \in {"none", "asked", "reading", "done", "refused", "broken", "streams"}
  /\ proc \in BOOLEAN /\ crossed \in BOOLEAN

Init ==
  /\ \E l \in Lengths, n \in {0, MaxSize} :
       file = [there |-> TRUE, length |-> l, size |-> n] /\ row \in {l, Unknown}
  /\ links = [i \in Links |-> Absent] /\ gate = {"active", "public", "slug"}
  /\ call = [k \in Calls |-> Idle] /\ reader = NoReader
  /\ proc = FALSE /\ crossed = FALSE /\ requests = 0

Request == requests < MaxRequests /\ requests' = requests + 1
Linked == {i \in Links : links[i] # Absent}

-----------------------------------------------------------------------------
(* The length. *)

\* _ffprobe_duration: five seconds, and no length of a file that is not there.
Probed == {Unknown} \cup (IF file.there THEN {file.length} ELSE {})

\* The list of the panel has a background task probe what has no length.
Probe(k) ==
  /\ Request /\ call[k] = Idle /\ row = Unknown
  /\ \E l \in Probed : call' = [call EXCEPT ![k] = [op |-> "probe", length |-> l]]
  /\ UNCHANGED <<row, file, links, gate, reader, proc, crossed>>

\* The links that have none are given it too; a row that is gone fails the update.
Backfill(k) ==
  /\ call[k].op = "probe" /\ call' = [call EXCEPT ![k] = Idle]
  /\ IF call[k].length # Unknown /\ row # Absent
       THEN /\ row' = call[k].length
            /\ links' = [i \in Links |-> IF links[i] = Unknown THEN call[k].length ELSE links[i]]
       ELSE UNCHANGED <<row, links>>
  /\ UNCHANGED <<file, gate, reader, proc, crossed, requests>>

\* A link's own, or else that of the video: playback, its watchdog, the panel
\* and the slides read through to the source.
Effective(i) == IF links[i] = Unknown /\ row # Absent THEN row ELSE links[i]

-----------------------------------------------------------------------------
(* Links and deletion. *)

\* A copy of a copy is a link to the video; of a link whose video is gone, to
\* nothing. A length that is missing is probed first.
Copy(k) ==
  /\ Request /\ call[k] = Idle
  /\ \/ row \notin {Absent, Unknown} /\ call' = [call EXCEPT ![k] = [op |-> "insert", length |-> row]]
     \/ /\ row = Unknown
        /\ \E l \in Probed :
             call' = [call EXCEPT ![k] = [op |-> IF l = Unknown THEN "insert" ELSE "copy", length |-> l]]
     \/ /\ row = Absent
        /\ \E i \in Linked : call' = [call EXCEPT ![k] = [op |-> "insert", length |-> links[i]]]
  /\ UNCHANGED <<row, file, links, gate, reader, proc, crossed>>

CopyProbed(k) ==
  /\ call[k].op = "copy"
  /\ IF row = Absent THEN call' = [call EXCEPT ![k] = Idle] /\ UNCHANGED row
                     ELSE row' = call[k].length /\ call' = [call EXCEPT ![k].op = "insert"]
  /\ UNCHANGED <<file, links, gate, reader, proc, crossed, requests>>

Insert(k) ==
  /\ call[k].op = "insert" /\ call' = [call EXCEPT ![k] = Idle]
  /\ \E i \in Links \ Linked : links' = [links EXCEPT ![i] = call[k].length]
  /\ crossed' = (crossed \/ row = Absent \/ \E j \in Calls : call[j].op \in {"delete", "unlinked"})
  /\ UNCHANGED <<row, file, gate, reader, proc, requests>>

\* "forces the host to remove aliases first so we don't strand them with a
\* broken file pointer"
Referenced == Linked # {}

Delete(k) ==
  /\ Request /\ call[k] = Idle /\ row # Absent /\ ~Referenced
  /\ call' = [call EXCEPT ![k] = [op |-> "delete", length |-> Unknown]]
  /\ UNCHANGED <<row, file, links, gate, reader, proc, crossed>>

\* The file goes before the row.
Unlink(k) ==
  /\ call[k].op = "delete" /\ call' = [call EXCEPT ![k].op = "unlinked"]
  /\ file' = [file EXCEPT !.there = FALSE]
  /\ UNCHANGED <<row, links, gate, reader, proc, crossed, requests>>

Deleted(k) ==
  /\ call[k].op = "unlinked" /\ call' = [call EXCEPT ![k] = Idle] /\ row' = Absent
  /\ UNCHANGED <<file, links, gate, reader, proc, crossed, requests>>

DeleteLink ==
  /\ Request /\ \E i \in Linked : links' = [links EXCEPT ![i] = Absent]
  /\ UNCHANGED <<row, file, gate, call, reader, proc, crossed>>

-----------------------------------------------------------------------------
(* On Demand. *)

\* The owner closes or hides the meeting, or makes it public: with a name only.
Change ==
  /\ Request /\ \E g \in {"active", "public", "slug", "hidden"} : gate' = (gate \cup {g}) \ (gate \cap {g})
  /\ "public" \in gate' => "slug" \in gate'
  /\ UNCHANGED <<row, file, links, call, reader, proc, crossed>>

\* _resolve_source, and its length first: of the video's row, of a link
\* through the video's, and of a link whose video is gone.
LengthOf(own) == IF row \in {Absent, Unknown} THEN own ELSE row
Eligible(own) == row # Absent /\ LengthOf(own) = "long"

\* list_on_demand: the video, under its own id, by any of its entries.
Catalogued ==
  /\ {"active", "public", "slug"} \subseteq gate /\ "hidden" \notin gate
  /\ Eligible(row) \/ \E i \in Linked : Eligible(links[i])

\* resolve_on_demand_item, of the id the list gives.
Streamable == {"active", "public"} \subseteq gate /\ "hidden" \notin gate /\ Eligible(row) /\ file.there

-----------------------------------------------------------------------------
(* Reading. *)

Refused == <<0, -2>>

\* _parse_range_header: the first and the last byte.
Parse(r, size) ==
  LET last == IF r.kind = "part" THEN r.b ELSE size - 1 IN
  CASE r.kind = "last" -> IF r.a = 0 THEN Refused ELSE <<IF r.a > size THEN 0 ELSE size - r.a, size - 1>>
    [] r.kind \in {"part", "from"} ->
         IF last < r.a \/ r.a >= size THEN Refused ELSE <<r.a, IF last < size THEN last ELSE size - 1>>
    [] r.kind = "whole" -> <<0, size - 1>>
    [] OTHER -> Refused

\* fetch_playback_file and stream_on_demand_item: a row and a file, then the range.
Fetch ==
  /\ reader.phase = "none" /\ file.there /\ row # Absent
  /\ \E r \in Asks :
       LET p == Parse(r, file.size) IN
       reader' = [phase |-> IF p = Refused THEN "refused" ELSE "asked", ask |-> r,
                  at |-> p[1], end |-> p[2], got |-> <<>>]
  /\ UNCHANGED <<row, file, links, gate, call, proc, crossed, requests>>

\* The body is made after the headers are sent: the file may be gone by then,
\* and once it is open may go.
OpenFile ==
  /\ reader.phase = "asked"
  /\ reader' = [reader EXCEPT !.phase = IF file.there THEN "reading" ELSE "broken"]
  /\ UNCHANGED <<row, file, links, gate, call, proc, crossed, requests>>

\* What is read at once: never beyond the end of the range.
Take(at, end) == IF end - at + 1 < Piece THEN end - at + 1 ELSE Piece

ReadPiece ==
  /\ reader.phase = "reading"
  /\ LET n == Take(reader.at, reader.end) IN
     reader' = IF n <= 0 THEN [reader EXCEPT !.phase = "done"]
               ELSE [reader EXCEPT !.at = @ + n, !.got = @ \o [i \in 1..n |-> reader.at + i - 1]]
  /\ UNCHANGED <<row, file, links, gate, call, proc, crossed, requests>>

\* A seek, or a pause: ffmpeg writes, from the place asked for or one frame of
\* it for hours, until it ends or its reader does.
Stream ==
  /\ reader.phase = "none" /\ file.there /\ row # Absent
  /\ reader' = [NoReader EXCEPT !.phase = "streams"] /\ proc' = TRUE
  /\ UNCHANGED <<row, file, links, gate, call, crossed, requests>>

StreamEnds ==
  /\ reader.phase = "streams" /\ ~proc /\ reader' = NoReader
  /\ UNCHANGED <<row, file, links, gate, call, proc, crossed, requests>>

ProcEnds ==
  /\ proc /\ proc' = FALSE
  /\ UNCHANGED <<row, file, links, gate, call, reader, crossed, requests>>

\* "finally": the generator is closed when its reader has gone.
Leave ==
  /\ reader.phase # "none" /\ reader' = NoReader /\ proc' = FALSE
  /\ UNCHANGED <<row, file, links, gate, call, crossed, requests>>

Next ==
  \/ \E k \in Calls : Probe(k) \/ Backfill(k) \/ Copy(k) \/ CopyProbed(k) \/ Insert(k)
                      \/ Delete(k) \/ Unlink(k) \/ Deleted(k)
  \/ DeleteLink \/ Change
  \/ Fetch \/ OpenFile \/ ReadPiece \/ Stream \/ StreamEnds \/ ProcEnds \/ Leave

Spec == Init /\ [][Next]_vars

-----------------------------------------------------------------------------
(* The bytes a range of RFC 9110 names. *)
Named(r, size) ==
  {b \in 0..size - 1 : CASE r.kind = "part" -> r.a <= b /\ b <= r.b
                         [] r.kind = "from" -> r.a <= b
                         [] r.kind = "last" -> b >= size - r.a
                         [] r.kind = "whole" -> TRUE
                         [] OTHER -> FALSE}

(* A reader who got an answer to the end has the bytes asked for, each once *)
(* and in order, and is refused only if there are none; ffmpeg runs for a   *)
(* reader alone.  The catalogue and the stream "can never disagree"         *)
(* (routes/playback.py); a link has the video's length as soon as it is     *)
(* known, and its file, but for a copy that crossed the deletion.           *)
LibraryKept ==
  /\ reader.phase = "done" =>
       /\ \A i \in 1..Len(reader.got) : reader.got[i] = reader.got[1] + i - 1
       /\ {reader.got[i] : i \in 1..Len(reader.got)} = Named(reader.ask, file.size)
  /\ reader.phase = "refused" => Named(reader.ask, file.size) = {}
  /\ proc => reader.phase = "streams"
  /\ Catalogued /\ file.there => Streamable
  /\ row \in Lengths => \A i \in Linked : Effective(i) = row
  /\ Linked # {} => crossed \/ (row # Absent /\ file.there)
-----------------------------------------------------------------------------
(* What holds between any two steps, and gives the above.  A length is the  *)
(* video's or is not known, and no link has one before the video's row; a   *)
(* file that is gone is being deleted, or was; a reader has the bytes from  *)
(* the first of the range on.                                               *)
LibraryTypes ==
  /\ DOMAIN file = {"there", "length", "size"} /\ file.length \in Lengths /\ file.size \in {0, MaxSize}
  /\ DOMAIN links = Links
  /\ DOMAIN call = Calls /\ \A k \in Calls : DOMAIN call[k] = {"op", "length"}
  /\ DOMAIN reader = DOMAIN NoReader
LengthsAgree ==
  /\ row \in {file.length, Unknown, Absent}
  /\ \A i \in Links : links[i] \in {file.length, Unknown, Absent}
  /\ \A k \in Calls : call[k].length \in {file.length, Unknown}
  /\ \A k \in Calls : call[k].op = "copy" => call[k].length = file.length
  /\ row = Unknown => /\ \A i \in Links : links[i] # file.length
                      /\ \A k \in Calls : call[k].op = "insert" => call[k].length = Unknown
Deleting == \E k \in Calls : call[k].op \in {"delete", "unlinked"}
FilesStay ==
  /\ ~file.there => row = Absent \/ \E k \in Calls : call[k].op = "unlinked"
  /\ Linked # {} => crossed \/ (row # Absent /\ file.there /\ ~Deleting)
ReadInOrder ==
  LET p == Parse(reader.ask, file.size) IN
  /\ reader.phase \in {"asked", "reading", "done"} =>
       /\ reader.ask \in Asks /\ p # Refused /\ reader.end = p[2]
       /\ reader.at \in p[1]..p[2] + 1 /\ reader.got = [i \in 1..reader.at - p[1] |-> p[1] + i - 1]
       /\ reader.phase = "done" => reader.at = p[2] + 1
  /\ reader.phase = "refused" => reader.ask \in Asks /\ p = Refused
  /\ proc => reader.phase = "streams"
LibraryHolds == LibraryTypes /\ LengthsAgree /\ FilesStay /\ ReadInOrder
=============================================================================
