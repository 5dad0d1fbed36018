--------------------------------- MODULE Stage ---------------------------------
(***************************************************************************)
(* Who is on the stage of a room (stage.py): the presenter in the room     *)
(* metadata, moved by the host, by Meet++ and by the webhooks of screen    *)
(* shares and the playback.  LiveKit only replaces the whole document, so  *)
(* every writer is a read and a write under the room's lock                *)
(* (room_metadata.py); who waits for it polls, so the next one to get it   *)
(* need not be the one that came first.                                    *)
(***************************************************************************)
EXTENDS Naturals, Sequences, FiniteSets, Functions

CONSTANTS
  Cameras, Streams,    \* stage keys: cameras; screen shares and the playback
  MaxMoves, MaxFaults  \* bound what happens in the room, and what goes wrong

VARIABLES
  md,        \* the room metadata: presenter, presenter_prev, stage_streams,
             \* and a count that stands for the fields of the other writers
  patches,   \* patches that wait for the lock
  holding,   \* patches between their read and their write
  live,      \* streams that are published
  running,   \* a Meet++ session is running
  base,      \* what is meant to be on the stage when no stream is
  wrote,     \* what the other writers have asked for
  moves, late, faults

vars == <<md, patches, holding, live, running, base, wrote, moves, late, faults>>

Board == "board"   None == "none"
Keys == Cameras \cup Streams \cup {Board, None}
Documents == [presenter : Keys, prev : Keys, streams : Seq(Streams), other : 0..MaxMoves]
Patches == [kind : {"started", "stopped", "board", "boardEnds", "chosen", "other"}, key : Keys]

TypeOK ==
  /\ md \in Documents
  /\ patches \in Seq(Patches)
  /\ holding \subseteq [patch : Patches, read : Documents]
  /\ live \subseteq Streams /\ running \in BOOLEAN
  /\ base \in Keys \ Streams /\ wrote \in 0..MaxMoves
  /\ moves \in 0..MaxMoves /\ late \in BOOLEAN /\ faults \in 0..MaxFaults

Init ==
  /\ md = [presenter |-> None, prev |-> None, streams |-> <<>>, other |-> 0]
  /\ patches = <<>> /\ holding = {}
  /\ live = {} /\ running = FALSE /\ base = None
  /\ wrote = 0 /\ moves = 0 /\ late = FALSE /\ faults = 0

-----------------------------------------------------------------------------
DropAt(s, i) == SubSeq(s, 1, i - 1) \o SubSeq(s, i + 1, Len(s))

(* The moves of stage.py, each on the document it was given.  The list of   *)
(* streams is rebuilt without the key, which is in it once at most.         *)
Without(s, k) ==
  IF k \in Range(s) THEN DropAt(s, CHOOSE i \in DOMAIN s : s[i] = k) ELSE s

StreamStarted(d, k) ==
  LET e == [d EXCEPT !.streams = Append(Without(@, k), k)] IN
  IF d.presenter \in {None, k} THEN e
  ELSE [e EXCEPT !.presenter = k, !.prev = IF d.presenter \in Streams THEN @ ELSE d.presenter]

StreamStopped(d, k) ==
  LET e == [d EXCEPT !.streams = Without(@, k)]
      back == [e EXCEPT !.presenter = d.prev, !.prev = None]
  IN IF d.presenter = k
     THEN IF e.streams # <<>> THEN [e EXCEPT !.presenter = e.streams[Len(e.streams)]] ELSE back
     ELSE IF d.presenter = None /\ e.streams = <<>> THEN back ELSE e

BoardStarted(d) ==
  IF d.presenter = Board THEN d
  ELSE IF d.presenter \in Streams \/ (d.presenter = None /\ d.streams # <<>>)
  THEN [d EXCEPT !.prev = Board]
  ELSE [d EXCEPT !.presenter = Board, !.prev = None]

(* Mutant: only the presenter is looked at.                                 *)
BoardLeaves(d) == [d EXCEPT !.presenter = IF @ = Board THEN None ELSE @]

BoardEnded(d) ==
  [d EXCEPT !.presenter = IF @ = Board THEN None ELSE @, !.prev = IF @ = Board THEN None ELSE @]

Chosen(d, k) == [d EXCEPT !.presenter = k, !.prev = None]

Patched(d, p) ==
  CASE p.kind = "started" -> StreamStarted(d, p.key)
    [] p.kind = "stopped" -> StreamStopped(d, p.key)
    [] p.kind = "board" -> BoardStarted(d)
    [] p.kind = "boardEnds" -> BoardEnded(d)
    [] p.kind = "chosen" -> Chosen(d, p.key)
    [] p.kind = "other" -> [d EXCEPT !.other = @ + 1]

-----------------------------------------------------------------------------
Asks(kind, key) ==
  /\ moves < MaxMoves /\ moves' = moves + 1
  /\ patches' = Append(patches, [kind |-> kind, key |-> key])
  /\ UNCHANGED <<md, holding, late, faults>>

Publishes(k) ==
  /\ k \notin live /\ live' = live \cup {k}
  /\ Asks("started", k)
  /\ UNCHANGED <<running, base, wrote>>

(* track_unpublished, or participant_left of one who may share nothing.     *)
Stops(k) ==
  /\ live' = live \ {k}
  /\ Asks("stopped", k)
  /\ UNCHANGED <<running, base, wrote>>

SessionStarts ==
  /\ ~running /\ running' = TRUE /\ base' = Board
  /\ Asks("board", None)
  /\ UNCHANGED <<live, wrote>>

SessionEnds ==
  /\ running /\ running' = FALSE
  /\ base' = IF base = Board THEN None ELSE base
  /\ Asks("boardEnds", None)
  /\ UNCHANGED <<live, wrote>>

(* The host chooses among what there is.                                    *)
Chooses(k) ==
  /\ k = Board => running
  /\ base' = IF k \in Streams THEN None ELSE k
  /\ Asks("chosen", k)
  /\ UNCHANGED <<live, running, wrote>>

(* Layout, flags, PiP: the other writers of the document.                   *)
Writes ==
  /\ wrote' = wrote + 1
  /\ Asks("other", None)
  /\ UNCHANGED <<live, running, base>>

-----------------------------------------------------------------------------
(* Mutant: nobody waits.                                                    *)
Always == TRUE

(* _room_lock.                                                              *)
Free == holding = {}

Read(i) ==
  /\ Free
  /\ holding' = holding \cup {[patch |-> patches[i], read |-> md]}
  /\ patches' = DropAt(patches, i)
  /\ late' = (late \/ i # 1)
  /\ UNCHANGED <<md, live, running, base, wrote, moves, faults>>

Write(h) ==
  /\ holding' = holding \ {h}
  /\ md' = Patched(h.read, h.patch)
  /\ UNCHANGED <<patches, live, running, base, wrote, moves, late, faults>>

(* LiveKit refuses: a hand-over is missed, another write is answered with   *)
(* an error.                                                                *)
Refused(h) ==
  /\ faults < MaxFaults /\ faults' = faults + 1
  /\ holding' = holding \ {h}
  /\ IF h.patch.kind = "other" THEN wrote' = wrote - 1 /\ UNCHANGED late
     ELSE late' = TRUE /\ UNCHANGED wrote
  /\ UNCHANGED <<md, patches, live, running, base, moves>>

Next ==
  \/ \E k \in Streams : Publishes(k) \/ Stops(k)
  \/ SessionStarts \/ SessionEnds \/ Writes
  \/ \E k \in Cameras \cup live \cup {Board, None} : Chooses(k)
  \/ \E i \in DOMAIN patches : Read(i)
  \/ \E h \in holding : Write(h) \/ Refused(h)

Spec == Init /\ [][Next]_vars

-----------------------------------------------------------------------------
Quiet == patches = <<>> /\ holding = {}

(* "two concurrent read-modify-writes lose one update" (room_metadata.py):  *)
(* once all is written, none is lost, in whatever order they came.          *)
NothingLost == Quiet => md.other = wrote

(* Once the moves are written in the order they were made, a presented      *)
(* stream is one that runs, the latest unless the host chose, and with the  *)
(* last stream gone what was on the stage before is back: the board while   *)
(* its session runs and only then.                                          *)
StageGivenBack ==
  Quiet /\ ~late =>
    /\ Range(md.streams) = live
    /\ md.presenter \in Streams => md.presenter \in live
    /\ live = {} => md.presenter = base
    /\ ~running => Board \notin {md.presenter, md.prev}

-----------------------------------------------------------------------------
(* What holds between the steps.                                            *)
Docs == [presenter : Keys, prev : Keys, streams : Seq(Keys), other : Nat]

StageTypes ==
  /\ md \in Docs
  /\ patches \in Seq(Patches)
  /\ late \in BOOLEAN /\ running \in BOOLEAN

(* One writer at a time has the document, and it is the one in the room.    *)
OneWriter ==
  \A h \in holding : holding = {h} /\ h.patch \in Patches /\ h.read = md

(* What the other writers have asked for is in the document or on its way.  *)
Others == {i \in DOMAIN patches : patches[i].kind = "other"}

OthersHold ==
  md.other + Cardinality(Others) + Cardinality({h \in holding : h.patch.kind = "other"}) = wrote

(* A document that has the stage as the moves have left it: the streams     *)
(* that are published, in order; and on the stage one of them, or nobody,   *)
(* with what comes back behind it, or else what is meant to be there.       *)
Good(d) ==
  /\ \A i, j \in DOMAIN d.streams : d.streams[i] = d.streams[j] => i = j
  /\ Range(d.streams) = live
  /\ base \in Keys \ Streams /\ (~running => base # Board)
  /\ \/ d.presenter \in live /\ d.prev = base
     \/ d.presenter = None /\ d.prev = base /\ (live = {} => base = None)
     \/ d.presenter \notin Streams \cup {None} /\ d.presenter = base /\ d.prev = None
=============================================================================
