-------------------------------- MODULE Egress --------------------------------
(***************************************************************************)
(* The egress of one meeting (services/egress_mgr.py): recording and       *)
(* livestream ride on one LiveKit egress, which is stopped and started     *)
(* again with other outputs whenever one of the two is switched.  Requests *)
(* read what runs, wait for the meeting's egress lock, and then go through *)
(* a stop and a start of LiveKit while its webhooks tell the database what *)
(* has ended.  The room of the public channel has two jobs besides: the    *)
(* watchdog keeps its stream up, the reaper stops what nothing tracks.     *)
(* LiveKit is modelled from how the code uses it; egress ids are given out *)
(* in order, so the first running row is the oldest.                       *)
(***************************************************************************)
EXTENDS Naturals, Sequences, FiniteSets

CONSTANTS
  Callers,      \* requests and jobs that may be under way at once
  Kinds,        \* the requests that are made
  Public,       \* the room is the public channel's
  SlowHooks,    \* an egress_ended may come after the next transition began
  Faults,       \* what may go wrong
  MaxRequests,  \* bounds the requests
  MaxFaults     \* bounds the faults

AllKinds == {"record", "stopRecord", "stream", "stopStream", "force", "restore"}

VARIABLES
  eg,       \* LiveKit: its egresses with their outputs, by id
  hooks,    \* egress_ended webhooks on their way
  pointer,  \* meetings.livestream_egress_id, 0 for none
  running,  \* egress ids of the recording rows that are running
  layout,   \* meetings.current_egress_layout
  saved,    \* meetings.layout_before_playback
  playing,  \* meetings.playback_ingress_id is set
  flags,    \* room metadata: recording_active and streaming_active
  syncs,    \* sync_egress_flags under way, with the ended egress or 0
  call,     \* the requests under way
  requests, faults

livekit == <<eg, hooks>>
meeting == <<pointer, running, layout, saved, playing>>
vars == <<livekit, meeting, flags, syncs, call, requests, faults>>

Layouts == {"none", "speaker", "single"}
Ids == 1..Len(eg)
NoCall == [phase |-> "idle", kind |-> "none", file |-> FALSE, stream |-> FALSE,
           layout |-> "none", id |-> 0]

TypeOK ==
  /\ eg \in Seq([st : {"active", "ending", "ended", "dead"}, file : BOOLEAN, stream : BOOLEAN])
  /\ hooks \subseteq Ids
  /\ pointer \in {0} \cup Ids
  /\ running \subseteq Ids
  /\ layout \in Layouts /\ saved \in Layouts /\ playing \in BOOLEAN
  /\ flags \in [rec : BOOLEAN, str : BOOLEAN]
  /\ syncs \subseteq {0} \cup Ids
  /\ call \in [Callers -> [phase : {"idle", "waiting", "stopping", "starting", "started", "flags", "ingress"},
                           kind : AllKinds \cup {"none", "watchdog"}, file : BOOLEAN, stream : BOOLEAN,
                           layout : Layouts \cup {"keep"}, id : {0} \cup Ids]]
  /\ requests \in 0..MaxRequests /\ faults \in 0..MaxFaults

Init ==
  /\ eg = <<>> /\ hooks = {}
  /\ pointer = 0 /\ running = {} /\ layout = "none" /\ saved = "none" /\ playing = FALSE
  /\ flags = [rec |-> FALSE, str |-> FALSE]
  /\ syncs = {}
  /\ call = [c \in Callers |-> NoCall]
  /\ requests = 0 /\ faults = 0

-----------------------------------------------------------------------------
(* What the database says runs (_current_state, egress_flags). *)

HasFile == running # {}
HasStream == pointer # 0
FirstRow == CHOOSE e \in running : \A f \in running : e <= f
Current == IF HasStream THEN pointer ELSE IF HasFile THEN FirstRow ELSE 0
FlagsNow(ended) == [rec |-> running \ {ended} # {}, str |-> pointer \notin {0, ended}]

(* The lock: one caller at a time goes through a transition. *)
Holds(c) == call[c].phase \in {"stopping", "starting", "started", "flags"}
LockIsFree == \A c \in Callers : ~Holds(c)

-----------------------------------------------------------------------------
(* Requests, up to the lock: what is wanted is read before it is waited for.*)

Waits(c, kind, file, stream, l) ==
  call' = [call EXCEPT ![c] = [NoCall EXCEPT !.phase = "waiting", !.kind = kind,
                               !.file = file, !.stream = stream, !.layout = l]]

Request(c, kind) ==
  /\ kind \in Kinds
  /\ call[c] = NoCall
  /\ requests < MaxRequests
  /\ requests' = requests + 1
  /\ UNCHANGED <<livekit, pointer, running, layout, flags, faults>>

(* While a video plays an egress shows the player; the layout is kept. *)
AskedLayout(l) ==
  IF playing THEN "single" ELSE l
KeepAsked(l) ==
  saved' = IF playing /\ saved = "none" THEN l ELSE saved

StartRecording(c) ==
  /\ Request(c, "record")
  /\ ~HasFile
  /\ KeepAsked("speaker")
  /\ Waits(c, "record", TRUE, HasStream, AskedLayout("speaker"))
  /\ UNCHANGED <<playing, syncs>>

StopRecording(c) ==
  /\ Request(c, "stopRecord")
  /\ IF HasFile
     THEN Waits(c, "stopRecord", FALSE, pointer = FirstRow, "keep") /\ UNCHANGED syncs
     ELSE syncs' = syncs \cup {0} /\ UNCHANGED call
  /\ UNCHANGED <<saved, playing>>

StartStream(c) ==
  /\ Request(c, "stream")
  /\ ~HasStream
  /\ KeepAsked("speaker")
  /\ Waits(c, "stream", HasFile, TRUE, AskedLayout("speaker"))
  /\ UNCHANGED <<playing, syncs>>

StopStream(c) ==
  /\ Request(c, "stopStream")
  /\ IF HasStream
     THEN Waits(c, "stopStream", pointer \in running, FALSE, "keep") /\ UNCHANGED syncs
     ELSE syncs' = syncs \cup {0} /\ UNCHANGED call
  /\ UNCHANGED <<saved, playing>>

(* A video starts: a running egress is put on the player's layout before    *)
(* the ingress is created (_force_single_speaker_layout).                   *)
PlaybackStarts(c) ==
  /\ Request(c, "force")
  /\ ~playing
  /\ IF Current # 0 /\ layout # "single"
     THEN /\ saved' = IF saved # "none" THEN saved ELSE IF layout = "none" THEN "speaker" ELSE layout
          /\ Waits(c, "force", HasFile, HasStream, "single")
     ELSE /\ saved' = IF saved = "none" /\ Current = 0 THEN layout ELSE saved
          /\ call' = [call EXCEPT ![c] = [NoCall EXCEPT !.phase = "ingress"]]
  /\ UNCHANGED <<playing, syncs>>

IngressCreated(c) ==
  /\ call[c].phase = "ingress"
  /\ playing' = TRUE
  /\ call' = [call EXCEPT ![c] = NoCall]
  /\ UNCHANGED <<livekit, pointer, running, layout, saved, flags, syncs, requests, faults>>

(* It ends: the layout before it is restored.                               *)

PlaybackEnds(c) ==
  /\ Request(c, "restore")
  /\ playing
  /\ playing' = FALSE
  /\ saved' = "none"
  /\ IF saved = "none" \/ Current = 0 \/ layout = saved
     THEN UNCHANGED call
     ELSE Waits(c, "restore", HasFile, HasStream, saved)
  /\ UNCHANGED syncs

-----------------------------------------------------------------------------
(* A transition under the lock (reconcile_egress_locked). *)

(* The transition is over; a video that waited for it gets its ingress.     *)
Ended(w) == IF w.kind = "force" THEN [NoCall EXCEPT !.phase = "ingress"] ELSE NoCall

(* Mutant: the layout of a request that names none is not looked up.        *)
TransitionAsAsked(c, w, p) ==
  LET cur == IF p # 0 THEN p ELSE IF HasFile THEN FirstRow ELSE 0
  IN call' = [call EXCEPT ![c] =
       IF HasFile = w.file /\ (p # 0) = w.stream THEN Ended(w)
       ELSE [w EXCEPT !.phase = IF cur = 0 THEN "starting" ELSE "stopping", !.id = cur]]

(* What is to be done for wants w, with the pointer p as the stream's.      *)
Transition(c, w, p) ==
  LET lay == IF w.layout # "keep" THEN w.layout ELSE IF layout = "none" THEN "speaker" ELSE layout
      cur == IF p # 0 THEN p ELSE IF HasFile THEN FirstRow ELSE 0
      same == HasFile = w.file /\ (p # 0) = w.stream /\ (cur = 0 \/ layout = lay)
  IN call' = [call EXCEPT ![c] =
       IF same THEN Ended(w)
       ELSE [w EXCEPT !.phase = IF cur = 0 THEN "starting" ELSE "stopping",
                      !.id = cur, !.layout = lay]]

(* Mutant: transitions are not serialised. *)
AcquireUnlocked(c) ==
  /\ call[c].phase = "waiting"
  /\ Transition(c, call[c], pointer)
  /\ UNCHANGED <<livekit, meeting, flags, syncs, requests, faults>>

Acquire(c) ==
  /\ call[c].phase = "waiting"
  /\ call[c].kind # "watchdog"
  /\ LockIsFree
  /\ SlowHooks \/ \A e \in Ids : eg[e].st # "ending" /\ e \notin hooks
  /\ Transition(c, call[c], pointer)
  /\ UNCHANGED <<livekit, meeting, flags, syncs, requests, faults>>

Raises(c) == call' = [call EXCEPT ![c] = NoCall]

(* The lock is waited for 90 seconds, then the request is refused. *)
LockTimeout(c) ==
  /\ call[c].phase = "waiting"
  /\ ~LockIsFree
  /\ Raises(c)
  /\ UNCHANGED <<livekit, meeting, flags, syncs, requests, faults>>

Done(c) == call' = [call EXCEPT ![c] = Ended(call[c])]

(* LiveKit stops the egress: an egress that is ending may be stopped again. *)
StopDone(c) ==
  /\ call[c].phase = "stopping"
  /\ eg[call[c].id].st \in {"active", "ending"}
  /\ eg' = [eg EXCEPT ![call[c].id].st = "ending"]
  /\ flags' = [rec |-> call[c].file, str |-> call[c].stream]
  /\ pointer' = 0
  /\ IF call[c].file \/ call[c].stream
     THEN call' = [call EXCEPT ![c].phase = "starting", ![c].id = 0] /\ UNCHANGED layout
     ELSE Done(c) /\ layout' = "none"
  /\ UNCHANGED <<hooks, running, saved, playing, syncs, requests, faults>>

(* It has ended or its handler is gone: the error ends the request. *)
StopFails(c) ==
  /\ call[c].phase = "stopping"
  /\ eg[call[c].id].st \in {"ended", "dead"}
  /\ Raises(c)
  /\ UNCHANGED <<livekit, meeting, flags, syncs, requests, faults>>

LiveKitStarts(c) ==
  /\ call[c].phase = "starting"
  /\ eg' = Append(eg, [st |-> "active", file |-> call[c].file, stream |-> call[c].stream])
  /\ call' = [call EXCEPT ![c].phase = "started", ![c].id = Len(eg) + 1]
  /\ UNCHANGED <<hooks, meeting, flags, syncs, requests, faults>>

(* The new egress goes into the database. *)
Track(c) ==
  /\ running' = IF call[c].file THEN running \cup {call[c].id} ELSE running
  /\ pointer' = IF call[c].stream THEN call[c].id ELSE pointer
  /\ layout' = call[c].layout

Commit(c) ==
  /\ call[c].phase = "started"
  /\ Track(c)
  /\ call' = [call EXCEPT ![c].phase = "flags"]
  /\ UNCHANGED <<livekit, saved, playing, flags, syncs, requests, faults>>

(* The metadata flags are written after the commit. *)
WriteFlags(c) ==
  /\ call[c].phase = "flags"
  /\ flags' = [rec |-> call[c].file, str |-> call[c].stream]
  /\ Done(c)
  /\ UNCHANGED <<livekit, meeting, syncs, requests, faults>>

(* One of the things that may go wrong, MaxFaults times at most. *)
Fault(f) ==
  /\ f \in Faults
  /\ faults < MaxFaults
  /\ faults' = faults + 1

-----------------------------------------------------------------------------
(* LiveKit's webhooks. *)

EgressEnded(e) ==
  /\ e \in hooks
  /\ hooks' = hooks \ {e}
  /\ pointer' = IF pointer = e THEN 0 ELSE pointer
  /\ layout' = IF pointer = e THEN "none" ELSE layout
  /\ running' = running \ {e}
  /\ syncs' = IF pointer = e \/ e \in running THEN syncs \cup {e} ELSE syncs
  /\ UNCHANGED <<eg, saved, playing, flags, call, requests, faults>>

(* The flags follow the database; the ended egress counts for neither. *)
SyncFlags(e) ==
  /\ e \in syncs
  /\ flags' = FlagsNow(e)
  /\ syncs' = syncs \ {e}
  /\ UNCHANGED <<livekit, meeting, call, requests, faults>>

Stopped(e) ==
  /\ eg[e].st = "ending"
  /\ eg' = [eg EXCEPT ![e].st = "ended"]
  /\ hooks' = hooks \cup {e}
  /\ UNCHANGED <<meeting, flags, syncs, call, requests, faults>>

-----------------------------------------------------------------------------
(* The jobs of the public channel. *)

(* The watchdog's candidates: the room's destinations are switched on.      *)
(* Mutant: only a stream that is tracked is looked after.                   *)
WatchTracked(c) == Public /\ call[c] = NoCall /\ HasStream
Watch(c) == Public /\ call[c] = NoCall

(* No egress, or one whose playlist is stale, is replaced under the lock.   *)
Watchdog(c) ==
  /\ Watch(c)
  /\ LockIsFree
  /\ HasStream => eg[pointer].st # "active"
  /\ pointer' = 0
  /\ \/ /\ Transition(c, [NoCall EXCEPT !.kind = "watchdog", !.stream = TRUE, !.layout = "keep"], 0)
        /\ UNCHANGED faults
     \/ Fault("memory") /\ UNCHANGED call   \* the host has no memory for it
  /\ UNCHANGED <<livekit, running, layout, saved, playing, flags, syncs, requests>>

(* What neither the pointer nor a running row names. *)
Tracked(e) == e = pointer \/ e \in running
BeingStarted(e) == \E c \in Callers : call[c].phase = "started" /\ call[c].id = e
Orphan(e) == eg[e].st = "active" /\ ~Tracked(e) /\ ~BeingStarted(e)

(* Mutant: a room that has its stream is not looked at. *)
ReapStreamless(e) ==
  /\ Public /\ ~HasStream
  /\ Orphan(e)
  /\ eg' = [eg EXCEPT ![e].st = "ending"]
  /\ UNCHANGED <<hooks, meeting, flags, syncs, call, requests, faults>>

Reap(e) ==
  /\ Public
  /\ Orphan(e)
  /\ eg' = [eg EXCEPT ![e].st = "ending"]
  /\ UNCHANGED <<hooks, meeting, flags, syncs, call, requests, faults>>

-----------------------------------------------------------------------------
(* What may go wrong. *)

(* An egress ends by itself; or its handler dies and LiveKit does not know. *)
EndsAlone(e) ==
  /\ Fault("ends")
  /\ eg[e].st = "active"
  /\ eg' = [eg EXCEPT ![e].st = "ending"]
  /\ UNCHANGED <<hooks, meeting, flags, syncs, call, requests>>

HandlerDies(e) ==
  /\ Fault("dies")
  /\ eg[e].st \in {"active", "ending"}
  /\ eg' = [eg EXCEPT ![e].st = "dead"]
  /\ UNCHANGED <<hooks, meeting, flags, syncs, call, requests>>

(* No worker, no destination, no disk space. *)
StartFails(c) ==
  /\ Fault("start")
  /\ call[c].phase = "starting"
  /\ Raises(c)
  /\ UNCHANGED <<livekit, meeting, flags, syncs, requests>>

(* The API process restarts: what is under way is gone. *)
Crash ==
  /\ Fault("crash")
  /\ call' = [c \in Callers |-> NoCall]
  /\ syncs' = {}
  /\ UNCHANGED <<livekit, meeting, flags, requests>>

Asks(c) == StartRecording(c) \/ StopRecording(c) \/ StartStream(c) \/ StopStream(c)
           \/ PlaybackStarts(c) \/ PlaybackEnds(c)
Proceeds(c) == Acquire(c) \/ StopDone(c) \/ StopFails(c) \/ LiveKitStarts(c) \/ Commit(c) \/ WriteFlags(c)
               \/ IngressCreated(c)

Next ==
  \/ \E c \in Callers : Asks(c) \/ Proceeds(c) \/ LockTimeout(c) \/ Watchdog(c) \/ StartFails(c)
  \/ \E e \in Ids : EgressEnded(e) \/ Stopped(e) \/ Reap(e) \/ EndsAlone(e) \/ HandlerDies(e)
  \/ \E e \in {0} \cup Ids : SyncFlags(e)
  \/ Crash

Spec == Init /\ [][Next]_vars

(* LiveKit answers and delivers its webhooks, the jobs run again and again. *)
Fairness ==
  /\ \A c \in Callers : WF_vars(Proceeds(c))
  /\ WF_vars(\E c \in Callers : Watchdog(c) /\ UNCHANGED faults)
  /\ WF_vars(\E e \in Ids : EgressEnded(e) \/ Stopped(e))
  /\ WF_vars(\E e \in Ids : Reap(e))
  /\ WF_vars(\E e \in {0} \cup Ids : SyncFlags(e))

FairSpec == Spec /\ Fairness

-----------------------------------------------------------------------------
(* "The fix is to never run more than one egress per meeting"               *)
(* (egress_mgr.py): two transitions never leave two of them on the host.    *)
OneEgress == \A d, e \in Ids : eg[d].st = "active" /\ eg[e].st = "active" => d = e

(* Nothing is under way. *)
Quiet ==
  /\ \A c \in Callers : call[c] = NoCall
  /\ \A e \in Ids : eg[e].st # "ending"
  /\ hooks = {} /\ syncs = {}

(* "The Recording / Streaming flags of the room metadata follow what still  *)
(* runs when an egress ends" (tests/test_egress_flags.py): once everything  *)
(* has come in they show what the database has, however the webhooks, the   *)
(* background syncs and a restart of the egress overtook one another.       *)
FlagsFollow == Quiet => flags = FlagsNow(0)

(* The watchdog "starts a genuinely new egress": whatever ends, dies or     *)
(* fails to start, in the end the public channel streams and keeps on.      *)
Streams == HasStream /\ eg[pointer].st = "active"
StreamKeptUp == <>[]Streams

(* "No egress may run untracked" (tests/test_egress_orphans.py): what a     *)
(* crash or a lost answer left running is stopped.                          *)
OrphansStopped == []<>(\A e \in Ids : ~Orphan(e))
-----------------------------------------------------------------------------
(* What holds between any two steps where webhooks come in time, nothing    *)
(* fails and no job of the public channel runs, and gives OneEgress and     *)
(* FlagsFollow: one caller is between its look and its flags; what the      *)
(* database names runs or is about to be told ended; and flags that are not *)
(* the database's are about to be written.                                  *)
Named(e) == e \in running \/ e = pointer
Active(e) == eg[e].st = "active"

EgressTypes ==
  /\ eg \in Seq([st : {"active", "ending", "ended"}, file : BOOLEAN, stream : BOOLEAN])
  /\ hooks \subseteq Ids /\ running \subseteq Ids /\ pointer \in {0} \cup Ids
  /\ DOMAIN call = Callers
  /\ \A c \in Callers : /\ DOMAIN call[c] = DOMAIN NoCall
                        /\ call[c].file \in BOOLEAN /\ call[c].stream \in BOOLEAN

OneHolds == \A c, d \in Callers : Holds(c) /\ Holds(d) => c = d

\* Where the caller is, between its look and its flags.
Under(c) ==
  LET w == call[c] IN
  /\ w.phase = "stopping" =>
       /\ w.id \in Ids /\ Active(w.id)
       /\ hooks = {} /\ \A e \in Ids : eg[e].st # "ending"
  /\ w.phase = "starting" => pointer = 0 /\ \A e \in Ids : ~Active(e)
  /\ w.phase = "started" => w.id \in Ids /\ Active(w.id) /\ pointer = 0 /\ w.id \notin running
  /\ w.phase = "flags" =>
       /\ w.id \in Ids /\ Active(w.id)
       /\ w.file <=> w.id \in running
       /\ pointer = IF w.stream THEN w.id ELSE 0
  /\ w.phase \in {"starting", "started", "flags"} => w.file \/ w.stream

NamedEndsTold ==
  /\ \A e \in hooks : eg[e].st = "ended"
  /\ \A e \in Ids : Named(e) => Active(e) \/ eg[e].st = "ending" \/ e \in hooks
  /\ \A e \in Ids : Active(e) => Named(e) \/ BeingStarted(e)
  /\ \A e \in syncs \ {0} : e \in Ids /\ eg[e].st = "ended" /\ e \notin hooks

FlagsKnown ==
  \/ syncs # {} \/ \E e \in Ids : Named(e) /\ ~Active(e)
  \/ \E c \in Callers : call[c].phase \in {"starting", "started", "flags"}
  \/ flags = FlagsNow(0)

EgressHolds ==
  /\ EgressTypes /\ OneHolds /\ OneEgress /\ NamedEndsTold /\ FlagsKnown
  /\ \A c \in Callers : Under(c)
=============================================================================
