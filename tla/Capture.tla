------------------------------- MODULE Capture -------------------------------
(***************************************************************************)
(* One microphone track in the agent (meetpp-agent: consumer.py, vad.py,   *)
(* session.py): a supervised consumer hands the frames it hears to the     *)
(* segmenter, which cuts them into utterances.  The stream fails and is    *)
(* taken up again with another segmenter, the session pauses, the track    *)
(* goes, and its owner takes the consent back, at any moment.              *)
(* Frames are numbered as they come; a position is between two frames, and *)
(* the model's verdict on a frame is "speech", "unsure" or "quiet".        *)
(***************************************************************************)
EXTENDS Integers, FiniteSets, FiniteSetsExt, Sequences

CONSTANTS
  StartFrames, RunMax,       \* START_MS within RUN_MAX_MS
  EndFrames, MinSpeech,      \* END_SILENCE_MS, MIN_SPEECH_MS
  PreRoll, PostRoll,
  MaxFrames, CutSearch,      \* MAX_UTTERANCE_S, CUT_SEARCH_S
  Chunk,                     \* CHUNK_SAMPLES
  MaxHeard, MaxChanges, MaxFaults

VARIABLES
  heard,    \* the frames that have come
  run,      \* the consumer: its place, what it was told, and how long it has heard no speech
  waiting,  \* frames not yet handed to the segmenter
  seg,      \* the segmenter
  paused,   \* of the session; and whether the consumer has seen it
  due,      \* history: the frames of speech the segmenter has opened an utterance for
  kept,     \* history: the frames that went to a transcriber
  short,    \* history: those of utterances shorter than MIN_SPEECH_MS
  dropped,  \* history: those thrown away when consent was taken back
  faulty,   \* history: an utterance was too long, not short, or repeats a frame
  changes, faults

vars == <<heard, run, waiting, seg, paused, due, kept, short, dropped, faulty, changes, faults>>

None == -1
IdleMax == PreRoll + RunMax

TypeOK ==
  /\ heard \in 0..MaxHeard /\ waiting \in 0..Chunk
  /\ run.at \in {"off", "on", "busy", "backoff"} /\ run.told \in {"", "liveness", "stop", "drop"}
  /\ seg.start \in 0..seg.total /\ seg.total \in 0..heard
  /\ due \cup kept \cup short \cup dropped \subseteq 1..heard

\* UtteranceSegmenter._reset_state: idle, with the audio from a position on.
Idle(start, total) ==
  [total |-> total, start |-> start, open |-> FALSE, first |-> None, count |-> 0,
   onset |-> 0, quiet |-> None]

Init ==
  /\ heard = 0 /\ waiting = 0
  /\ run = [at |-> "off", told |-> "", since |-> 0]
  /\ seg = Idle(0, 0)
  /\ paused = [now |-> FALSE, seen |-> FALSE]
  /\ due = {} /\ kept = {} /\ short = {} /\ dropped = {} /\ faulty = FALSE
  /\ changes = 0 /\ faults = 0

-----------------------------------------------------------------------------
(* UtteranceSegmenter.  A result is the segmenter after a call, what it     *)
(* gave out, what it held too short, and the frames it opened for.          *)

Frames(a, b) == (a + 1)..b
Result(s) == [seg |-> s, out |-> <<>>, short |-> {}, due |-> {}]

\* "The rest (trailing silence) seeds the idle buffer for the next pre-roll."
Rest(s, end) == Idle(end, s.total)

\* _finish
Finish(s, upto) ==
  LET end == Max({s.start, Min({upto, s.total})})
      spoken == (IF s.quiet = None THEN end ELSE s.quiet) - s.onset
  IN IF spoken < MinSpeech
       THEN [Result(Rest(s, end)) EXCEPT !.short = Frames(s.start, end)]
       ELSE [Result(Rest(s, end)) EXCEPT !.out = <<Frames(s.start, end)>>]

\* flush
Flush(s) ==
  LET r == Finish(s, IF s.quiet = None THEN s.total ELSE s.quiet + PostRoll)
  IN IF s.open THEN [r EXCEPT !.seg = Idle(s.total, s.total)] ELSE Result(Idle(s.total, s.total))

\* _open: the utterance starts a pre-roll before the run that opened it.
Open(s, first) ==
  LET start == Max({s.start, first - PreRoll, s.total - IdleMax})
  IN [Idle(start, s.total) EXCEPT !.open = TRUE, !.onset = Max({first, start})]

\* _push_frame while nobody speaks.
Listen(s, k) ==
  LET total == s.total + 1
      stale == s.first # None /\ total - s.first > RunMax
      first == IF k = "quiet" THEN None
               ELSE IF s.first # None /\ ~stale THEN s.first
               ELSE IF k = "speech" THEN s.total ELSE None
      count == IF first = None THEN 0
               ELSE (IF stale THEN 0 ELSE s.count) + (IF k = "speech" THEN 1 ELSE 0)
      from == (IF first = None THEN total ELSE first) - PreRoll
      next == [s EXCEPT !.total = total, !.first = first, !.count = count]
  IN IF count >= StartFrames
       THEN [Result(Open([next EXCEPT !.first = None], first)) EXCEPT !.due = Frames(first, total)]
       ELSE Result([next EXCEPT !.start = Max({@, from, total - IdleMax})])

\* _cut: what comes after the quietest moment of the last seconds goes on.
CutAt(s, at) == [s EXCEPT !.start = at, !.onset = at]

\* _push_frame within an utterance.
Speak(s, k) ==
  LET quiet == IF k = "speech" THEN None
               ELSE IF k = "quiet" /\ s.quiet = None THEN s.total ELSE s.quiet
      next == [s EXCEPT !.total = @ + 1, !.quiet = quiet]
      said == IF k = "speech" THEN {next.total} ELSE {}
      cuts == (next.start + MaxFrames - CutSearch)..(next.start + MaxFrames - 1)
  IN IF quiet # None /\ next.total - quiet >= EndFrames
       THEN {Finish(next, quiet + PostRoll)}
     ELSE IF next.total - next.start < MaxFrames
       THEN {[Result(next) EXCEPT !.due = said]}
     ELSE {[Result(CutAt(next, c)) EXCEPT !.out = <<Frames(next.start, c)>>, !.due = said] : c \in cuts}

Push(s, k) == IF s.open THEN Speak(s, k) ELSE {Listen(s, k)}

\* process: a chunk is handed over frame by frame.
Process(s, n) ==
  LET after(r, q) == [q EXCEPT !.out = r.out \o @, !.short = @ \cup r.short, !.due = @ \cup r.due]
      frame(r) == UNION {Push(r.seg, k) : k \in {"speech", "unsure", "quiet"}}
      more(R) == UNION {{after(r, q) : q \in frame(r)} : r \in R}
      upto[i \in 0..n] == IF i = 0 THEN {Result(s)} ELSE more(upto[i - 1])
  IN upto[n]

-----------------------------------------------------------------------------
(* TrackConsumer. *)

\* _emit: the utterances of a call go to on_utterance, one after another.
Emit(r) ==
  LET all == UNION {r.out[i] : i \in DOMAIN r.out}
      again == \/ all \cap kept # {}
               \/ \E i, j \in DOMAIN r.out : i # j /\ r.out[i] \cap r.out[j] # {}
  IN /\ kept' = kept \cup all
     /\ short' = short \cup r.short
     /\ due' = due \cup r.due
     /\ faulty' = (faulty \/ again
                    \/ (\E i \in DOMAIN r.out : Cardinality(r.out[i]) > MaxFrames)
                    \/ Cardinality((due \cup r.due) \cap r.short) >= MinSpeech)

\* _start_consumer: the track is subscribed (again).
Subscribe ==
  /\ run.at = "off" /\ changes < MaxChanges
  /\ run' = [at |-> "on", told |-> "", since |-> 0]
  /\ seg' = Idle(heard, heard) /\ waiting' = 0
  /\ changes' = changes + 1
  /\ UNCHANGED <<heard, paused, due, kept, short, dropped, faulty, faults>>

\* _consume_once: a packet comes while the session is on; enough of them are
\* given to the thread of the voice detector.
Hear ==
  /\ run.at = "on" /\ run.told = "" /\ ~paused.now /\ heard < MaxHeard
  /\ heard' = heard + 1 /\ waiting' = waiting + 1
  /\ run' = [run EXCEPT !.at = IF waiting + 1 = Chunk THEN "busy" ELSE "on", !.since = @ + 1]
  /\ paused' = [paused EXCEPT !.seen = FALSE]
  /\ UNCHANGED <<seg, due, kept, short, dropped, faulty, changes, faults>>

\* While it is paused, the first packet closes what is open.
HearPaused ==
  /\ run.at = "on" /\ run.told = "" /\ paused.now /\ ~paused.seen /\ heard < MaxHeard
  /\ paused' = [paused EXCEPT !.seen = TRUE]
  /\ heard' = heard + 1 /\ waiting' = 0
  /\ Emit(Flush(seg)) /\ seg' = Idle(heard', heard')
  /\ UNCHANGED <<run, dropped, changes, faults>>

\* The thread comes back.  A consumer cancelled meanwhile keeps what it found.
Processed ==
  /\ run.at = "busy"
  /\ \E r \in Process(seg, waiting) :
       /\ Emit(r) /\ seg' = r.seg
       /\ run' = [run EXCEPT !.at = "on",
                             !.since = IF r.seg.open \/ r.seg.first # None \/ r.out # <<>> THEN 0 ELSE @]
  /\ waiting' = 0
  /\ UNCHANGED <<heard, paused, dropped, changes, faults>>

\* set_paused.
Pause ==
  /\ changes < MaxChanges
  /\ paused' = [paused EXCEPT !.now = ~@]
  /\ changes' = changes + 1
  /\ UNCHANGED <<heard, run, waiting, seg, due, kept, short, dropped, faulty, faults>>

\* The stream raises or ends: the consumer waits before it is taken up again.
Fail ==
  /\ run.at = "on" /\ run.told = "" /\ faults < MaxFaults
  /\ run' = [run EXCEPT !.at = "backoff"] /\ waiting' = 0
  /\ faults' = faults + 1
  /\ UNCHANGED <<heard, seg, paused, due, kept, short, dropped, faulty, changes>>

\* What is said meanwhile is not heard; a gap is posted.
Missed ==
  /\ run.at = "backoff" /\ heard < MaxHeard
  /\ heard' = heard + 1
  /\ UNCHANGED <<run, waiting, seg, paused, due, kept, short, dropped, faulty, changes, faults>>

\* check_liveness: LiveKit names the person as speaking, and no speech is found.
Restart ==
  /\ run.at \in {"on", "busy"} /\ run.told = "" /\ ~paused.now
  /\ run.since >= EndFrames /\ faults < MaxFaults
  /\ run' = [run EXCEPT !.told = "liveness"]
  /\ faults' = faults + 1
  /\ UNCHANGED <<heard, waiting, seg, paused, due, kept, short, dropped, faulty, changes>>

\* _stop_consumer: the track has gone, or the consent (no flush then).
Stop ==
  /\ run.at # "off" /\ run.told \notin {"stop", "drop"} /\ changes < MaxChanges
  /\ \E how \in {"stop", "drop"} : run' = [run EXCEPT !.told = how]
  /\ changes' = changes + 1
  /\ UNCHANGED <<heard, waiting, seg, paused, due, kept, short, dropped, faulty, faults>>

\* Mutant: the segmenter of the run that failed is forgotten.
Abandoned(s) == Result(Idle(s.total, s.total))

\* "Leftover from a crashed run: keep the speech we already have."
Leftover(s) == Flush(s)

\* The next run has a stream and a segmenter of its own.
TakeUp ==
  /\ \/ run.at = "backoff" /\ run.told = ""
     \/ run.at = "on" /\ run.told = "liveness"
  /\ Emit(Leftover(seg))
  /\ seg' = Idle(heard, heard) /\ waiting' = 0
  /\ run' = [at |-> "on", told |-> "", since |-> 0]
  /\ UNCHANGED <<heard, paused, dropped, changes, faults>>

\* TrackConsumer.stop, once a call under way has come back.
Stopped ==
  /\ run.at \in {"on", "backoff"} /\ run.told \in {"stop", "drop"}
  /\ IF run.told = "stop" THEN Emit(Flush(seg)) /\ UNCHANGED dropped
     ELSE /\ dropped' = dropped \cup Frames(seg.start, seg.total)
          /\ UNCHANGED <<due, kept, short, faulty>>
  /\ seg' = Idle(heard, heard) /\ waiting' = 0
  /\ run' = [run EXCEPT !.at = "off", !.told = ""]
  /\ UNCHANGED <<heard, paused, changes, faults>>

Next ==
  \/ Subscribe \/ Hear \/ HearPaused \/ Processed \/ Pause
  \/ Fail \/ Missed \/ Restart \/ Stop \/ TakeUp \/ Stopped

Spec == Init /\ [][Next]_vars

-----------------------------------------------------------------------------
(* A frame of speech the segmenter opened an utterance for is in an         *)
(* utterance given to a transcriber, once, or in the open one, or in one    *)
(* that was too short, or its owner had taken the consent back; and no      *)
(* utterance is longer than the maximum.                                    *)
CaptureKept ==
  /\ ~faulty
  /\ due \subseteq kept \cup short \cup dropped
                   \cup (IF seg.open THEN Frames(seg.start, seg.total) ELSE {})
=============================================================================
