---------------------------- MODULE Transcription ----------------------------
(***************************************************************************)
(* From speech to the stored transcript: the agent's pipeline for one      *)
(* session (meetpp-agent: session.py, worker.py, poster.py) and the        *)
(* receiver in meeting-api (runtime.py, ingest).  An utterance is asked of *)
(* the speech service first (tier 2) or decoded locally (tier 1); what     *)
(* comes of it is posted in one ordered queue over a connection that loses *)
(* requests and replies.  At the end the final pass transcribes the stored *)
(* audio again.  Utterances are numbered as they are spoken; what is given *)
(* up is gone, and gap rows are not followed beyond their delivery.        *)
(***************************************************************************)
EXTENDS Naturals, Sequences, Functions

CONSTANTS
  N,           \* bounds the utterances
  MaxBatch,    \* MAX_BATCH: so many items a request has at most
  Outages,     \* bounds the requests or replies that are lost
  Losses       \* bounds the batches given up: expired, or refused with a 4xx

VARIABLES
  phase,   \* where the task of each utterance is
  prev,    \* the utterance whose tier-2 task it posts after, or 0
  latest,  \* _tier2_first_last
  routes,  \* history: the utterances asked of tier 2, those given to the decoder
  tried,   \* the utterances tier 2 has failed (meta["tier2_tried"])
  worker,  \* the queue of the local decoder
  stored,  \* the utterances in the audio store
  queue,   \* the poster's queue
  flight,  \* the request under way: how many items, and whether it arrived
  final,   \* the final pass: its place, what is left of it, whether all went well
  rows,    \* meeting-api: the segments by seq
  text,    \* meeting-api: which text a segment has
  passed,  \* meeting-api: sessions.final_pass_done
  left     \* what is left of each bound

vars == <<phase, prev, latest, routes, tried, worker, stored, queue, flight, final, rows, text,
          passed, left>>
agent == <<phase, prev, latest, routes, tried, worker, stored>>
server == <<rows, text, passed>>

Utterances == 1..N
Phase == {"silent", "asking", "waiting", "worker", "refining", "done"}
Kinds == {"segments1", "segments2", "refinements", "final", "gaps", "status"}
Item == [kind : Kinds, u : 0..N]
NoFlight == [items |-> 0, arrived |-> FALSE]
Segments == {"segments1", "segments2"}

TypeOK ==
  /\ phase \in [Utterances -> Phase]
  /\ prev \in [Utterances -> 0..N] /\ latest \in 0..N
  /\ routes \in [asked : SUBSET Utterances, decoded : SUBSET Utterances]
  /\ tried \subseteq Utterances /\ stored \subseteq Utterances
  /\ worker \in Seq(Utterances) /\ rows \in Seq(Utterances)
  /\ queue \in Seq(Item)
  /\ flight \in [items : 0..Len(queue), arrived : BOOLEAN]
  /\ final \in [at : {"off", "drain", "pass", "ended"}, todo : SUBSET Utterances,
                ok : BOOLEAN, cut : BOOLEAN]
  /\ text \in [Utterances -> {"none", "tier1", "tier2", "final"}]
  /\ passed \in BOOLEAN
  /\ left \in [outages : 0..Outages, losses : 0..Losses]

Init ==
  /\ phase = [u \in Utterances |-> "silent"]
  /\ prev = [u \in Utterances |-> 0] /\ latest = 0
  /\ routes = [asked |-> {}, decoded |-> {}]
  /\ tried = {} /\ stored = {}
  /\ worker = <<>> /\ queue = <<>> /\ flight = NoFlight
  /\ final = [at |-> "off", todo |-> {}, ok |-> TRUE, cut |-> FALSE]
  /\ rows = <<>> /\ passed = FALSE
  /\ text = [u \in Utterances |-> "none"]
  /\ left = [outages |-> Outages, losses |-> Losses]

Put(kind, u) == queue' = Append(queue, [kind |-> kind, u |-> u])
Enter(u, p) == phase' = [phase EXCEPT ![u] = p]

-----------------------------------------------------------------------------
(* Utterances. *)

ToDecoder(u) ==
  /\ Enter(u, "worker") /\ worker' = Append(worker, u)
  /\ routes' = [routes EXCEPT !.decoded = @ \cup {u}]

\* _on_utterance: the next one spoken goes to tier 2 when that is tried first
\* and the speech service is up at this moment, else to the local decoder.
Speak(u) ==
  /\ final.at = "off"
  /\ phase[u] = "silent" /\ \A v \in 1..(u - 1) : phase[v] # "silent"
  /\ \/ /\ Enter(u, "asking")
        /\ prev' = [prev EXCEPT ![u] = latest] /\ latest' = u
        /\ routes' = [routes EXCEPT !.asked = @ \cup {u}]
        /\ UNCHANGED worker
     \/ ToDecoder(u) /\ UNCHANGED <<prev, latest>>
  /\ UNCHANGED <<tried, stored, queue, flight, final, server, left>>

\* _tier2_first: the audio is stored and the speech service answers.
Answer(u) ==
  /\ phase[u] = "asking"
  /\ Enter(u, "waiting")
  /\ stored' = stored \cup {u}
  /\ UNCHANGED <<prev, latest, routes, tried, worker, queue, flight, final, server, left>>

\* It is busy, late or nonsensical, or the audio could not be stored.
Fallback(u) ==
  /\ phase[u] = "asking"
  /\ ToDecoder(u)
  /\ \/ stored' = stored \cup {u} /\ tried' = tried \cup {u} /\ UNCHANGED final
     \/ final' = [final EXCEPT !.ok = FALSE] /\ UNCHANGED <<stored, tried>>
  /\ UNCHANGED <<prev, latest, queue, flight, server, left>>

\* Mutant: nobody waits for the utterance before.
PrevUnheeded(u) == TRUE

\* The task of the previous utterance has ended.
PrevDone(u) == prev[u] # 0 => phase[prev[u]] \notin {"asking", "waiting"}

\* The text is posted after the previous utterance; a hallucination is dropped.
PostAnswer(u) ==
  /\ phase[u] = "waiting" /\ PrevDone(u)
  /\ Enter(u, "done")
  /\ \/ Put("segments2", u)
     \/ UNCHANGED queue
  /\ UNCHANGED <<prev, latest, routes, tried, worker, stored, flight, final, server, left>>

\* The decoder has come to the first utterance of its queue.
Decoded(u) ==
  /\ worker # <<>> /\ Head(worker) = u
  /\ worker' = Tail(worker)

\* _on_stt_result: a text is posted; tier 2 may then still refine it.
Decode(u) ==
  /\ Decoded(u)
  /\ Put("segments1", u)
  /\ IF u \in tried THEN Enter(u, "done") /\ UNCHANGED <<stored, final>>
     ELSE \/ /\ stored' = stored \cup {u}
             /\ Enter(u, IF final.at = "off" THEN "refining" ELSE "done")
             /\ UNCHANGED final
          \/ /\ Enter(u, "done")
             /\ final' = [final EXCEPT !.ok = FALSE]
             /\ UNCHANGED stored
  /\ UNCHANGED <<prev, latest, routes, tried, flight, server, left>>

\* The filters find no speech in it, or it has waited too long and a gap is posted.
Drop(u) ==
  /\ Decoded(u)
  /\ Enter(u, "done")
  /\ \/ Put("gaps", u)
     \/ UNCHANGED queue
  /\ UNCHANGED <<prev, latest, routes, tried, stored, flight, final, server, left>>

\* _store_and_refine: the text of tier 2 is posted, or that of tier 1 stays.
Refine(u) ==
  /\ phase[u] = "refining"
  /\ Enter(u, "done")
  /\ \/ Put("refinements", u)
     \/ UNCHANGED queue
  /\ UNCHANGED <<prev, latest, routes, tried, worker, stored, flight, final, server, left>>

-----------------------------------------------------------------------------
(* The final pass. *)

Finalize ==
  /\ final.at = "off"
  /\ final' = [final EXCEPT !.at = "drain"]
  /\ UNCHANGED <<agent, queue, flight, server, left>>

\* Mutant: the near-live refinements under way are not waited for.
DrainedButRefinements ==
  \A u \in Utterances : phase[u] \notin {"asking", "waiting", "worker"}

\* Mutant: nor is the decoder.
DrainedButDecoder ==
  \A u \in Utterances : phase[u] \notin {"asking", "waiting", "refining"}

\* _run_final waits for the decoder and for the other tasks.
Drained ==
  \A u \in Utterances : phase[u] \notin {"asking", "waiting", "refining", "worker"}

\* The decoder is waited for 180 seconds at most.
DrainCut ==
  /\ \A u \in Utterances : phase[u] \notin {"asking", "waiting", "refining"}
  /\ worker # <<>>

StartPass ==
  /\ final.at = "drain"
  /\ \E cut \in BOOLEAN :
       /\ IF cut THEN DrainCut ELSE Drained
       /\ final' = [final EXCEPT !.at = "pass", !.todo = stored, !.cut = cut]
  /\ UNCHANGED <<agent, queue, flight, server, left>>

\* An utterance is transcribed again: posted, kept as it was, or failed.
PassOver(u) ==
  /\ final.at = "pass" /\ u \in final.todo
  /\ \/ Put("final", u) /\ final' = [final EXCEPT !.todo = @ \ {u}]
     \/ UNCHANGED queue /\ \E ok \in {final.ok, FALSE} :
          final' = [final EXCEPT !.todo = @ \ {u}, !.ok = ok]
  /\ UNCHANGED <<agent, flight, server, left>>

\* _set_final: the verdict follows the refinements in the queue.  The budget of
\* the pass may cut it, and then it has failed.
Verdict ==
  /\ final.at = "pass"
  /\ \E ok \in {final.ok /\ final.todo = {}, FALSE} :
       /\ final' = [final EXCEPT !.at = "ended", !.todo = {}, !.ok = ok]
       /\ IF ok THEN Put("status", 0) ELSE Put("status", N)
  /\ UNCHANGED <<agent, flight, server, left>>

-----------------------------------------------------------------------------
(* Delivery. *)

\* Items of a request go to the same endpoint under the same key.
Key(kind) == IF kind \in Segments THEN "segments"
             ELSE IF kind \in {"refinements", "final"} THEN "refinements"
             ELSE kind

OneKey(n) == \A i \in 1..n : Key(queue[i].kind) = Key(queue[1].kind)

\* Mutant: the head of the queue is not counted.
BatchAfterHead(n) ==
  IF queue[1].kind = "status" THEN n = 1
  ELSE n < Len(queue) /\ OneKey(n + 1) /\ ~(n + 1 < MaxBatch /\ n + 1 < Len(queue) /\ OneKey(n + 2))

\* _take_batch: the items of one kind at the head of the queue, as many as a
\* request may have, or one status.
Batch(n) ==
  IF queue[1].kind = "status" THEN n = 1
  ELSE n <= MaxBatch /\ OneKey(n) /\ ~(n < MaxBatch /\ n < Len(queue) /\ OneKey(n + 1))

Send ==
  /\ flight = NoFlight /\ queue # <<>>
  /\ \E n \in 1..Len(queue) : Batch(n) /\ flight' = [items |-> n, arrived |-> FALSE]
  /\ UNCHANGED <<agent, queue, final, server, left>>

\* ingest keeps the segments whose utterance it does not have yet ...
New(batch) == {i \in DOMAIN batch : batch[i].kind \in Segments /\ batch[i].u \notin Range(rows)}

\* ... in the order they came in.
Ingested(batch) ==
  \E n \in 0..Len(batch) : \E f \in [1..n -> New(batch)] :
    /\ Range(f) = New(batch) /\ \A i, j \in 1..n : i < j => f[i] < f[j]
    /\ rows' = rows \o [i \in 1..n |-> batch[f[i]].u]

\* The text a batch leaves a segment with; a refinement of an unknown one is lost.
TextAfter(batch, u) ==
  LET has(kind) == [kind |-> kind, u |-> u] \in Range(batch) IN
  IF u \notin Range(rows) THEN
    IF has("segments2") THEN "tier2" ELSE IF has("segments1") THEN "tier1" ELSE "none"
  ELSE IF has("final") THEN "final" ELSE IF has("refinements") THEN "tier2" ELSE text[u]

\* The request arrives: ingest, or agent_status for the verdict.
Arrive ==
  /\ flight.items > 0 /\ ~flight.arrived
  /\ flight' = [flight EXCEPT !.arrived = TRUE]
  /\ LET batch == SubSeq(queue, 1, flight.items) IN
     /\ Ingested(batch)
     /\ text' = [u \in Utterances |-> TextAfter(batch, u)]
     /\ passed' = (passed \/ batch[1] = [kind |-> "status", u |-> 0])
  /\ UNCHANGED <<agent, queue, final, left>>

Unqueue(n) == queue' = SubSeq(queue, n + 1, Len(queue))

\* Mutant: the request counts as under way still.
AcknowledgeOnly ==
  /\ flight.arrived
  /\ Unqueue(flight.items)
  /\ UNCHANGED <<agent, flight, final, server, left>>

\* The reply comes: the batch leaves the queue.
Acknowledge ==
  /\ flight.arrived
  /\ Unqueue(flight.items) /\ flight' = NoFlight
  /\ UNCHANGED <<agent, final, server, left>>

\* The request or its reply is lost: the head of the queue is sent again.
Retry ==
  /\ flight.items > 0 /\ left.outages > 0
  /\ flight' = NoFlight
  /\ left' = [left EXCEPT !.outages = @ - 1]
  /\ UNCHANGED <<agent, queue, final, server>>

GiveUp(n) ==
  /\ left.losses > 0
  /\ left' = [left EXCEPT !.losses = @ - 1]
  /\ Unqueue(n)

\* The request is refused with a 4xx, which is not tried again.
Refused ==
  /\ flight.items > 0 /\ ~flight.arrived
  /\ GiveUp(flight.items) /\ flight' = NoFlight
  /\ UNCHANGED <<agent, final, server>>

\* _expire: five minutes are over for the head of the queue.
Expire ==
  /\ flight = NoFlight /\ queue # <<>>
  /\ GiveUp(1)
  /\ UNCHANGED <<agent, flight, final, server>>

-----------------------------------------------------------------------------

Progress(u) == Answer(u) \/ Fallback(u) \/ PostAnswer(u) \/ Decode(u) \/ Drop(u) \/ Refine(u)

Next ==
  \/ \E u \in Utterances : Speak(u) \/ Progress(u) \/ PassOver(u)
  \/ Finalize \/ StartPass \/ Verdict
  \/ Send \/ Arrive \/ Acknowledge \/ Retry \/ Refused \/ Expire

\* Every call has a timeout and the decoder a limit, and the queue is served as
\* long as it holds anything.
Fairness ==
  /\ \A u \in Utterances : WF_vars(Progress(u)) /\ WF_vars(PassOver(u))
  /\ WF_vars(StartPass) /\ WF_vars(Verdict)
  /\ WF_vars(Send) /\ WF_vars(Arrive) /\ WF_vars(Acknowledge)

Spec == Init /\ [][Next]_vars
FairSpec == Spec /\ Fairness

-----------------------------------------------------------------------------
(* Properties. *)

\* However often a request is repeated, an utterance has one segment: ingest
\* knows it by its utterance_id (runtime.py:568-572).  And "segments are posted
\* in speaking order" (the contract), through lost requests and replies and
\* whatever the order of the answers: two segments change places only when some
\* of the utterances from one to the other went to the speech service and some
\* to the local decoder, which do not wait for each other.
Mixed(U) == U \cap routes.asked # {} /\ U \cap routes.decoded # {}

StoredAsSpoken ==
  \A i, j \in 1..Len(rows) : i < j =>
    rows[i] < rows[j] \/ (rows[i] > rows[j] /\ Mixed(rows[j]..rows[i]))

\* When meeting-api hears that the final pass is done, the transcript is what the
\* pass made it: no text is still under way, so the minutes composed next are of
\* the final text (session.py, _set_final: "Refinements first, then the final
\* status").
NothingUnderWay ==
  /\ \A i \in (flight.items + 1)..Len(queue) : queue[i].kind \in {"gaps", "status"}
  /\ \A u \in Utterances : phase[u] \in {"silent", "done"}

\* And a refinement of the final pass finds its segment, unless that was given up
\* or dropped: the text of the pass is not thrown away because it came first.
Follows(i, j) ==
  /\ queue[i].kind = "final" /\ queue[j].kind \in Segments
  /\ queue[i].u = queue[j].u

\* Both, unless the decoder was not waited for to its end.
FinalPassInOrder ==
  ~final.cut =>
    /\ passed => NothingUnderWay
    /\ \A i, j \in 1..Len(queue) : Follows(i, j) => j < i

\* Both: no segment is stored out of order, and none comes after the verdict.
SpeechKept == StoredAsSpoken /\ FinalPassInOrder

\* The final text of an utterance is never replaced by an earlier one.
FinalTextStands == [][\A u \in Utterances : text[u] = "final" => text'[u] = "final"]_vars

\* The verdict of a final pass that was asked for reaches meeting-api, or was
\* given up with the queue: the agent always answers.
VerdictComes ==
  []<>(final.at # "off" => final.at = "ended" /\ queue = <<>>)
-----------------------------------------------------------------------------
(* What the order of the transcript follows from. *)

\* Who was spoken, and which way it went: the speech service first, the decoder,
\* or one after the other.  The next to post after is the last one asked; between
\* that and the one that waits all went to the decoder.
RoutesHold ==
  /\ \A u \in Utterances :
       /\ phase[u] # "silent" <=> u \in routes.asked \cup routes.decoded
       /\ phase[u] \in {"asking", "waiting"} => u \notin routes.decoded
       /\ phase[u] = "worker" <=> u \in Range(worker)
       /\ \A v \in 1..(u - 1) : phase[v] = "silent" => phase[u] = "silent"
       /\ u \in routes.asked =>
            /\ u <= latest /\ prev[u] < u /\ prev[u] \in {0} \cup routes.asked
            /\ \A v \in (prev[u] + 1)..(u - 1) : v \notin routes.asked
  /\ latest \in {0} \cup routes.asked
  /\ Range(worker) \subseteq routes.decoded
  /\ \A i, j \in 1..Len(worker) : i < j =>
       worker[i] # worker[j] /\ (worker[i] < worker[j] \/ worker[j] \in routes.asked)

\* The one is before the other, as speaking order has it or the routes excuse.
Before(u, v) == u < v \/ (v < u /\ Mixed(v..u))

\* Whose turn has come: those who had their turn come before those who have not.
Posted == {u \in Utterances : phase[u] \in {"refining", "done"}}
TurnsHold == \A u \in Posted, v \in Utterances \ Posted : Before(u, v)

\* So the segments in the queue are in order, and those the server does not have
\* come after those it has.
Segment(i) == queue[i].kind \in Segments
SegmentsHold ==
  /\ Range(rows) \subseteq Posted
  /\ \A i \in 1..Len(queue) : Segment(i) =>
       /\ queue[i].u \in Posted
       /\ queue[i].u \notin Range(rows) => \A k \in 1..Len(rows) : Before(rows[k], queue[i].u)
  /\ \A i, j \in 1..Len(queue) : i < j /\ Segment(i) /\ Segment(j) => Before(queue[i].u, queue[j].u)

\* During the final pass nothing is under way but what the decoder was cut off
\* from; before it, nothing of it is there.
Passing == final.at \in {"pass", "ended"}
PassHolds ==
  /\ Passing => \A u \in Utterances : phase[u] \in {"silent", "done"} \cup (IF final.cut THEN {"worker"} ELSE {})
  /\ ~Passing =>
       /\ ~final.cut /\ ~passed
       /\ \A u \in Utterances : text[u] # "final"
       /\ \A i \in 1..Len(queue) : queue[i].kind \notin {"final", "status"}
  /\ \A i, j \in 1..Len(queue) : queue[i].kind = "refinements" /\ queue[j].kind = "final" => i < j
  /\ ~final.cut =>
       /\ \A i, j \in 1..Len(queue) : queue[i].kind = "final" /\ Segment(j) => j < i
       /\ \A i \in 1..Len(queue) : queue[i].kind = "status" => i = Len(queue) /\ final.at = "ended"
       /\ passed => final.at = "ended" /\ \A i \in 1..Len(queue) : queue[i].kind = "status"

\* A request has items of one endpoint; and a refinement that is still in the
\* queue when its utterance has the final text is sent with that text.
FinalHolds ==
  /\ \A n \in 1..flight.items : Key(queue[n].kind) = Key(queue[1].kind)
  /\ flight.items <= MaxBatch
  /\ flight.items > 0 /\ queue[1].kind = "status" => flight.items = 1
  /\ \A u \in Utterances : text[u] = "final" =>
       /\ u \in Range(rows)
       /\ \A i \in 1..Len(queue) : queue[i] = [kind |-> "refinements", u |-> u] =>
            \E j \in (i + 1)..Len(queue) :
              /\ queue[j] = [kind |-> "final", u |-> u]
              /\ j <= MaxBatch /\ OneKey(j) /\ (flight.items > 0 => j <= flight.items)

TranscriptHolds == TypeOK /\ RoutesHold /\ TurnsHold /\ StoredAsSpoken /\ SegmentsHold /\ PassHolds /\ FinalHolds
=============================================================================
