-------------------------------- MODULE Speech --------------------------------
(***************************************************************************)
(* The speech service (meetpp-speech: app.py, auth.py) and the agent's     *)
(* client of it (meetpp-agent: tier2.py, session.py, poster.py).  The      *)
(* agent asks for each utterance while the meeting goes on, once, and in   *)
(* the final pass until it is answered or given up; a request is signed    *)
(* with the second it is sent in, and the service refuses a signature it   *)
(* has accepted before.  Others ask as well.                               *)
(***************************************************************************)
EXTENDS Naturals, FiniteSets, Sequences, Functions

CONSTANTS
  Utterances,       \* of the session
  Strangers,        \* utterances of other sessions
  Texts,            \* texts to be spoken
  Parallel,         \* MEETPP_SPEECH_MAX_PARALLEL, and of the agent's client
  QueueMax,         \* MEETPP_SPEECH_QUEUE_S: every utterance is as long as 1
  TextQueue,        \* tts_queue_max
  Pause, RetryAfter,\* FINAL_ERROR_PAUSE_S, the header of a 503
  MaxBusy,          \* FINAL_BUSY_RETRIES
  MaxNow, MaxFaults

VARIABLES
  now,      \* the second
  ask,      \* the agent: where each utterance is, since or until when, errors and refusals
  transit,  \* requests on their way
  seen,     \* the signatures accepted
  decoding, \* requests whose audio is being decoded
  gate,     \* the two gates: who waits, who has been woken, who runs
  clash,    \* history: a request of the final pass was refused for one of its own
  faults

vars == <<now, ask, transit, seen, decoding, gate, clash, faults>>

Requests == [u : Utterances \cup Strangers \cup Texts, at : 0..MaxNow, final : BOOLEAN]

TypeOK ==
  /\ now \in 0..MaxNow /\ faults \in 0..MaxFaults
  /\ \A u \in Utterances : ask[u].is \in {"said", "kept", "queued", "sent", "resting", "answered", "given up"}
  /\ transit \cup seen \cup decoding \subseteq Requests
  /\ \A g \in {"stt", "tts"} : gate[g].woken \cup gate[g].running \cup Range(gate[g].line) \subseteq Requests

Init ==
  /\ now = 0 /\ transit = {} /\ seen = {} /\ decoding = {} /\ clash = FALSE /\ faults = 0
  /\ ask = [u \in Utterances |-> [is |-> "said", at |-> 0, final |-> FALSE, errors |-> 0, busy |-> 0]]
  /\ gate = [g \in {"stt", "tts"} |-> [line |-> <<>>, woken |-> {}, running |-> {}]]

Tick == now < MaxNow /\ now' = now + 1 /\ UNCHANGED <<ask, transit, seen, decoding, gate, clash, faults>>

-----------------------------------------------------------------------------
(* The agent. *)

Sent == {u \in Utterances : ask[u].is = "sent"}

\* transcribe: it waits for one of the client's two slots.
Begin(u) ==
  /\ \E final \in BOOLEAN :
       /\ ask[u].is \in (IF final THEN {"said", "kept"} ELSE {"said"})
       /\ ask' = [ask EXCEPT ![u].is = "queued", ![u].final = final]
  /\ UNCHANGED <<now, transit, seen, decoding, gate, clash, faults>>

\* "sign at send time: waiting for a slot must not age the timestamp"
Send(u) ==
  /\ ask[u].is = "queued" /\ Cardinality(Sent) < Parallel
  /\ ask' = [ask EXCEPT ![u].is = "sent", ![u].at = now]
  /\ \/ /\ transit' = transit \cup {[u |-> u, at |-> now, final |-> ask[u].final]}
        /\ UNCHANGED faults
     \/ faults < MaxFaults /\ faults' = faults + 1 /\ UNCHANGED transit
  /\ UNCHANGED <<now, seen, decoding, gate, clash>>

\* Mutant: the request is sent again at once.
AtOnce(a, seconds) == [a EXCEPT !.is = "resting", !.at = now]

\* "A same-second retry would be the identical signed request"
Rest(a, seconds) == [a EXCEPT !.is = "resting", !.at = now + seconds]

\* While the meeting goes on one failure is enough: the text of tier 1 stands
\* until the final pass, which gives up after the second error.
Failed(a) ==
  IF ~a.final THEN [a EXCEPT !.is = "kept"]
  ELSE IF a.errors + 1 >= 2 THEN [a EXCEPT !.is = "given up", !.errors = @ + 1]
  ELSE Rest([a EXCEPT !.errors = @ + 1], Pause)

\* Tier2Busy: the final pass waits as it is told.
Refused(a) ==
  IF ~a.final THEN [a EXCEPT !.is = "kept"]
  ELSE IF a.busy + 1 > MaxBusy THEN [a EXCEPT !.is = "given up", !.busy = @ + 1]
  ELSE Rest([a EXCEPT !.busy = @ + 1], RetryAfter)

\* wait_for: the time covers the waiting for a slot too.
Late(u) ==
  /\ ask[u].is \in {"queued", "sent"} /\ faults < MaxFaults
  /\ ask' = [ask EXCEPT ![u] = Failed(@)]
  /\ faults' = faults + 1
  /\ UNCHANGED <<now, transit, seen, decoding, gate, clash>>

Again(u) ==
  /\ ask[u].is = "resting" /\ now >= ask[u].at
  /\ ask' = [ask EXCEPT ![u].is = "queued"]
  /\ UNCHANGED <<now, transit, seen, decoding, gate, clash, faults>>

\* The reply finds the call that waits for it, if that still does.
Waits(q) == q.u \in Utterances /\ ask[q.u].is = "sent" /\ ask[q.u].at = q.at
Reply(q, a) == ask' = IF Waits(q) THEN [ask EXCEPT ![q.u] = a] ELSE ask

-----------------------------------------------------------------------------
(* The service. *)

\* Requests of others.
Stranger ==
  /\ \E u \in Strangers \cup Texts :
       /\ \A q \in transit \cup seen : q.u # u
       /\ transit' = transit \cup {[u |-> u, at |-> now, final |-> FALSE]}
  /\ UNCHANGED <<now, ask, seen, decoding, gate, clash, faults>>

\* SttGate.slot, and tts with its counters: "there is no await between the
\* admission check and the counter updates"
MustWait(g) == Cardinality(g.running \cup g.woken) + Len(g.line) >= Parallel
Full(k, g) == Len(g.line) + Cardinality(g.woken) + 1 > (IF k = "stt" THEN QueueMax ELSE TextQueue)
Enter(g, q) ==
  IF MustWait(g) THEN [g EXCEPT !.line = Append(@, q)] ELSE [g EXCEPT !.running = @ \cup {q}]

\* authenticated_body, ReplayGuard.replayed.
Arrive(q) ==
  /\ q \in transit /\ transit' = transit \ {q}
  /\ LET before == {s \in seen : s.u = q.u /\ s.at = q.at} IN
     IF before # {}
       THEN /\ clash' = (clash \/ (q.final /\ \E s \in before : s.final))
            /\ Reply(q, Failed(ask[q.u])) /\ UNCHANGED <<seen, decoding, gate>>
     ELSE /\ seen' = seen \cup {q} /\ UNCHANGED <<clash, ask>>
          /\ IF q.u \in Texts
               THEN IF MustWait(gate["tts"]) /\ Full("tts", gate["tts"]) THEN UNCHANGED <<gate, decoding>>
                    ELSE gate' = [gate EXCEPT !["tts"] = Enter(@, q)] /\ UNCHANGED decoding
             ELSE decoding' = decoding \cup {q} /\ UNCHANGED gate
  /\ UNCHANGED <<now, faults>>

\* transcribe: the audio is decoded, then the request is admitted or refused.
Admit(q) ==
  /\ q \in decoding /\ decoding' = decoding \ {q}
  /\ IF MustWait(gate["stt"]) /\ Full("stt", gate["stt"])
       THEN UNCHANGED gate /\ Reply(q, Refused(ask[q.u]))
       ELSE gate' = [gate EXCEPT !["stt"] = Enter(@, q)] /\ UNCHANGED ask
  /\ UNCHANGED <<now, transit, seen, clash, faults>>

\* sem.release: the slot is the first one's in line.
Release(g, q) ==
  LET left == [g EXCEPT !.running = @ \ {q}] IN
  IF g.line = <<>> THEN left ELSE [left EXCEPT !.line = Tail(@), !.woken = @ \cup {Head(g.line)}]

\* The one woken goes on.
Resume(k) ==
  /\ \E q \in gate[k].woken :
       gate' = [gate EXCEPT ![k].woken = @ \ {q}, ![k].running = @ \cup {q}]
  /\ UNCHANGED <<now, ask, transit, seen, decoding, clash, faults>>

\* The model has answered, or failed; the reply may be lost.
Done(k) ==
  /\ \E q \in gate[k].running :
       /\ gate' = [gate EXCEPT ![k] = Release(@, q)]
       /\ \/ UNCHANGED faults
             /\ IF q.u \in Utterances THEN Reply(q, [ask[q.u] EXCEPT !.is = "answered"]) ELSE UNCHANGED ask
          \/ faults < MaxFaults /\ faults' = faults + 1
             /\ \/ UNCHANGED ask
                \/ q.u \in Utterances /\ Reply(q, Failed(ask[q.u]))
  /\ UNCHANGED <<now, transit, seen, decoding, clash>>

Next ==
  \/ Tick \/ Stranger
  \/ \E u \in Utterances : Begin(u) \/ Send(u) \/ Late(u) \/ Again(u)
  \/ \E q \in transit : Arrive(q)
  \/ \E q \in decoding : Admit(q)
  \/ \E k \in {"stt", "tts"} : Resume(k) \/ Done(k)

Spec == Init /\ [][Next]_vars

-----------------------------------------------------------------------------
(* What the steps keep (ServicesProofs). *)

Asks ==
  [is : {"said", "kept", "queued", "sent", "resting", "answered", "given up"}, at : Nat,
   final : BOOLEAN, errors : Nat, busy : Nat]
Gates == [line : Seq(Requests), woken : SUBSET Requests, running : SUBSET Requests]

ServiceTypes ==
  /\ now \in 0..MaxNow /\ transit \cup seen \cup decoding \subseteq Requests
  /\ ask \in [Utterances -> Asks] /\ gate \in [{"stt", "tts"} -> Gates]

\* A request that was accepted is at one place: it is decoded, or waits, or has the slot.
Holders(g) == g.running \cup g.woken
GateHolds(g, accepted) ==
  /\ IsFiniteSet(Holders(g)) /\ Holders(g) \subseteq accepted /\ g.running \cap g.woken = {}
  /\ \A i \in 1..Len(g.line) :
       /\ g.line[i] \in accepted \ Holders(g)
       /\ \A j \in 1..Len(g.line) : i # j => g.line[i] # g.line[j]
  /\ Cardinality(Holders(g)) <= Parallel
  /\ g.line # <<>> => Cardinality(Holders(g)) = Parallel

GatesHold ==
  /\ \A k \in {"stt", "tts"} : GateHolds(gate[k], seen)
  /\ decoding \subseteq {q \in seen : q.u \notin Texts}
  /\ \A q \in Holders(gate["stt"]) \cup Range(gate["stt"].line) : q \notin decoding

\* A request of the final pass is one of an utterance that is in that pass, and was
\* sent before the second in which the utterance is sent next.
TriesHold ==
  /\ ~clash
  /\ \A q \in transit \cup seen : q.final =>
       /\ q.u \in Utterances /\ q.at <= now /\ q \notin transit \cap seen
       /\ ask[q.u].final /\ ask[q.u].is \notin {"said", "kept"}
       /\ ask[q.u].is = "queued" => q.at < now
       /\ ask[q.u].is = "resting" => q.at < ask[q.u].at

ServiceHolds == ServiceTypes /\ GatesHold /\ TriesHold

(* No retry of the final pass is refused as a replay of its own first try;  *)
(* no more transcriptions, or syntheses, run than there are slots; and one  *)
(* that waits is passed the slot when one is free.                          *)
SpeechServed ==
  /\ ~clash
  /\ \A k \in {"stt", "tts"} :
       LET taken == Cardinality(gate[k].running \cup gate[k].woken)
       IN taken <= Parallel /\ (gate[k].line # <<>> => taken = Parallel)
=============================================================================
