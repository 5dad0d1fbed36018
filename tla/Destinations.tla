----------------------------- MODULE Destinations -----------------------------
(***************************************************************************)
(* Where a livestream goes to (meetings.py update_meeting, egress_mgr.py,  *)
(* webhooks.py, streams.py).  The settings name the destinations; a change *)
(* of them is pushed to the egress that runs, as a difference.  LiveKit    *)
(* tells how each destination does, in events that may come late, in       *)
(* another order, or not at all, and whose addresses are redacted.         *)
(***************************************************************************)
EXTENDS Naturals, FiniteSets

CONSTANTS
  Platforms,
  Hidden,       \* those whose reported address is not the configured one (YouTube's API
                \* mode): what is told of them matches none and is left out
  Calls,        \* requests that change the settings
  MaxStreams, MaxEvents, MaxChanges, MaxFaults

VARIABLES
  on,         \* the destinations enabled, with address and key
  pointer,    \* livestream_egress_id
  host,       \* the egresses at LiveKit: whether they run, their outputs and results
  transition, \* the start, stop or restart under way, under the room's lock
  call,       \* the push of each request
  rows,       \* LivestreamDestinationState
  events,     \* webhooks on their way
  apart,      \* history: destinations whose change was not pushed, or crossed another
  unheard,    \* history: destinations that were not told of the end
  changes, faults

vars == <<on, pointer, host, transition, call, rows, events, apart, unheard, changes, faults>>

None == 0
Egresses == 1..MaxStreams
Idle == [eg |-> None, add |-> {}, remove |-> {}]
Unseen == [p \in Platforms |-> "unseen"]

TypeOK ==
  /\ on \cup apart \cup unheard \subseteq Platforms /\ pointer \in Egresses \cup {None}
  /\ \A e \in Egresses : host[e].is \in {"new", "runs", "ended"} /\ host[e].out \subseteq Platforms
  /\ transition \in {"none", "stop", "restart", "start", "starting"}
  /\ \A k \in Calls : call[k].eg \in Egresses \cup {None}
  /\ rows \in [Platforms -> {"idle", "streaming", "failed", "complete"}]

Init ==
  /\ on = Platforms /\ pointer = None /\ transition = "none"
  /\ host = [e \in Egresses |-> [is |-> "new", out |-> {}, results |-> Unseen]]
  /\ call = [k \in Calls |-> Idle]
  /\ rows = [p \in Platforms |-> "idle"]
  /\ events = {} /\ apart = {} /\ unheard = {} /\ changes = 0 /\ faults = 0

-----------------------------------------------------------------------------
(* LiveKit. *)

Runs(e) == e # None /\ host[e].is = "runs"
Event(e, kind, results) == [eg |-> e, kind |-> kind, results |-> results]

\* A destination takes the stream or refuses it.
Connects(e) ==
  /\ Runs(e) /\ Cardinality(events) < MaxEvents
  /\ \E p \in host[e].out \ Hidden, r \in {"active", "failed"} :
       /\ host[e].results[p] \in {"unseen", "finished"}
       /\ host' = [host EXCEPT ![e].results[p] = r]
       /\ events' = events \cup {Event(e, "updated", host'[e].results)}
  /\ UNCHANGED <<on, pointer, transition, call, rows, apart, unheard, changes, faults>>

\* The last event need not say that what was active is finished.
Ended(e) == [host EXCEPT ![e].is = "ended"]
Dies(e) ==
  /\ Runs(e) /\ faults < MaxFaults /\ faults' = faults + 1
  /\ host' = Ended(e)
  /\ events' = events \cup {Event(e, "ended", host[e].results)}
  /\ UNCHANGED <<on, pointer, transition, call, rows, apart, unheard, changes>>

Lost ==
  /\ faults < MaxFaults /\ faults' = faults + 1
  /\ \E v \in events : events' = events \ {v}
  /\ UNCHANGED <<on, pointer, host, transition, call, rows, apart, unheard, changes>>

-----------------------------------------------------------------------------
(* reconcile_egress: "async with egress_lock". *)

Ask ==
  /\ transition = "none"
  /\ IF pointer = None THEN on # {} /\ transition' = "start"
                       ELSE transition' \in {"stop", "restart"}
  /\ UNCHANGED <<on, pointer, host, call, rows, events, apart, unheard, changes, faults>>

\* The old egress is asked to stop; then the pointer is cleared.
StopsAtHost ==
  /\ transition \in {"stop", "restart"} /\ Runs(pointer)
  /\ host' = Ended(pointer)
  /\ events' = events \cup {Event(pointer, "ended", host[pointer].results)}
  /\ UNCHANGED <<on, pointer, transition, call, rows, apart, unheard, changes, faults>>

StopDone ==
  /\ transition \in {"stop", "restart"} /\ ~Runs(pointer)
  /\ pointer' = None
  /\ transition' = IF transition = "restart" THEN "start" ELSE "none"
  /\ unheard' = unheard \cup {p \in Platforms : rows[p] = "streaming"}
  /\ UNCHANGED <<on, host, call, rows, events, apart, changes, faults>>

\* The addresses are read, and the egress is asked for with them.
Start ==
  /\ transition = "start"
  /\ \/ on = {} /\ transition' = "none" /\ UNCHANGED <<host, apart>>
     \/ /\ on # {}
        /\ \E e \in Egresses :
             /\ \A f \in 1..e : (host[f].is = "new") <=> (f = e)
             /\ host' = [host EXCEPT ![e].is = "runs", ![e].out = on]
        /\ transition' = "starting" /\ apart' = {}
  /\ UNCHANGED <<on, pointer, call, rows, events, unheard, changes, faults>>

StartDone ==
  /\ transition = "starting" /\ transition' = "none"
  /\ pointer' = CHOOSE e \in Egresses : \A f \in Egresses : (host[f].is # "new") <=> (f <= e)
  /\ UNCHANGED <<on, host, call, rows, events, apart, unheard, changes, faults>>

-----------------------------------------------------------------------------
(* update_meeting. *)

Removed(before, after) == before \ after

\* The destinations of before are read if a stream is on, the settings are
\* committed, and the difference is on its way to the egress.
Change(k) ==
  /\ call[k].eg = None /\ changes < MaxChanges /\ changes' = changes + 1
  /\ \E p \in Platforms :
       /\ on' = (on \cup {p}) \ (on \cap {p})
       /\ call' = IF pointer = None THEN call
                  ELSE [call EXCEPT ![k] = [eg |-> pointer, add |-> on' \ on, remove |-> Removed(on, on')]]
       /\ apart' = IF \/ transition = "starting"
                      \/ \E j \in Calls : call[j].eg # None /\ p \in call[j].add \cup call[j].remove
                     THEN apart \cup {p} ELSE apart
  /\ UNCHANGED <<pointer, host, transition, rows, events, unheard, faults>>

\* update_stream; when it fails "Next stream restart will pick up the new set".
Push(k) ==
  /\ call[k].eg # None /\ call' = [call EXCEPT ![k] = Idle]
  /\ LET e == call[k].eg IN
     \/ /\ Runs(e)
        /\ host' = [host EXCEPT ![e].out = (@ \cup call[k].add) \ call[k].remove,
                                ![e].results = [p \in Platforms |->
                                   IF p \in call[k].remove /\ @[p] = "active" THEN "finished" ELSE @[p]]]
        /\ events' = events \cup {Event(e, "updated", host'[e].results)}
        /\ UNCHANGED <<apart, faults>>
     \/ ~Runs(e) /\ UNCHANGED <<host, events, apart, faults>>
     \/ /\ faults < MaxFaults /\ faults' = faults + 1
        /\ apart' = apart \cup call[k].add \cup call[k].remove
        /\ UNCHANGED <<host, events>>
  /\ UNCHANGED <<on, pointer, transition, rows, unheard, changes>>

-----------------------------------------------------------------------------
(* What the page is told. *)

\* match_platform: only those enabled now, by the address that is configured.
Matched(v) == {p \in on : v.results[p] # "unseen"}

Status(r) ==
  CASE r = "active" -> "streaming" [] r = "finished" -> "complete" [] r = "failed" -> "failed" [] OTHER -> "idle"

\* "so the UI doesn't show a green dot against a dead egress"
AtEnd(kind, s) == IF kind = "ended" /\ s = "streaming" THEN "complete" ELSE s

\* The meeting still names the egress.
OfMeeting(v) == v.eg = pointer

\* _update_destination_states, and the end of the stream.
Deliver ==
  \E v \in events :
    /\ events' = events \ {v}
    /\ IF OfMeeting(v)
         THEN /\ rows' = [p \in Platforms |->
                            IF p \in Matched(v) THEN AtEnd(v.kind, Status(v.results[p])) ELSE rows[p]]
              /\ pointer' = IF v.kind = "ended" THEN None ELSE pointer
              /\ unheard' = (unheard \ Matched(v)) \cup
                              (IF v.kind = "ended" THEN {p \in Platforms \ on : rows[p] = "streaming"} ELSE {})
         ELSE UNCHANGED <<rows, pointer, unheard>>
    /\ UNCHANGED <<on, host, transition, call, apart, changes, faults>>

\* get_stream_destinations: the egress is asked while there is one.
Shown(p) ==
  IF pointer # None /\ host[pointer].results[p] # "unseen"
    THEN Status(host[pointer].results[p]) ELSE rows[p]

Next ==
  \/ \E e \in Egresses : Connects(e) \/ Dies(e)
  \/ Lost \/ Ask \/ StopsAtHost \/ StopDone \/ Start \/ StartDone
  \/ \E k \in Calls : Change(k) \/ Push(k)
  \/ Deliver

Spec == Init /\ [][Next]_vars

-----------------------------------------------------------------------------
(* When nothing is under way, a stream goes where the settings say, but for *)
(* a change that failed or crossed another or a start; and once it is over  *)
(* no destination is shown as streaming that was told of the end.           *)
DestinationsFollow ==
  /\ transition = "none" /\ (\A k \in Calls : call[k] = Idle) /\ Runs(pointer)
       => \A p \in Platforms \ apart : p \in host[pointer].out <=> p \in on
  /\ pointer = None => \A p \in on \ unheard : Shown(p) # "streaming"
-----------------------------------------------------------------------------
(* What holds between any two steps and gives DestinationsFollow: an egress *)
(* that starts has every destination whose change was pushed; a push under  *)
(* way says what the settings say, is the only one of its destination, and  *)
(* what no push touches is at the egress as it is in the settings; and what *)
(* is shown as streaming is in every event of the end still to come.        *)
Newest(e) == \A f \in Egresses : host[f].is # "new" <=> f <= e
Pushes(p) == {k \in Calls : call[k].eg = pointer /\ p \in call[k].add \cup call[k].remove}

DestinationTypes ==
  /\ on \subseteq Platforms /\ pointer \in Egresses \cup {None}
  /\ DOMAIN host = Egresses /\ DOMAIN call = Calls /\ DOMAIN rows = Platforms
  /\ \A e \in Egresses : DOMAIN host[e] = {"is", "out", "results"} /\ DOMAIN host[e].results = Platforms
  /\ \A v \in events : v.eg \in Egresses

InOrder ==
  /\ \A e, f \in Egresses : f <= e /\ host[e].is # "new" => host[f].is # "new"
  /\ pointer # None => host[pointer].is # "new"
  /\ \A k \in Calls : call[k].eg # None => call[k].eg \in Egresses /\ host[call[k].eg].is # "new"

StartFits ==
  /\ transition \in {"start", "starting"} => pointer = None
  /\ transition = "starting" =>
       \E e \in Egresses : /\ Newest(e) /\ \A k \in Calls : call[k].eg # e
                           /\ \A p \in Platforms \ apart : p \in host[e].out <=> p \in on

PushesFit ==
  Runs(pointer) => \A p \in Platforms \ apart :
    /\ \A k \in Pushes(p) : (p \in call[k].add => p \in on) /\ (p \in call[k].remove => p \notin on)
    /\ \A j, k \in Pushes(p) : j = k
    /\ Pushes(p) = {} => (p \in host[pointer].out <=> p \in on)

EndIsTold ==
  /\ \A v \in events : /\ v.kind = "ended" => host[v.eg].is = "ended" /\ v.results = host[v.eg].results
                       /\ \A p \in Platforms : v.results[p] # "unseen" => host[v.eg].results[p] # "unseen"
  /\ \A p \in Platforms \ unheard :
       rows[p] = "streaming" => pointer # None /\ host[pointer].results[p] # "unseen"

DestinationsHold == DestinationTypes /\ InOrder /\ StartFits /\ PushesFit /\ EndIsTold
=============================================================================
