----------------------------- MODULE StateSync -----------------------------
(***************************************************************************)
(* The state of a session on its way to the boards: a handler bumps the    *)
(* version, commits and sends `position` and `state` messages while other  *)
(* handlers do the same (bus.publish_changes); a browser merges a delta    *)
(* that is the next one and asks for the whole state otherwise             *)
(* (lib/meetpp/session.ts, state.ts, store.ts).                            *)
(***************************************************************************)
EXTENDS Integers, Sequences

CONSTANTS
    Rows,          \* parts of the state besides the live position
    MaxVersion,    \* bound: publications
    Writes,        \* bound: those among them the browser asked for itself
    Faults         \* bound: messages not sent, requests failed and rooms lost

ASSUME Bounds ==
    /\ "live" \notin Rows
    /\ MaxVersion \in Nat /\ Writes \in Nat /\ Faults \in Nat

Parts == Rows \cup {"live"}
None == [stage |-> "none"]
Asked == [stage |-> "asked"]

VARIABLES
    changes,   \* history: the parts each version changed; its length is state_version
    last,      \* of each part, the version that changed it last: the database
    sending,   \* messages and replies of handlers that have committed
    net,       \* messages the room's channel has accepted for the browser, in order
    at,        \* version of the browser's snapshot, -1 while it has none
    shown,     \* of each part, the version of the value on the board
    load,      \* the first GET /state of loadSession
    fetch,     \* stateInflight: the coalesced GET /state of refetchState
    again,     \* stateAgain
    want,      \* version the position timer waits for, 0 when it is not running
    writes,    \* versions of own writes whose timer is running
    pending,   \* versions whose activations wait for the board (pendingActivations)
    heard,     \* history: the latest version the browser was told of and did not fail to get
    missed,    \* history: versions whose activations a failed request left behind
    crossed,   \* history: a position message overtook an earlier one
    connected, \* whether the browser is in the room
    asked,     \* its own writes so far
    faults     \* the faults so far

server == <<changes, last>>
browser == <<at, shown, pending>>
requests == <<load, fetch, again>>
timers == <<want, writes>>
told == <<heard, missed, crossed>>
vars == <<server, sending, net, browser, requests, timers, told, connected, asked, faults>>

Later(v, w) == IF v < w THEN w ELSE v

Version == Len(changes)
Versions == 0..Version
Shown == [Parts -> Versions]
Requests ==
    {None, Asked} \cup [stage : {"versioned"}, v : Versions, live : Versions]
                  \cup [stage : {"reply"}, v : Versions, shown : Shown]

-----------------------------------------------------------------------------
(* The browser's side of a request. *)

(* Mutant: a refetch asked for while one is in flight is taken for served. *)
RefetchOnce ==
    /\ IF fetch = None THEN fetch' = Asked ELSE UNCHANGED fetch
    /\ UNCHANGED <<load, again>>

(* refetchState: one request at a time, once more if it was asked for meanwhile. *)
Refetch ==
    /\ IF fetch = None
       THEN fetch' = Asked /\ again' = FALSE
       ELSE again' = TRUE /\ UNCHANGED fetch
    /\ UNCHANGED load

NoRefetch == UNCHANGED requests

Fault == faults < Faults /\ faults' = faults + 1

(* A timer, or a reply, that asks for the state only if the board is behind v. *)
RefetchIfBehind(v) == IF at < v THEN Refetch ELSE NoRefetch

(* applySnapshot: never goes backwards. *)
ApplySnapshot(r) ==
    IF r.v < at
    THEN UNCHANGED <<at, shown>>
    ELSE at' = r.v /\ shown' = r.shown

(* The end of refetchState's loop: go round again, or flush the activations *)
(* of the versions the board has reached.                                   *)
FetchEnds ==
    /\ again' = FALSE
    /\ IF again
       THEN fetch' = Asked /\ UNCHANGED pending
       ELSE fetch' = None /\ pending' = {v \in pending : v > at'}
    /\ UNCHANGED load

-----------------------------------------------------------------------------
(* meeting-api. *)

(* bus.publish_changes up to its first await: the version is bumped and the *)
(* changes committed, and the delta is built of the rows as they are now.   *)
(* A move changes the session's row and the sections, and sends its position *)
(* first; a delta beyond 8 KB is left out.                                  *)
Publish(S, fits, mine) ==
    /\ Version < MaxVersion /\ S # {}
    /\ mine => at # -1 /\ asked < Writes
    /\ asked' = asked + (IF mine THEN 1 ELSE 0)
    /\ changes' = Append(changes, S)
    /\ last' = [p \in Parts |-> IF p \in S THEN Version + 1 ELSE last[p]]
    /\ sending' = sending \cup {[kind |-> IF S = Parts THEN "position" ELSE "state",
                                 v |-> Version + 1, delta |-> fits, mine |-> mine]}
    /\ UNCHANGED <<net, browser, requests, timers, told, connected, faults>>

(* What the handler does after a message: the state after the position, then *)
(* the reply to the browser if the write was its own.                        *)
After(m) ==
    IF m.kind = "position" THEN {[m EXCEPT !.kind = "state"]}
    ELSE IF m.mine THEN {[m EXCEPT !.kind = "reply"]} ELSE {}

(* bus.send: the room accepts the message, or the call fails and only says so. *)
Send(m) ==
    /\ m \in sending /\ m.kind # "reply"
    /\ sending' = (sending \ {m}) \cup After(m)
    /\ \/ /\ connected
          /\ net' = Append(net, [kind |-> m.kind, v |-> m.v, delta |-> m.delta])
          /\ UNCHANGED faults
       \/ /\ ~connected
          /\ UNCHANGED <<net, faults>>
       \/ /\ Fault
          /\ UNCHANGED net
    /\ UNCHANGED <<server, browser, requests, timers, told, connected, asked>>

(* Mutant: the version is counted up when it is read. *)
ReadNextSession(r) == [stage |-> "versioned", v |-> Version + 1, live |-> last["live"]]
(* GET /state reads the session's row in the dependency that checks access ... *)
ReadSession(r) == [stage |-> "versioned", v |-> Version, live |-> last["live"]]
(* Mutant: the version is taken when the rows are read. *)
ReadRowsAndVersion(r) == [stage |-> "reply", v |-> Version, shown |-> [last EXCEPT !["live"] = r.live]]
(* ... and the other rows in the handler, which other handlers may precede. *)
ReadRows(r) == [stage |-> "reply", v |-> r.v, shown |-> [last EXCEPT !["live"] = r.live]]

Served(r, r2) ==
    \/ r.stage = "asked" /\ r2 = ReadSession(r)
    \/ r.stage = "versioned" /\ r2 = ReadRows(r)

Serve ==
    /\ \/ fetch.stage \in {"asked", "versioned"} /\ Served(fetch, fetch') /\ UNCHANGED load
       \/ load.stage \in {"asked", "versioned"} /\ Served(load, load') /\ UNCHANGED fetch
    /\ UNCHANGED <<server, sending, net, browser, again, timers, told, connected, asked, faults>>

-----------------------------------------------------------------------------
(* The browser. *)

(* The reply to its own write starts a timer: the delta may be late. A reply *)
(* that is lost starts none.                                                 *)
Reply(m) ==
    /\ m \in sending /\ m.kind = "reply"
    /\ sending' = sending \ {m}
    /\ \/ writes' = writes \cup {m.v} /\ heard' = Later(heard, m.v)
       \/ UNCHANGED <<writes, heard>>
    /\ UNCHANGED <<server, net, browser, requests, want, missed, crossed, connected, asked, faults>>

WriteTimer(v) ==
    /\ v \in writes
    /\ writes' = writes \ {v}
    /\ RefetchIfBehind(v)
    /\ UNCHANGED <<server, sending, net, browser, want, told, connected, asked, faults>>

PositionTimer ==
    /\ want # 0
    /\ want' = 0
    /\ RefetchIfBehind(want)
    /\ UNCHANGED <<server, sending, net, browser, writes, told, connected, asked, faults>>

(* decideStateMessage *)
Ignore(m) == at # -1 /\ m.v <= at
Merge(m) == at # -1 /\ m.v = at + 1 /\ m.delta

HearState(m) ==
    /\ \/ Ignore(m) /\ NoRefetch /\ UNCHANGED <<browser, heard>>
       \/ /\ Merge(m)
          /\ at' = m.v
          /\ shown' = [p \in Parts |-> IF p \in changes[m.v] THEN m.v ELSE shown[p]]
          /\ NoRefetch
          /\ UNCHANGED <<pending, heard>>
       \/ /\ ~Ignore(m) /\ ~Merge(m)
          /\ pending' = pending \cup {m.v}
          /\ heard' = Later(heard, m.v)
          /\ Refetch
          /\ UNCHANGED <<at, shown>>
    /\ UNCHANGED <<want, missed, crossed>>

(* A position is shown at once, and a timer makes sure that the state of its *)
(* version follows. There is one timer: the last message heard sets it.      *)
HearPosition(m) ==
    /\ \/ /\ at = -1 \/ m.v <= at
          /\ UNCHANGED <<shown, want, heard, crossed>>
       \/ /\ at # -1 /\ m.v > at
          /\ shown' = [shown EXCEPT !["live"] = m.v]
          /\ want' = m.v
          /\ heard' = Later(heard, m.v)
          /\ crossed' = (crossed \/ m.v < want)
    /\ NoRefetch
    /\ UNCHANGED <<at, pending, missed>>

Hear ==
    /\ net # <<>>
    /\ net' = Tail(net)
    /\ \/ Head(net).kind = "state" /\ HearState(Head(net))
       \/ Head(net).kind = "position" /\ HearPosition(Head(net))
    /\ UNCHANGED <<server, sending, writes, connected, asked, faults>>

Fetched ==
    /\ fetch.stage = "reply"
    /\ ApplySnapshot(fetch)
    /\ FetchEnds
    /\ UNCHANGED <<server, sending, net, timers, told, connected, asked, faults>>

Loaded ==
    /\ load.stage = "reply"
    /\ ApplySnapshot(load)
    /\ load' = None
    /\ UNCHANGED <<server, sending, net, pending, fetch, again, timers, told, connected, asked, faults>>

(* A failed request keeps the board; the next message tries again. *)
Fails ==
    /\ Fault
    /\ UNCHANGED <<server, sending, net, at, shown, timers, crossed, connected, asked>>
    /\ \/ /\ fetch # None /\ FetchEnds
          /\ heard' = (IF again THEN heard ELSE at)
          /\ missed' = (IF again THEN missed ELSE pending)
       \/ load # None /\ load' = None /\ UNCHANGED <<fetch, again, pending, heard, missed>>

Disconnect ==
    /\ connected /\ Fault
    /\ connected' = FALSE
    /\ net' = <<>>
    /\ UNCHANGED <<server, sending, browser, requests, timers, told, asked>>

(* onReconnected discovers the session again: the first load if there is no *)
(* board yet (a second one only after the first has returned), else a       *)
(* refetch.                                                                 *)
Reconnect ==
    /\ ~connected
    /\ connected' = TRUE
    /\ IF at = -1
       THEN load = None /\ load' = Asked /\ UNCHANGED <<fetch, again>>
       ELSE Refetch
    /\ UNCHANGED <<server, sending, net, browser, timers, told, asked, faults>>

Init ==
    /\ changes = <<>>
    /\ last = [p \in Parts |-> 0]
    /\ sending = {}
    /\ net = <<>>
    /\ at = -1
    /\ shown = [p \in Parts |-> 0]
    /\ load = Asked
    /\ fetch = None
    /\ again = FALSE
    /\ want = 0
    /\ writes = {}
    /\ pending = {}
    /\ heard = -1
    /\ missed = {}
    /\ crossed = FALSE
    /\ connected = TRUE
    /\ asked = 0
    /\ faults = 0

Next ==
    \/ \E S \in SUBSET Parts, fits, mine \in BOOLEAN : Publish(S, fits, mine)
    \/ \E m \in sending : Send(m) \/ Reply(m)
    \/ Serve \/ Hear \/ Fetched \/ Loaded \/ Fails
    \/ \E v \in writes : WriteTimer(v)
    \/ PositionTimer
    \/ Disconnect \/ Reconnect

Spec == Init /\ [][Next]_vars

-----------------------------------------------------------------------------
(* Types. *)
Message == [kind : {"position", "state"}, v : Versions, delta : BOOLEAN]
Sending == [kind : {"position", "state", "reply"}, v : Versions, delta : BOOLEAN, mine : BOOLEAN]

TypeOK ==
    /\ changes \in Seq(SUBSET Parts) /\ Version <= MaxVersion
    /\ last \in Shown
    /\ sending \subseteq Sending
    /\ net \in Seq(Message)
    /\ at \in Versions \cup {-1} /\ shown \in Shown
    /\ load \in Requests /\ fetch \in Requests /\ again \in BOOLEAN
    /\ want \in Versions
    /\ writes \subseteq Versions /\ pending \subseteq Versions
    /\ heard \in Versions \cup {-1} /\ missed \subseteq Versions /\ crossed \in BOOLEAN
    /\ connected \in BOOLEAN /\ asked \in 0..Writes /\ faults \in 0..Faults

(* The protocol implements the promise to a browser (Board): whatever is      *)
(* lost, late or answered in another order than asked, the board never goes   *)
(* back to an earlier version and never misses a change up to the version it  *)
(* has (state.ts:27-32, store.ts:343-345, routes.py:423-425).                 *)
Promise == INSTANCE Board
Implements == Promise!Spec

(* Every version the browser was told of, by a state or position message or   *)
(* by the reply to its own write, is reached, and its activations processed:  *)
(* by the delta, or by a GET /state that was made, or made again, after it    *)
(* was told (session.ts:48-71, 233-247, 294-310, 443-453). A GET that fails   *)
(* ends the promise until the next message; and there is one position timer,  *)
(* so a position message that was overtaken by a later one may end it too.    *)
CatchesUp == []<>(crossed \/ (heard <= at /\ pending \subseteq missed))

(* What must happen: handlers finish, requests end, timers fire, and a *)
(* browser that lost the room finds it again.                          *)
Delivery == (\E m \in sending : Send(m)) \/ Hear
Returns == Serve \/ Fetched \/ Loaded

FairSpec ==
    /\ Spec
    /\ WF_vars(Delivery) /\ WF_vars(Returns) /\ WF_vars(PositionTimer)
    /\ WF_vars(\E v \in writes : WriteTimer(v))
    /\ WF_vars(Reconnect)
=============================================================================
