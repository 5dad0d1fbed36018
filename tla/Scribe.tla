-------------------------------- MODULE Scribe --------------------------------
(***************************************************************************)
(* The agent in the room (meetpp-agent, main.py and session.py): one       *)
(* session of meeting-api, the AgentSession objects made for it, and their *)
(* connections to the LiveKit room, which all have the same identity.      *)
(* meeting-api starts the session, over and over while it is live and the  *)
(* agent does not have it, asks for the final pass, and deletes it.        *)
(* A connection that is being made is never cancelled: whoever waits for   *)
(* it may be gone when it is there.                                        *)
(***************************************************************************)
EXTENDS Naturals, FiniteSets

CONSTANTS MaxStarts, MaxConns, MaxFaults     \* bounds: objects, connections, faults

VARIABLES
  session,    \* meeting-api: the session is live, being finalised, or gone
  registry,   \* State.sessions: the object, or 0
  obj,        \* the AgentSessions
  conn,       \* the connections
  heard,      \* the last status meeting-api has of the agent
  lost,       \* history: a request that ends the session did not arrive
  faults

vars == <<session, registry, obj, conn, heard, lost, faults>>

Objects == 1..MaxStarts
Conns == 1..MaxConns

\* Not made, starting, up, being closed, out of the room, or closed; whether
\* its poster runs; capture_stopped; its room; its reconnect task; gave_up; its
\* final pass; the status it is posting, and _status_frozen.
NoObject == [at |-> "none", talks |-> FALSE, stopped |-> FALSE, room |-> 0, again |-> "no", gaveUp |-> FALSE,
             final |-> "none", posting |-> "no", frozen |-> FALSE]
NoConn == [of |-> 0, st |-> "none", waits |-> "nobody"]

TypeOK ==
  /\ session \in {"live", "finalising", "gone"}
  /\ registry \in {0} \cup Objects
  /\ obj \in [Objects -> [at : {"none", "starting", "up", "closing", "left", "closed"},
       talks : BOOLEAN, stopped : BOOLEAN, room : {0} \cup Conns, again : {"no", "token", "joining"},
       gaveUp : BOOLEAN, final : {"none", "asked", "running", "over"},
       posting : {"no", "live", "offline"}, frozen : BOOLEAN]]
  /\ conn \in [Conns -> [of : {0} \cup Objects, st : {"none", "joining", "in", "out"},
       waits : {"nobody", "start", "reconnect", "abandoned"}]]
  /\ heard \in {"none", "live", "offline"}
  /\ lost \in BOOLEAN /\ faults \in 0..MaxFaults

Init ==
  /\ session = "live" /\ registry = 0
  /\ obj = [o \in Objects |-> NoObject] /\ conn = [k \in Conns |-> NoConn]
  /\ heard = "none" /\ lost = FALSE /\ faults = 0

Fault == faults < MaxFaults /\ faults' = faults + 1

Ends(o) == obj[o].stopped \/ obj[o].at = "closed"

-----------------------------------------------------------------------------
(* Connections.  The room has one participant of an identity: one that      *)
(* joins takes the place of the one that is there.                          *)
Connects(o, who) ==
  \E k \in Conns :
    /\ conn[k].st = "none" /\ \A j \in Conns : j < k => conn[j].st # "none"
    /\ conn' = [conn EXCEPT ![k] = [of |-> o, st |-> "joining", waits |-> who]]

In(k, waits) ==
  [j \in Conns |-> IF j = k THEN [conn[k] EXCEPT !.st = "in", !.waits = waits]
                   ELSE IF conn[j].st = "in" THEN [conn[j] EXCEPT !.st = "out"]
                   ELSE conn[j]]
Out(k) == [conn EXCEPT ![k] = [@ EXCEPT !.st = "out", !.waits = "nobody"]]

(* _connect, from its await on: the room is left again when the session     *)
(* stopped meanwhile, and then the poster never starts.                     *)
StartedAt(o) == IF obj[o].at = "starting" THEN "up" ELSE obj[o].at

ConnectedTo(o, k) ==
  /\ conn' = In(k, "nobody")
  /\ obj' = [obj EXCEPT ![o] =
       [@ EXCEPT !.at = StartedAt(o), !.talks = TRUE, !.room = k, !.again = "no"]]
LeftAgain(o, k) ==
  /\ conn' = Out(k)
  /\ obj' = [obj EXCEPT ![o] = [@ EXCEPT !.at = StartedAt(o), !.again = "no"]]

Joined(k) ==
  /\ conn[k].st = "joining" /\ conn[k].waits \in {"start", "reconnect"}
  /\ LET o == conn[k].of IN IF Ends(o) THEN LeftAgain(o, k) ELSE ConnectedTo(o, k)
  /\ UNCHANGED <<session, registry, heard, lost, faults>>

NotStarted(o) ==
  /\ registry' = 0
  /\ obj' = [obj EXCEPT ![o].at = IF obj[o].at = "starting" THEN "closing" ELSE obj[o].at]

(* The first connection fails: start_session takes the object out, and      *)
(* closes it.  A reconnection is tried again.                               *)
JoinFails(k) ==
  /\ conn[k].st = "joining" /\ Fault /\ conn' = Out(k)
  /\ LET o == conn[k].of
     IN CASE conn[k].waits = "start" ->
               NotStarted(o)
          [] conn[k].waits = "reconnect" ->
               /\ obj' = [obj EXCEPT ![o].again = "token"] /\ UNCHANGED registry
          [] OTHER -> UNCHANGED <<obj, registry>>
  /\ UNCHANGED <<session, heard, lost>>

(* Mutant: the connection is cancelled; the room has the participant.       *)
Cancelled == "nobody"

(* _leave_abandoned: waits for the connection and leaves the room again.    *)
Abandoned == "abandoned"

(* START_TIMEOUT_S: nobody waits for the connection any more but it.        *)
StartTimesOut(o) ==
  /\ Fault /\ NotStarted(o)
  /\ \E k \in Conns :
       /\ conn[k].of = o /\ conn[k].st = "joining" /\ conn[k].waits = "start"
       /\ conn' = [conn EXCEPT ![k].waits = Abandoned]
  /\ UNCHANGED <<session, heard, lost>>

JoinsAbandoned(k) ==
  /\ conn[k].st = "joining" /\ conn[k].waits \in {"abandoned", "nobody"}
  /\ conn' = In(k, conn[k].waits)
  /\ UNCHANGED <<session, registry, obj, heard, lost, faults>>

LeaveAbandoned(k) ==
  /\ conn[k].st = "in" /\ conn[k].waits = "abandoned" /\ conn' = Out(k)
  /\ UNCHANGED <<session, registry, obj, heard, lost, faults>>

(* The connection is lost: by the network, or by another of the identity.   *)
Drops(k) ==
  /\ conn[k].st = "in" /\ conn[k].waits = "nobody" /\ Fault /\ conn' = Out(k)
  /\ UNCHANGED <<session, registry, obj, heard, lost>>

Disconnected(o) ==
  /\ obj[o].room # 0 /\ conn[obj[o].room].st = "out" /\ ~Ends(o) /\ obj[o].again = "no"
  /\ ~obj[o].gaveUp
  /\ obj' = [obj EXCEPT ![o].again = "token"]
  /\ UNCHANGED <<session, registry, conn, heard, lost, faults>>

(* _reconnect: with a fresh token, unless the session is gone or it stops.  *)
Token(o) ==
  /\ obj[o].again = "token"
  /\ \/ /\ Ends(o) /\ obj' = [obj EXCEPT ![o].again = "no"] /\ UNCHANGED conn
     \/ /\ ~Ends(o) /\ session = "gone"
        /\ obj' = [obj EXCEPT ![o] = [@ EXCEPT !.again = "no", !.gaveUp = TRUE]] /\ UNCHANGED conn
     \/ /\ ~Ends(o) /\ session # "gone" /\ Connects(o, "reconnect")
        /\ obj' = [obj EXCEPT ![o].again = "joining"]
  /\ UNCHANGED <<session, registry, heard, lost, faults>>

-----------------------------------------------------------------------------
(* What meeting-api asks.  POST /sessions: 409 if there is one.             *)
Start ==
  /\ session = "live" /\ registry = 0
  /\ \E o \in Objects :
       /\ obj[o].at = "none" /\ \A p \in Objects : p < o => obj[p].at # "none"
       /\ registry' = o /\ Connects(o, "start")
       /\ obj' = [obj EXCEPT ![o].at = "starting"]
  /\ UNCHANGED <<session, heard, lost, faults>>

(* finalize, when the session ends: the final pass begins with the end of   *)
(* the capture.  An agent without the session is not asked again.           *)
Finalize(o) ==
  /\ session = "live" /\ registry = o /\ session' = "finalising"
  /\ \/ obj' = [obj EXCEPT ![o] = [@ EXCEPT !.final = "asked", !.stopped = TRUE]]
        /\ UNCHANGED <<lost, faults>>
     \/ lost' = TRUE /\ Fault /\ UNCHANGED obj
  /\ UNCHANGED <<registry, conn, heard>>

NothingToFinalize ==
  /\ session = "live" /\ registry = 0 /\ session' = "finalising"
  /\ UNCHANGED <<registry, obj, conn, heard, lost, faults>>

(* The finalisation ends: the session has no token for the agent any more.  *)
Review ==
  /\ session = "finalising" /\ session' = "gone"
  /\ UNCHANGED <<registry, obj, conn, heard, lost, faults>>

(* _close_in_background.                                                    *)
Retire(o) ==
  /\ registry' = 0
  /\ obj' = [obj EXCEPT ![o].at = "closing"]

(* Without a tier 2 there is no final pass: only the DELETE.                *)
EndsWithoutPass(o) ==
  /\ session = "live" /\ registry = o /\ session' = "finalising"
  /\ \/ Retire(o) /\ UNCHANGED <<lost, faults>>
     \/ lost' = TRUE /\ Fault /\ UNCHANGED <<registry, obj>>
  /\ UNCHANGED <<conn, heard>>

(* DELETE: after the final pass, or when the session is deleted.            *)
DeleteSession(o) ==
  /\ registry = o
  /\ \/ session = "finalising" /\ obj[o].final # "none" /\ UNCHANGED session
     \/ session' = "gone"
  /\ \/ Retire(o) /\ UNCHANGED <<lost, faults>>
     \/ lost' = TRUE /\ Fault /\ UNCHANGED <<registry, obj>>
  /\ UNCHANGED <<conn, heard>>

(* reap_sessions: meeting-api does not know it any more, or it stopped long *)
(* ago.                                                                     *)
Reap(o) ==
  /\ registry = o /\ obj[o].at \in {"starting", "up"}
  /\ obj[o].gaveUp \/ (obj[o].stopped /\ obj[o].final \notin {"asked", "running"})
  /\ Retire(o)
  /\ UNCHANGED <<session, conn, heard, lost, faults>>

-----------------------------------------------------------------------------
(* _stop_capture: the room is left, after the consumers have stopped.       *)
LeavesRoom(o, next) ==
  /\ conn' = IF obj[o].room # 0 THEN Out(obj[o].room) ELSE conn
  /\ obj' = [obj EXCEPT ![o] = [next EXCEPT !.stopped = TRUE, !.room = 0]]
  /\ UNCHANGED <<session, registry, heard, lost, faults>>

FinalPass(o) ==
  /\ obj[o].final = "asked" /\ obj[o].at \in {"starting", "up"}
  /\ LeavesRoom(o, [obj[o] EXCEPT !.final = "running"])

Last(o) == IF obj[o].talks THEN "offline" ELSE "no"

(* _set_final: what is posted meanwhile comes first, then the last status.  *)
SetFinal(o) ==
  /\ obj[o].final = "running" /\ obj[o].at \in {"starting", "up"} /\ obj[o].posting = "no"
  /\ obj' = [obj EXCEPT ![o] = [@ EXCEPT !.final = "over", !.frozen = TRUE, !.posting = Last(o)]]
  /\ UNCHANGED <<session, registry, conn, heard, lost, faults>>

(* close: a final pass is cancelled.                                        *)
CloseStops(o) ==
  /\ obj[o].at = "closing"
  /\ LeavesRoom(o, [obj[o] EXCEPT !.at = "left", !.final = IF obj[o].final = "none" THEN "none" ELSE "over"])

(* At its end a reconnection is cancelled too, as a start that times out is. *)
CloseEnds(o) ==
  /\ obj[o].at = "left" /\ obj[o].posting = "no"
  /\ obj' = [obj EXCEPT ![o] =
       [@ EXCEPT !.at = "closed", !.frozen = TRUE, !.again = "no",
                 !.posting = IF obj[o].frozen THEN "no" ELSE Last(o)]]
  /\ conn' = [k \in Conns |->
       IF conn[k].of = o /\ conn[k].st = "joining" /\ conn[k].waits = "reconnect"
       THEN [conn[k] EXCEPT !.waits = Abandoned] ELSE conn[k]]
  /\ UNCHANGED <<session, registry, heard, lost, faults>>

(* _maybe_post_status: what it says is what was true when it was made.      *)
PostStatus(o) ==
  /\ obj[o].talks /\ obj[o].at # "closed" /\ ~obj[o].frozen /\ obj[o].posting = "no"
  /\ obj' = [obj EXCEPT ![o].posting = IF Ends(o) \/ obj[o].gaveUp THEN "offline" ELSE "live"]
  /\ UNCHANGED <<session, registry, conn, heard, lost, faults>>

AgentStatus(o) ==
  /\ obj[o].posting # "no" /\ obj' = [obj EXCEPT ![o].posting = "no"]
  /\ heard' = obj[o].posting
  /\ UNCHANGED <<session, registry, conn, lost, faults>>

Next ==
  \/ Start \/ NothingToFinalize \/ Review
  \/ \E k \in Conns : Joined(k) \/ JoinFails(k) \/ JoinsAbandoned(k) \/ LeaveAbandoned(k) \/ Drops(k)
  \/ \E o \in Objects : StartTimesOut(o) \/ Disconnected(o) \/ Token(o) \/ Finalize(o)
       \/ EndsWithoutPass(o) \/ DeleteSession(o) \/ Reap(o) \/ FinalPass(o) \/ SetFinal(o) \/ CloseStops(o)
       \/ CloseEnds(o) \/ PostStatus(o) \/ AgentStatus(o)

Spec == Init /\ [][Next]_vars

-----------------------------------------------------------------------------
(* Whoever is in the room for the session leaves it again: an object that   *)
(* a DELETE reaches or that is being closed, or the one that waits for an   *)
(* abandoned connection.                                                    *)
NoGhost ==
  \A k \in Conns : conn[k].st = "in" =>
    \/ conn[k].waits = "abandoned"
    \/ LET o == conn[k].of
       IN /\ obj[o].room = k
          /\ registry = o \/ obj[o].at = "closing"

(* An object whose final pass is over, or that closed, has said "offline"   *)
(* last: no status that it made before comes after it.                      *)
OfflineIsLast ==
  \A o \in Objects :
    obj[o].talks /\ obj[o].frozen /\ obj[o].posting = "no" => heard = "offline"

(* When the session is over, and nothing was lost and nothing is under way, *)
(* nobody is there any more.                                                *)
Busy ==
  \/ \E k \in Conns : conn[k].st = "joining" \/ (conn[k].st = "in" /\ conn[k].waits # "nobody")
  \/ \E o \in Objects : obj[o].at \in {"starting", "closing", "left"}
       \/ obj[o].again # "no" \/ obj[o].final \in {"asked", "running"}
       \/ (obj[o].final = "over" /\ registry = o) \/ (obj[o].gaveUp /\ registry = o)
       \/ (obj[o].at = "up" /\ obj[o].room # 0 /\ conn[obj[o].room].st = "out" /\ ~Ends(o))

RoomIsLeft ==
  session # "live" /\ ~lost /\ ~Busy => registry = 0 /\ \A k \in Conns : conn[k].st # "in"

ScribeLeaves == NoGhost /\ OfflineIsLast /\ RoomIsLeft
-----------------------------------------------------------------------------
(* What holds between any two steps, and gives the above: what is so of     *)
(* each object by itself, of the registry, and of each connection.  A       *)
(* connection that is being made belongs to the object that is registered,  *)
(* or to one that is on its way out, and only one object ever talks: a      *)
(* second one is started only when the first did not come to it.            *)
ScribeTypes ==
  /\ registry \in {0} \cup Objects
  /\ DOMAIN obj = Objects /\ \A o \in Objects : DOMAIN obj[o] = DOMAIN NoObject
  /\ DOMAIN conn = Conns /\ \A k \in Conns : DOMAIN conn[k] = DOMAIN NoConn

ObjectHolds(o) ==
  /\ obj[o].at \in {"none", "starting", "up", "closing", "left", "closed"}
  /\ obj[o].final \in {"none", "asked", "running", "over"}
  /\ obj[o].at = "none" => ~obj[o].stopped
  /\ obj[o].final # "none" \/ obj[o].frozen \/ obj[o].at \in {"left", "closed"} => obj[o].stopped
  /\ obj[o].talks => obj[o].at \notin {"none", "starting"}
  /\ obj[o].room # 0 \/ obj[o].again # "no" \/ obj[o].posting # "no" => obj[o].talks
  /\ obj[o].frozen /\ obj[o].posting # "no" => obj[o].posting = "offline"

Registered(o) ==
  /\ obj[o].at \in {"starting", "up"} <=> registry = o
  /\ session = "live" =>
       /\ obj[o].final = "none" /\ ~obj[o].gaveUp
       /\ registry = o => ~obj[o].stopped
       /\ obj[o].talks => registry = o
  /\ registry = o /\ session # "live" /\ ~lost => obj[o].final # "none"

OneTalks == \A o, p \in Objects : obj[o].talks /\ obj[p].talks => o = p

Starting(k) == conn[k].st = "joining" /\ conn[k].waits = "start"
Again(k) == conn[k].st = "joining" /\ conn[k].waits = "reconnect"

ConnHolds(k) ==
  /\ conn[k].st # "none" => conn[k].of \in Objects /\ obj[conn[k].of].at # "none"
  /\ conn[k].st = "none" => \A o \in Objects : obj[o].room # k
  /\ conn[k].st = "joining" => conn[k].waits # "nobody"
  /\ Again(k) => obj[conn[k].of].talks
  /\ Starting(k) =>
       /\ obj[conn[k].of].at # "up"
       /\ registry = conn[k].of \/ (registry = 0 /\ session # "live")
       /\ \A o \in Objects : obj[o].talks => o = conn[k].of

OneStarts == \A k, j \in Conns : Starting(k) /\ Starting(j) => k = j

ScribeHolds ==
  /\ ScribeTypes
  /\ \A o \in Objects : ObjectHolds(o) /\ Registered(o)
  /\ \A k \in Conns : ConnHolds(k)
  /\ OneTalks /\ OneStarts /\ NoGhost /\ OfflineIsLast
=============================================================================
