--------------------------------- MODULE Rooms ---------------------------------
(***************************************************************************)
(* Who is in a room: the meeting's row, the tokens it gives out            *)
(* (routes/tokens.py, meetings.py), the waiting room (waiting_room.py),    *)
(* the rows of its participants, and the Café's list (ti_cafe.py), both    *)
(* kept by LiveKit's webhooks (webhooks.py).  The token requests run in    *)
(* threads: one reads what is there and commits later, while webhooks and  *)
(* other requests do the same.  LiveKit and Redis are modelled from how    *)
(* the code uses them; a token stays good for as long as a run lasts.      *)
(***************************************************************************)
EXTENDS Naturals, Sequences, FiniteSets, Functions

CONSTANTS
  Members,     \* identities of accounts (user-...), who come back under the same one
  Guests,      \* identities made up for guests (anon-...), one for each token
  Waiters,     \* entries of the waiting room
  Calls,       \* requests under way at once
  MaxRequests, MaxJoins, MaxFaults   \* bound requests, joins and faults

VARIABLES
  cafe,      \* the room is the Café: no meeting, no rows
  meeting,   \* is_active and hidden
  policy,    \* waiting_room_enabled, lock_room_after_start
  open,      \* open participant rows (left_at is null), by identity
  started,   \* a row of the owner exists
  tokens,    \* identities somebody holds a token for
  unused,    \* those a row or token was made for since they last came
  wait,      \* the waiting room's entries in Redis
  call,      \* the requests under way
  present,   \* LiveKit: who is in the room, and
  up,        \* whether there is one
  hooks,     \* webhooks on their way, in order
  live,      \* the Café's _live
  seed,      \* _seeded, and the snapshot a refresh is waiting with
  clean,     \* no webhook lost, repeated, or handled during a refresh
  counts

book == <<open, started, live>>
livekit == <<present, up, hooks>>
vars == <<cafe, meeting, policy, book, tokens, unused, wait, call, livekit, seed, clean, counts>>

Ids == Members \cup Guests
NoOne == "none"
Idle == [step |-> "idle", who |-> NoOne, existing |-> FALSE, entry |-> NoOne]
Gone == [status |-> "gone", who |-> NoOne]
Event(type, who) == [type |-> type, who |-> who]

TypeOK ==
  /\ cafe \in BOOLEAN /\ meeting \in {"active", "closed", "hidden"}
  /\ policy \in [waiting : BOOLEAN, lock : BOOLEAN]
  /\ open \in [Ids -> Nat] /\ started \in BOOLEAN
  /\ tokens \subseteq Ids /\ unused \subseteq Ids
  /\ wait \in [Waiters -> [status : {"none", "pending", "admitted", "denied", "gone"}, who : Guests \cup {NoOne}]]
  /\ call \in [Calls -> [step : {"idle", "guest", "owner", "admit", "admitted", "deny", "ending"}, who : Ids \cup {NoOne},
                         existing : BOOLEAN, entry : Waiters \cup {NoOne}]]
  /\ present \subseteq Ids /\ up \in BOOLEAN
  /\ hooks \in Seq([type : {"joined", "left", "finished"}, who : Ids \cup {NoOne}])
  /\ live \subseteq Ids
  /\ seed \in [done : BOOLEAN, waiting : BOOLEAN, list : SUBSET Ids]
  /\ clean \in BOOLEAN
  /\ counts \in [requests : 0..MaxRequests, joins : 0..MaxJoins, faults : 0..MaxFaults]

Init ==
  /\ cafe \in BOOLEAN /\ meeting = "active"
  /\ policy \in [waiting : BOOLEAN, lock : {FALSE}]
  /\ open = [i \in Ids |-> 0] /\ started = FALSE /\ tokens = {} /\ unused = {}
  /\ wait = [w \in Waiters |-> [Gone EXCEPT !.status = "none"]]
  /\ call = [c \in Calls |-> Idle]
  /\ present = {} /\ up = FALSE /\ hooks = <<>>
  /\ live = {} /\ seed = [done |-> FALSE, waiting |-> FALSE, list |-> {}]
  /\ clean = TRUE /\ counts = [requests |-> 0, joins |-> 0, faults |-> 0]

Use(what, max) == counts[what] < max /\ counts' = [counts EXCEPT ![what] = @ + 1]
Begin(c, step, who, entry) ==
  /\ call[c] = Idle /\ Use("requests", MaxRequests)
  /\ call' = [call EXCEPT ![c] = [step |-> step, who |-> who, entry |-> entry,
                                  existing |-> who # NoOne /\ open[who] > 0]]
Ends(c) == call' = [call EXCEPT ![c] = Idle]
Unnamed == {g \in Guests : g \notin tokens /\ \A c \in Calls : call[c].who # g}

(* Mutant: there is no such index.                                          *)
InsertAnother(who) == [open EXCEPT ![who] = @ + 1]

(* ux_meeting_participants_active: one open row per identity, a second one  *)
(* is refused and the refusal passed over.                                  *)
Insert(who) == IF open[who] = 0 THEN [open EXCEPT ![who] = 1] ELSE open

-----------------------------------------------------------------------------
(* anon_token, of a guest or of an account that does not run the meeting:   *)
(* it reads the meeting and the row there is.                               *)
GuestToken(c, who) ==
  /\ ~cafe /\ meeting = "active" /\ who \in Members \cup Unnamed
  /\ ~(policy.lock /\ started) /\ ~policy.waiting
  /\ Begin(c, "guest", who, NoOne)
  /\ UNCHANGED <<cafe, meeting, policy, book, tokens, unused, wait, livekit, seed, clean>>

(* mint_owner_token passes lock and waiting room by.                        *)
OwnerToken(c, who) ==
  /\ ~cafe /\ meeting = "active" /\ who \in Members
  /\ Begin(c, "owner", who, NoOne)
  /\ UNCHANGED <<cafe, meeting, policy, book, tokens, unused, wait, livekit, seed, clean>>

(* Both: a row unless one was found, then the token.                        *)
Minted(c) ==
  /\ call[c].step \in {"guest", "owner"}
  /\ open' = IF call[c].existing THEN open ELSE Insert(call[c].who)
  /\ started' = (started \/ call[c].step = "owner")
  /\ tokens' = tokens \cup {call[c].who} /\ unused' = unused \cup {call[c].who}
  /\ Ends(c)
  /\ UNCHANGED <<cafe, meeting, policy, live, wait, livekit, seed, clean, counts>>

(* mint_ti_cafe_token                                                       *)
CafeToken(who) ==
  /\ cafe /\ Use("requests", MaxRequests)
  /\ tokens' = tokens \cup {who} /\ unused' = unused \cup {who}
  /\ UNCHANGED <<cafe, meeting, policy, book, wait, call, livekit, seed, clean>>

(* anon_token with the waiting room on: enqueue_pending.                    *)
Enqueue(w) ==
  /\ ~cafe /\ meeting = "active" /\ policy.waiting /\ ~(policy.lock /\ started)
  /\ wait[w].status = "none"
  /\ wait' = [wait EXCEPT ![w].status = "pending"]
  /\ UNCHANGED <<cafe, meeting, policy, book, tokens, unused, call, livekit, seed, clean, counts>>

Admit(c, w, g) ==
  /\ wait[w].status = "pending" /\ g \in Unnamed
  /\ Begin(c, "admit", g, w)
  /\ UNCHANGED <<cafe, meeting, policy, book, tokens, unused, wait, livekit, seed, clean>>

(* Redis has the answer before the database has the row.                    *)
Admitted(c) ==
  /\ call[c].step = "admit"
  /\ wait' = [wait EXCEPT ![call[c].entry] = [status |-> "admitted", who |-> call[c].who]]
  /\ call' = [call EXCEPT ![c].step = "admitted"]
  /\ UNCHANGED <<cafe, meeting, policy, book, tokens, unused, livekit, seed, clean, counts>>

AdmittedRow(c) ==
  /\ call[c].step = "admitted"
  /\ open' = Insert(call[c].who)
  /\ unused' = unused \cup {call[c].who}
  /\ Ends(c)
  /\ UNCHANGED <<cafe, meeting, policy, started, live, tokens, wait, livekit, seed, clean, counts>>

Deny(c, w) ==
  /\ wait[w].status \in {"pending", "admitted", "denied"}
  /\ Begin(c, "deny", NoOne, w)
  /\ UNCHANGED <<cafe, meeting, policy, book, tokens, unused, wait, livekit, seed, clean>>

Denied(c) ==
  /\ call[c].step = "deny"
  /\ wait' = [wait EXCEPT ![call[c].entry].status = "denied"]
  /\ Ends(c)
  /\ UNCHANGED <<cafe, meeting, policy, book, tokens, unused, livekit, seed, clean, counts>>

(* poll_wait hands the token out.                                           *)
Poll(w) ==
  /\ wait[w].status = "admitted" /\ wait[w].who \notin tokens
  /\ tokens' = tokens \cup {wait[w].who} /\ unused' = unused \cup {wait[w].who}
  /\ UNCHANGED <<cafe, meeting, policy, book, wait, call, livekit, seed, clean, counts>>

Expire(w) ==
  /\ wait[w].status \in {"pending", "admitted", "denied"}
  /\ wait' = [wait EXCEPT ![w] = Gone]
  /\ UNCHANGED <<cafe, meeting, policy, book, tokens, unused, call, livekit, seed, clean, counts>>

-----------------------------------------------------------------------------
(* The meeting: its settings, its end, what comes after.                    *)
Settings(field) ==
  /\ ~cafe /\ Use("requests", MaxRequests)
  /\ policy' = [policy EXCEPT ![field] = ~@]
  /\ UNCHANGED <<cafe, meeting, book, tokens, unused, wait, call, livekit, seed, clean>>

(* LiveKit tells of everybody who was there, in some order.                 *)
InSomeOrder(S) == CHOOSE f \in [1..Cardinality(S) -> S] : IsInjective(f)

EndMeeting(c) ==
  /\ ~cafe /\ meeting = "active"
  /\ Begin(c, "ending", NoOne, NoOne)
  /\ present' = {} /\ up' = FALSE
  /\ hooks' = hooks \o [n \in 1..Cardinality(present) |-> Event("left", InSomeOrder(present)[n])]
                    \o (IF up THEN <<Event("finished", NoOne)>> ELSE <<>>)
  /\ UNCHANGED <<cafe, meeting, policy, book, tokens, unused, wait, seed, clean>>

Ended(c) ==
  /\ call[c].step = "ending" /\ meeting' = IF meeting = "active" THEN "closed" ELSE meeting
  /\ Ends(c)
  /\ UNCHANGED <<cafe, policy, book, tokens, unused, wait, livekit, seed, clean, counts>>

HideOrReopen ==
  /\ ~cafe /\ meeting # "active" /\ Use("requests", MaxRequests)
  /\ meeting' \in {"hidden", "active"}
  /\ UNCHANGED <<cafe, policy, book, tokens, unused, wait, call, livekit, seed, clean>>

-----------------------------------------------------------------------------
(* LiveKit: who joins under the identity of one in the room replaces them.  *)
Join(who) ==
  /\ who \in tokens /\ Use("joins", MaxJoins)
  /\ present' = present \cup {who} /\ up' = TRUE
  /\ hooks' = hooks \o (IF who \in present THEN <<Event("left", who)>> ELSE <<>>)
                    \o <<Event("joined", who)>>
  /\ unused' = unused \ {who}
  /\ UNCHANGED <<cafe, meeting, policy, book, tokens, wait, call, seed, clean>>

(* By themselves, or kicked.                                                *)
Leave(who) ==
  /\ who \in present
  /\ present' = present \ {who}
  /\ hooks' = Append(hooks, Event("left", who))
  /\ UNCHANGED <<cafe, meeting, policy, book, tokens, unused, wait, call, up, seed, clean, counts>>

RoomEmpties ==
  /\ up /\ present = {} /\ up' = FALSE
  /\ hooks' = Append(hooks, Event("finished", NoOne))
  /\ UNCHANGED <<cafe, meeting, policy, book, tokens, unused, wait, call, present, seed, clean, counts>>

-----------------------------------------------------------------------------
(* participant_joined: a row unless there is an open one.                   *)
Joined(who) ==
  /\ open' = IF cafe THEN open ELSE Insert(who)
  /\ live' = IF cafe THEN live \cup {who} ELSE live
  /\ UNCHANGED meeting

(* participant_left closes the newest open row.                             *)
Left(who) ==
  /\ open' = [open EXCEPT ![who] = IF @ > 0 THEN @ - 1 ELSE 0]
  /\ live' = live \ {who}
  /\ UNCHANGED meeting

Finished ==
  /\ live' = IF cafe THEN {} ELSE live
  /\ meeting' = IF ~cafe /\ meeting = "active" THEN "closed" ELSE meeting
  /\ UNCHANGED open

Webhook ==
  /\ hooks # <<>> /\ hooks' = Tail(hooks)
  /\ CASE Head(hooks).type = "joined" -> Joined(Head(hooks).who)
       [] Head(hooks).type = "left" -> Left(Head(hooks).who)
       [] Head(hooks).type = "finished" -> Finished
  /\ clean' = (clean /\ ~seed.waiting)
  /\ UNCHANGED <<cafe, policy, started, tokens, unused, wait, call, present, up, seed, counts>>

(* A webhook is lost, or told again after others have been.                 *)
WebhookFails ==
  /\ hooks # <<>> /\ Use("faults", MaxFaults)
  /\ hooks' \in {Tail(hooks), Append(hooks, Head(hooks))}
  /\ clean' = FALSE
  /\ UNCHANGED <<cafe, meeting, policy, book, tokens, unused, wait, call, present, up, seed>>

(* The Café's list is read from LiveKit when it is first asked for and when *)
(* somebody asks for it anew, and put in the place of what there was.       *)
Seed ==
  /\ cafe /\ ~seed.waiting /\ Use("requests", MaxRequests)
  /\ seed' = [done |-> FALSE, waiting |-> TRUE, list |-> present]
  /\ UNCHANGED <<cafe, meeting, policy, book, tokens, unused, wait, call, livekit, clean>>

Seeded ==
  /\ seed.waiting
  /\ live' = seed.list
  /\ seed' = [done |-> TRUE, waiting |-> FALSE, list |-> {}]
  /\ UNCHANGED <<cafe, meeting, policy, open, started, tokens, unused, wait, call, livekit, clean, counts>>

(* LiveKit does not answer: the list stays, to be read again.               *)
SeedFails ==
  /\ seed.waiting /\ Use("faults", MaxFaults)
  /\ seed' = [done |-> FALSE, waiting |-> FALSE, list |-> {}]
  /\ UNCHANGED <<cafe, meeting, policy, book, tokens, unused, wait, call, livekit, clean>>

(* The process restarts; requests under way are cut off.                    *)
Restart ==
  /\ Use("faults", MaxFaults)
  /\ live' = {} /\ seed' = [done |-> FALSE, waiting |-> FALSE, list |-> {}]
  /\ call' = [c \in Calls |-> Idle]
  /\ UNCHANGED <<cafe, meeting, policy, open, started, tokens, unused, wait, livekit, clean>>

Next ==
  \/ \E c \in Calls :
       \/ \E who \in Ids : GuestToken(c, who) \/ OwnerToken(c, who)
       \/ \E w \in Waiters : Deny(c, w) \/ \E g \in Guests : Admit(c, w, g)
       \/ Minted(c) \/ Admitted(c) \/ AdmittedRow(c) \/ Denied(c) \/ EndMeeting(c) \/ Ended(c)
  \/ \E w \in Waiters : Enqueue(w) \/ Poll(w) \/ Expire(w)
  \/ \E field \in {"waiting", "lock"} : Settings(field)
  \/ \E who \in Ids : CafeToken(who) \/ Join(who) \/ Leave(who)
  \/ HideOrReopen \/ RoomEmpties \/ Webhook \/ WebhookFails \/ Seed \/ Seeded \/ SeedFails
  \/ Restart

Spec == Init /\ [][Next]_vars

-----------------------------------------------------------------------------
Quiet == hooks = <<>> /\ (\A c \in Calls : call[c] = Idle) /\ clean

(* "one active row per (meeting, identity)" (webhooks.py), always; and once *)
(* every webhook has been handled, in order, the rows say who is in the     *)
(* room: everyone there has an open one, and whoever left has none, unless  *)
(* one was made for them since.                                             *)
RowsFollowRoom ==
  /\ \A i \in Ids : open[i] <= 1
  /\ ~cafe /\ Quiet => \A i \in Ids : IF i \in present THEN open[i] = 1 ELSE i \in unused \/ open[i] = 0

(* The Café lists who is there, once the list has been read and unless a    *)
(* webhook was handled while it was.                                        *)
CafeListsRoom == cafe /\ Quiet /\ seed.done => live = present
-----------------------------------------------------------------------------
(* What holds between any two steps and gives RowsFollowRoom and            *)
(* CafeListsRoom, as long as no webhook is lost, repeated or handled during *)
(* a refresh: the last webhook on its way that tells of somebody says       *)
(* whether they are in the room, and of whom none tells, the rows, the list *)
(* or the snapshot a refresh is waiting with do.                            *)
Events == [type : {"joined", "left", "finished"}, who : Ids \cup {NoOne}]
Tells(e, i) == IF e.type = "finished" THEN cafe ELSE e.who = i
Telling(i) == {n \in 1..Len(hooks) : Tells(hooks[n], i)}

RoomTypes ==
  /\ DOMAIN open = Ids /\ \A i \in Ids : open[i] \in {0, 1}
  /\ present \subseteq Ids /\ IsFiniteSet(present)
  /\ hooks \in Seq(Events) /\ \A n \in 1..Len(hooks) : hooks[n].type = "joined" => hooks[n].who \in Ids
  /\ seed.done => ~seed.waiting

LastTells ==
  \A i \in Ids : \A n \in Telling(i) :
    (\A m \in Telling(i) : m <= n) => (hooks[n].type = "joined" <=> i \in present)

RowOf(i) == IF i \in present THEN open[i] = 1 ELSE i \in unused \/ open[i] = 0

RoomHolds ==
  /\ RoomTypes
  /\ clean => LastTells
  /\ clean /\ ~cafe => \A i \in Ids : Telling(i) = {} => RowOf(i)
  /\ clean /\ cafe /\ seed.done =>
       live \subseteq Ids /\ \A i \in Ids : Telling(i) = {} => (i \in live <=> i \in present)
  /\ clean /\ cafe /\ seed.waiting =>
       seed.list \subseteq Ids /\ \A i \in Ids : Telling(i) = {} => (i \in seed.list <=> i \in present)
=============================================================================
