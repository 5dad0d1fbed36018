------------------------------ MODULE Attendance ------------------------------
(***************************************************************************)
(* Who attended: the attendee rows of a session and the roster of its      *)
(* series (meetpp/runtime.py), for one person: a member, who signs in, or  *)
(* a guest, whose browser keeps a key and who has a new identity after     *)
(* each reload.  Three sources write the rows: the agent, which sees who comes  *)
(* and goes and posts it in order, the browsers' consents, which come when *)
(* they come, and what the meeting says of who is absent.  A person is     *)
(* known by a key; a row made under a weaker key (an identity alone, a     *)
(* name alone) is taken over when the person is known.                     *)
(***************************************************************************)
EXTENDS Naturals, Sequences, SequencesExt, FiniteSets

CONSTANTS
  MaxJoins, MaxQueue,         \* bounds: joins, and events not acknowledged
  MaxRequests, MaxFaults

VARIABLES
  ours,       \* the identities of the person this behaviour is of
  status,     \* MeetppSession.status
  roster,     \* the members of the series by key: active
  rows,       \* the attendees, by key
  consents,   \* the consents, by key
  room,       \* the identities in the room
  agent,      \* the agent: connected, and whom it has told of as present
  posts,      \* its presence events, not acknowledged yet
  asking,     \* the consents on their way
  blind,      \* history: a person's leaving was not, or not last, told of
  counts      \* what is spent of the bounds

vars == <<ours, status, roster, rows, consents, room, agent, posts, asking, blind, counts>>

Member == "user"
Browsers == {"g1", "g2"}            \* the guest's identities
Identities == {Member} \cup Browsers
Keys == {"sub", "name", "guest"} \cup Browsers   \* a browser's name stands for id:<identity>
Row == [ids : Seq(Identities), status : {"not_registered", "present", "absent", "excused"},
        online : BOOLEAN, out : BOOLEAN, joined : BOOLEAN]
Partial(D, R) == UNION {[S -> R] : S \in SUBSET D}

TypeOK ==
  /\ ours \in {{Member}, Browsers}
  /\ status \in {"setup", "running", "finalising"}
  /\ roster \in Partial({"sub", "name", "guest"}, BOOLEAN)
  /\ DOMAIN rows \subseteq Keys /\ \A k \in DOMAIN rows : rows[k] \in Row
  /\ consents \in Partial(Keys, [identity : Identities, decision : {"accept", "opt_out"}])
  /\ room \subseteq Identities
  /\ agent \in [on : BOOLEAN, present : SUBSET Identities]
  /\ posts \in Seq([who : Identities, event : {"connected", "disconnected"}])
  /\ asking \subseteq [who : Identities, decision : {"accept", "opt_out"}]
  /\ blind \in BOOLEAN
  /\ counts \in [joins : 0..MaxJoins, requests : 0..MaxRequests, faults : 0..MaxFaults]

Spend(what, max) == counts[what] < max /\ counts' = [counts EXCEPT ![what] = @ + 1]
Request == Spend("requests", MaxRequests)
Fault == Spend("faults", MaxFaults)

\* f with k as r, and f without k.
With(f, k, r) == [x \in DOMAIN f \cup {k} |-> IF x = k THEN r ELSE f[x]]
Without(f, k) == [x \in DOMAIN f \ {k} |-> f[x]]

-----------------------------------------------------------------------------
(* The people.  A database is [rows, roster].                               *)

NewRow == [ids |-> <<>>, status |-> "not_registered", online |-> FALSE, out |-> FALSE,
           joined |-> FALSE]

(* expected_attendees: every active member of the roster has a row.         *)
Expected(db) ==
  LET new == {k \in DOMAIN db.roster \ DOMAIN db.rows : db.roster[k]}
  IN [db EXCEPT !.rows = [k \in DOMAIN @ \cup new |-> IF k \in DOMAIN @ THEN @[k] ELSE NewRow]]

(* upsert_roster: a member known by name only is the one who signs in.      *)
UpsertRoster(r, key) ==
  CASE key \notin {"sub", "guest"} \/ key \in DOMAIN r -> r
    [] key = "sub" /\ key \notin DOMAIN r /\ "name" \in DOMAIN r ->
         With(Without(r, "name"), "sub", r["name"])
    [] OTHER -> With(r, key, TRUE)

(* _merge_attendee: the row of an identity goes into the person's.          *)
Merge(a, b) ==
  [a EXCEPT !.ids = @ \o SelectSeq(b.ids, LAMBDA i : i \notin ToSet(a.ids)),
            !.online = @ \/ b.online, !.joined = @ \/ b.joined,
            !.status = IF @ \in {"not_registered", "absent"} /\ b.status = "present"
                       THEN "present" ELSE @]

(* The key of the row that becomes the person's: their own, the one of      *)
(* their name, the one of this identity.                                    *)
Held(db, key, i) ==
  CASE key \in DOMAIN db.rows -> key
    [] key \notin DOMAIN db.rows /\ key = "sub" /\ "name" \in DOMAIN db.rows -> "name"
    [] OTHER -> i

(* ensure_attendee.                                                         *)
Ensure(db, key, i) ==
  LET held == Held(db, key, i)
      base == IF held \in DOMAIN db.rows THEN db.rows[held] ELSE [NewRow EXCEPT !.status = "present"]
      a == IF i \in DOMAIN db.rows \ {held} THEN Merge(base, db.rows[i]) ELSE base
      named == [a EXCEPT !.ids = IF i \in ToSet(@) THEN @ ELSE Append(@, i)]
  IN [rows |-> With([k \in DOMAIN db.rows \ {held, i} |-> db.rows[k]], key, named),
      roster |-> UpsertRoster(db.roster, key)]

(* identity_map: whose an identity is, by the rows and then the consents.   *)
KeysOf(db, i) ==
  IF i = Member THEN {"sub"}
  ELSE LET listed == {k \in DOMAIN db.rows : i \in ToSet(db.rows[k].ids)}
       IN IF listed # {} THEN listed
          ELSE {k \in DOMAIN consents : consents[k].identity = i}

OptedOut(k) == k \in DOMAIN consents /\ consents[k].decision = "opt_out"

Attends(a) ==
  [a EXCEPT !.online = TRUE, !.joined = TRUE,
            !.status = IF @ \in {"not_registered", "absent", "excused"} THEN "present" ELSE @]

(* Mutant: whoever leaves takes the person's row offline.                   *)
AnyLeaves(a, i) == [a EXCEPT !.online = FALSE]

(* A person is gone when the identity they came with last is.               *)
Leaves(a, i) == IF a.ids = <<>> \/ Last(a.ids) = i THEN [a EXCEPT !.online = FALSE] ELSE a

(* One event of presence().                                                 *)
Hear(db, e) ==
  LET i == e.who
      known == KeysOf(db, i)
      key == IF known = {} THEN i ELSE CHOOSE k \in known : TRUE
      to == Ensure(db, key, i)
      a == to.rows[key]
      after == IF e.event = "connected" THEN Attends(a) ELSE Leaves(a, i)
  IN [to EXCEPT !.rows[key] = [after EXCEPT !.out = OptedOut(key)]]

-----------------------------------------------------------------------------
(* A first meeting, or one after a meeting the person was at.               *)
Init ==
  /\ ours \in {{Member}, Browsers} /\ status = "setup"
  /\ roster \in {<<>>, [k \in {IF Member \in ours THEN "sub" ELSE "guest"} |-> TRUE]}
  /\ rows = [k \in DOMAIN roster |-> NewRow]
  /\ consents = <<>> /\ room = {} /\ agent = [on |-> FALSE, present |-> {}]
  /\ posts = <<>> /\ asking = {} /\ blind = FALSE
  /\ counts = [joins |-> 0, requests |-> 0, faults |-> 0]

people == <<roster, rows>>
Db == [rows |-> rows, roster |-> roster]
Becomes(db) == rows' = db.rows /\ roster' = db.roster

Post(who, event) == [who |-> who, event |-> event]

(* The room, and what the agent sees of it while it is connected.           *)
Join(i) ==
  /\ i \notin room /\ Len(posts) < MaxQueue /\ Spend("joins", MaxJoins)
  /\ i = "g1" => \A k \in DOMAIN rows : "g2" \notin ToSet(rows[k].ids)
  /\ room' = room \cup {i}
  /\ IF agent.on THEN /\ agent' = [agent EXCEPT !.present = @ \cup {i}]
                      /\ posts' = Append(posts, Post(i, "connected"))
     ELSE UNCHANGED <<agent, posts>>
  /\ UNCHANGED <<ours, status, people, consents, asking, blind>>

Leave(i) ==
  /\ i \in room /\ Len(posts) < MaxQueue /\ room' = room \ {i}
  /\ IF agent.on THEN /\ agent' = [agent EXCEPT !.present = @ \ {i}]
                      /\ posts' = Append(posts, Post(i, "disconnected"))
     ELSE UNCHANGED <<agent, posts>>
  /\ blind' = (blind \/ (~agent.on /\ i \notin agent.present))
  /\ UNCHANGED <<ours, status, people, consents, asking, counts>>

(* _sync_room, of an agent that has told of "told" before.                  *)
Listed(S, event) == [n \in 1..Cardinality(S) |-> Post(SetToSeq(S)[n], event)]
Synced(told) == Listed(room \ told, "connected") \o Listed(told \ room, "disconnected")

AgentLoses ==
  /\ agent.on /\ Fault /\ agent' = [agent EXCEPT !.on = FALSE]
  /\ UNCHANGED <<ours, status, people, consents, room, posts, asking, blind>>

AgentReturns ==
  /\ status = "running" /\ ~agent.on
  /\ agent' = [on |-> TRUE, present |-> room]
  /\ posts' = posts \o Synced(agent.present)
  /\ UNCHANGED <<ours, status, people, consents, room, asking, blind, counts>>

(* Another process: it knows nobody, and what was not posted is lost.       *)
AgentRestarts ==
  /\ status = "running" /\ Fault
  /\ agent' = [on |-> TRUE, present |-> room]
  /\ posts' = Synced({})
  /\ blind' = (blind \/ ~(agent.present \cup {posts[n].who : n \in DOMAIN posts} \subseteq room))
  /\ UNCHANGED <<ours, status, people, consents, room, asking>>

(* The head of the queue is posted as a batch, which presence() applies     *)
(* event by event; a batch whose reply is lost is posted again.             *)
Presence(n) ==
  /\ n \in 1..Len(posts)
  /\ IF status = "running" THEN Becomes(FoldLeft(Hear, Db, SubSeq(posts, 1, n)))
     ELSE UNCHANGED people
  /\ blind' = (blind \/ \E k \in DOMAIN rows, m \in 1..n :
       /\ posts[m].event = "connected"
       /\ posts[m].who \in ToSet(rows[k].ids) /\ Last(rows[k].ids) # posts[m].who)
  /\ \/ posts' = SubSeq(posts, n + 1, Len(posts)) /\ UNCHANGED counts
     \/ UNCHANGED posts /\ Fault
  /\ UNCHANGED <<ours, status, consents, room, agent, asking>>

-----------------------------------------------------------------------------
(* postConsent: the choice, sent when made and on every join.               *)
PostConsent(i, d) ==
  /\ i \in room /\ asking = {} /\ Request
  /\ asking' = asking \cup {[who |-> i, decision |-> d]}
  /\ UNCHANGED <<ours, status, people, consents, room, agent, posts, blind>>

(* _guest_claim_ok: a guest's key is another identity's while that one is   *)
(* still online.                                                            *)
ClaimOk(i) ==
  LET known == "guest" \in DOMAIN rows
  IN \/ known /\ i \in ToSet(rows["guest"].ids)
     \/ "guest" \notin DOMAIN consents /\ ~known /\ "guest" \notin DOMAIN roster
     \/ "guest" \in DOMAIN consents
        /\ (consents["guest"].identity = i \/ ~known \/ ~rows["guest"].online)

KeyFor(i) == IF i = Member THEN "sub" ELSE IF ClaimOk(i) THEN "guest" ELSE i

(* Somebody the agent will not tell of any more.                            *)
Untold(i) == i \notin room \cup agent.present /\ \A n \in DOMAIN posts : posts[n].who # i

SetConsent(c) ==
  /\ c \in asking /\ asking' = asking \ {c}
  /\ IF status = "finalising" THEN UNCHANGED <<people, consents, blind>>
     ELSE LET key == KeyFor(c.who)
              to == Ensure(Db, key, c.who)
          IN /\ consents' = With(IF key = "guest" THEN Without(consents, c.who) ELSE consents,
                                 key, [identity |-> c.who, decision |-> c.decision])
             /\ roster' = to.roster
             /\ rows' = [to.rows EXCEPT ![key].online = TRUE, ![key].joined = TRUE,
                  ![key].out = c.decision = "opt_out",
                  ![key].status = IF @ \in {"not_registered", "absent"} THEN "present" ELSE @]
             /\ blind' = (blind \/ Untold(c.who))
  /\ UNCHANGED <<ours, status, room, agent, posts, counts>>

-----------------------------------------------------------------------------
(* attendance.set, of the member, by name: match_person looks at the rows,  *)
(* then at the roster.  The model may not mark who is connected as absent.  *)
Named == CASE "sub" \in DOMAIN rows \cup DOMAIN roster -> "sub" [] OTHER -> "name"

SetAttendance(s, human) ==
  /\ status = "running" /\ Member \in ours /\ Request
  /\ LET k == Named
         a == IF k \in DOMAIN rows THEN rows[k] ELSE NewRow
     IN /\ human \/ ~(a.online /\ s \in {"absent", "excused"})
        /\ rows' = With(rows, k, [a EXCEPT !.status = s])
  /\ UNCHANGED <<ours, status, roster, consents, room, agent, posts, asking, blind>>

(* patch_attendee: the chair's word; patch_roster: a member of the series,  *)
(* or no longer one.                                                        *)
PatchAttendee(k, st) ==
  /\ k \in DOMAIN rows /\ Request
  /\ rows' = [rows EXCEPT ![k].status = st]
  /\ UNCHANGED <<ours, status, roster, consents, room, agent, posts, asking, blind>>

PatchRoster(k, active) ==
  /\ k \in DOMAIN roster /\ Request
  /\ roster' = [roster EXCEPT ![k] = active]
  /\ UNCHANGED <<ours, status, rows, consents, room, agent, posts, asking, blind>>

(* import_previous_notes, at any time: the table of an earlier report gives *)
(* a series without a roster its members.                                   *)
Import ==
  /\ Member \in ours /\ Request /\ DOMAIN roster = {}
  /\ Becomes(Expected([Db EXCEPT !.roster = [k \in {"name"} |-> TRUE]]))
  /\ UNCHANGED <<ours, status, consents, room, agent, posts, asking, blind>>

(* start_session: nobody saw who left before.                               *)
Start ==
  /\ status = "setup" /\ status' = "running"
  /\ Becomes(Expected(Db))
  /\ agent' = [on |-> TRUE, present |-> room] /\ posts' = Synced({})
  /\ blind' = (blind \/ \E k \in DOMAIN rows :
       rows[k].online /\ ToSet(rows[k].ids) \cap room = {})
  /\ UNCHANGED <<ours, consents, room, asking, counts>>

(* The end; mark_absentees: who never came was absent.                      *)
MarkAbsentees ==
  /\ status = "running" /\ status' = "finalising"
  /\ LET db == Expected(Db)
     IN rows' = [k \in DOMAIN db.rows |->
          IF db.rows[k].status = "not_registered" /\ ~db.rows[k].joined
          THEN [db.rows[k] EXCEPT !.status = "absent"] ELSE db.rows[k]]
  /\ UNCHANGED <<ours, roster, consents, room, agent, posts, asking, blind, counts>>

Next ==
  \/ \E i \in ours : Join(i) \/ Leave(i)
  \/ AgentLoses \/ AgentReturns \/ AgentRestarts \/ (\E n \in {1, Len(posts)} : Presence(n))
  \/ \E i \in ours, d \in {"accept", "opt_out"} : PostConsent(i, d)
  \/ \E c \in asking : SetConsent(c)
  \/ \E s \in {"absent", "excused"}, h \in BOOLEAN : SetAttendance(s, h)
  \/ \E k \in Keys : PatchAttendee(k, "excused") \/ \E b \in BOOLEAN : PatchRoster(k, b)
  \/ Import \/ Start \/ MarkAbsentees

Spec == Init /\ [][Next]_vars

-----------------------------------------------------------------------------
(* Nobody is two attendees: an identity is of one row, and the member who   *)
(* was known by name is not listed again.                                   *)
OneRowEach ==
  /\ \A k, l \in DOMAIN rows : ToSet(rows[k].ids) \cap ToSet(rows[l].ids) # {} => k = l
  /\ ~{"sub", "name"} \subseteq DOMAIN rows
  /\ ~{"sub", "name"} \subseteq DOMAIN roster

(* When the agent has told all it saw, a row is online if the person's last *)
(* connection is in the room, and only if one of theirs is, unless a        *)
(* leaving went untold.                                                     *)
OnlineFollowsRoom ==
  status = "running" /\ agent.on /\ posts = <<>> /\ asking = {} =>
    /\ \A i \in room : \E k \in DOMAIN rows : i \in ToSet(rows[k].ids)
    /\ \A k \in DOMAIN rows :
         /\ rows[k].ids # <<>> /\ Last(rows[k].ids) \in room => rows[k].online
         /\ rows[k].online /\ ~blind => ToSet(rows[k].ids) \cap room # {}

(* Consent is the person's, whichever row or identity it came by.           *)
OutFollowsConsent ==
  \A k \in DOMAIN rows \cap DOMAIN consents : rows[k].out = (consents[k].decision = "opt_out")

(* The three of them, which one run checks.                                 *)
AttendanceKnown ==
  OneRowEach /\ OnlineFollowsRoom /\ OutFollowsConsent
=============================================================================
