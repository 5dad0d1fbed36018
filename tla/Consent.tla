------------------------------ MODULE Consent ------------------------------
(***************************************************************************)
(* Who the speech agent listens to.                                        *)
(*                                                                         *)
(* The consent of each person is a row of the database (meetpp_consents).  *)
(* The agent holds a copy of its own: the list of accepted identities and  *)
(* the pause flag it was last sent.  Three senders push that copy, all of  *)
(* them best-effort and without a retry: the handler of a consent request, *)
(* the handler of pause and resume, and the session runner's reconcile     *)
(* round of every 20 seconds.  Each takes its snapshot and awaits something*)
(* before the snapshot reaches the agent, so snapshots overtake each other.*)
(* Speech is judged twice: the agent hears only the people of its list, and*)
(* ingest stores only what belongs to a person whose row says "accept" when*)
(* the segment arrives.                                                    *)
(*                                                                         *)
(* A person stands for one identity in the room.  Speech stays in the      *)
(* agent while it is transcribed and posted; its text is not modelled.     *)
(***************************************************************************)
EXTENDS Naturals, FiniteSets

CONSTANTS
  People,     \* participants that may be asked
  Calls,      \* HTTP requests that may be in flight at one time
  Changes,    \* bound: consent, pause and resume requests
  Losses,     \* bound: requests to the agent that fail
  Crashes,    \* bound: restarts of the agent, which forgets its sessions
  Talk        \* bound: utterances

ASSUME BoundsAssumption == {Changes, Losses, Crashes, Talk} \subseteq Nat

VARIABLES
  status,     \* MeetppSession.status
  consent,    \* MeetppConsent.decision of each person, "none" without a row
  agent,      \* the agent's session: state, accepted list, pause flag
  call,       \* the request handlers: where each is, and what it holds
  round,      \* SessionRunner.reconcile_agent: where it is, and what it holds
  started,    \* SessionRunner._agent_started
  speech,     \* utterances the agent heard and has not delivered yet
  rows,       \* stored segments
  ever,       \* history: who has ever accepted
  left        \* what is left of the bounds

vars == <<status, consent, agent, call, round, started, speech, rows, ever, left>>

Active == {"running", "paused"}
Decisions == {"accept", "opt_out"}
PauseFlags == {"keep", "pause", "resume"}     \* the `paused` of a PATCH, if it has one

Utterances == [who : People, under : Decisions \cup {"none"}]
Handlers == [pc : {"idle", "publish", "patch"}, own : SUBSET People, list : SUBSET People,
             flag : PauseFlags, tell : BOOLEAN]
Rounds == [pc : {"idle", "health", "patch", "start"}, list : SUBSET People, paused : BOOLEAN]
Agents == [state : {"off", "capturing", "draining"}, accepted : SUBSET People, paused : BOOLEAN]
Bounds == [changes : 0 .. Changes, losses : 0 .. Losses, crashes : 0 .. Crashes, talk : 0 .. Talk]

Gone == [state |-> "off", accepted |-> {}, paused |-> FALSE]

\* Types; and a session the agent does not run holds no list and no flag.
TypeOK ==
  /\ status \in {"setup", "running", "paused", "finalising"}
  /\ consent \in [People -> Decisions \cup {"none"}]
  /\ agent \in Agents
  /\ agent.state = "off" => agent = Gone
  /\ call \in [Calls -> Handlers]
  /\ round \in Rounds
  /\ started \in BOOLEAN
  /\ speech \subseteq Utterances
  /\ rows \subseteq Utterances
  /\ ever \subseteq People
  /\ left \in Bounds

----------------------------------------------------------------------------
\* accepted_identities is default-deny: only an explicit "accept" row counts.
Accepting == {p \in People : consent[p] = "accept"}

NoCall == [pc |-> "idle", own |-> {}, list |-> {}, flag |-> "keep", tell |-> FALSE]
NoRound == [pc |-> "idle", list |-> {}, paused |-> FALSE]

Spend(what) == /\ left[what] > 0
               /\ left' = [left EXCEPT ![what] = @ - 1]

Init ==
  /\ status = "setup"
  /\ consent = [p \in People |-> "none"]
  /\ agent = Gone
  /\ call = [k \in Calls |-> NoCall]
  /\ round = NoRound
  /\ started = FALSE
  /\ speech = {} /\ rows = {} /\ ever = {}
  /\ left = [changes |-> Changes, losses |-> Losses, crashes |-> Crashes, talk |-> Talk]

----------------------------------------------------------------------------
(* Requests.  The row is committed before the first await (the broadcast);  *)
(* the list is read after it, but the session keeps its objects over the    *)
(* commit (expire_on_commit=False), so a handler sees the row it wrote      *)
(* itself as it wrote it.                                                   *)

SetConsent(k, p, d) ==
  /\ call[k].pc = "idle"
  /\ status \in {"setup"} \cup Active
  /\ Spend("changes")
  /\ consent' = [consent EXCEPT ![p] = d]
  /\ ever' = IF d = "accept" THEN ever \cup {p} ELSE ever
  /\ call' = [call EXCEPT ![k] =
       [pc |-> "publish", own |-> {p}, list |-> IF d = "accept" THEN {p} ELSE {},
        flag |-> "keep", tell |-> status \in Active]]
  /\ UNCHANGED <<status, agent, round, started, speech, rows>>

\* pause_session: a request that changes nothing is published and sent as well.
PauseSession(k, flag) ==
  /\ call[k].pc = "idle"
  /\ status \in Active
  /\ Spend("changes")
  /\ status' = IF flag = "pause" THEN "paused" ELSE "running"
  /\ call' = [call EXCEPT ![k] =
       [pc |-> "publish", own |-> {}, list |-> {}, flag |-> flag, tell |-> TRUE]]
  /\ UNCHANGED <<consent, agent, round, started, speech, rows, ever>>

\* The broadcast is out: the list is read and sent, unless the session was
\* not active when the request came in.
Published(k) ==
  /\ call[k].pc = "publish"
  /\ call' = [call EXCEPT ![k] =
       IF call[k].tell
       THEN [call[k] EXCEPT !.pc = "patch",
                            !.list = (Accepting \ call[k].own) \cup call[k].list]
       ELSE NoCall]
  /\ UNCHANGED <<status, consent, agent, round, started, speech, rows, ever, left>>

\* patch_session of the agent; without the session it answers 404.
ToldAnyway(list, flag) ==
  [agent EXCEPT !.accepted = list,
                !.paused = IF flag = "keep" THEN @ ELSE flag = "pause"]

Told(list, flag) ==
  IF agent.state = "off" THEN agent
  ELSE [agent EXCEPT !.accepted = list,
                     !.paused = IF flag = "keep" THEN @ ELSE flag = "pause"]

Patched(k) ==
  /\ call[k].pc = "patch"
  /\ \/ /\ agent' = Told(call[k].list, call[k].flag)
        /\ UNCHANGED left
     \/ /\ Spend("losses")
        /\ UNCHANGED agent
  /\ call' = [call EXCEPT ![k] = NoCall]
  /\ UNCHANGED <<status, consent, round, started, speech, rows, ever>>

----------------------------------------------------------------------------
(* The session.                                                             *)

StartSession ==
  /\ status = "setup"
  /\ status' = "running"
  /\ UNCHANGED <<consent, agent, call, round, started, speech, rows, ever, left>>

EndSession ==
  /\ status \in Active
  /\ status' = "finalising"
  /\ UNCHANGED <<consent, agent, call, round, started, speech, rows, ever, left>>

\* run_finalisation asks the agent to stop capturing; its queue still drains.
Finalize ==
  /\ status = "finalising"
  /\ round.pc = "idle"
  /\ agent.state = "capturing"
  /\ agent' = [agent EXCEPT !.state = "draining"]
  /\ UNCHANGED <<status, consent, call, round, started, speech, rows, ever, left>>

----------------------------------------------------------------------------
(* reconcile_agent, one round at a time: the list and the pause flag are    *)
(* read, the agent's health is awaited, and what was read before is sent.   *)

RoundReadsOnce ==
  /\ round.pc = "idle" /\ status \in Active /\ ~started
  /\ round' = [pc |-> "health", list |-> Accepting, paused |-> status = "paused"]
  /\ UNCHANGED <<status, consent, agent, call, started, speech, rows, ever, left>>

RoundReads ==
  /\ round.pc = "idle" /\ status \in Active
  /\ round' = [pc |-> "health", list |-> Accepting, paused |-> status = "paused"]
  /\ UNCHANGED <<status, consent, agent, call, started, speech, rows, ever, left>>

\* A health request that fails looks like an agent without the session.
RoundLooks ==
  /\ round.pc = "health"
  /\ \/ /\ round' = [round EXCEPT !.pc = IF agent.state = "off" THEN "start" ELSE "patch"]
        /\ UNCHANGED left
     \/ /\ Spend("losses")
        /\ round' = [round EXCEPT !.pc = "start"]
  /\ UNCHANGED <<status, consent, agent, call, started, speech, rows, ever>>

\* A session the agent already runs is left as it is (409, counted as success).
RoundStarts ==
  /\ round.pc = "start"
  /\ \/ /\ agent' = IF agent.state = "off"
                    THEN [state |-> "capturing", accepted |-> round.list, paused |-> round.paused]
                    ELSE agent
        /\ started' = TRUE
        /\ UNCHANGED left
     \/ /\ Spend("losses")
        /\ UNCHANGED <<agent, started>>
  /\ round' = NoRound
  /\ UNCHANGED <<status, consent, call, speech, rows, ever>>

RoundPatches ==
  /\ round.pc = "patch"
  /\ \/ /\ agent' = Told(round.list, IF round.paused THEN "pause" ELSE "resume")
        /\ started' = (started \/ agent.state # "off")
        /\ UNCHANGED left
     \/ /\ Spend("losses")
        /\ UNCHANGED <<agent, started>>
  /\ round' = NoRound
  /\ UNCHANGED <<status, consent, call, speech, rows, ever>>

----------------------------------------------------------------------------
(* Speech.                                                                  *)

Hear(p) ==
  /\ agent.state = "capturing" /\ ~agent.paused /\ p \in agent.accepted
  /\ Spend("talk")
  /\ speech' = speech \cup {[who |-> p, under |-> consent[p]]}
  /\ UNCHANGED <<status, consent, agent, call, round, started, rows, ever>>

\* ingest: the consent that counts is the one of the moment of arrival.
IngestUnchecked(u) ==
  /\ u \in speech
  /\ speech' = speech \ {u}
  /\ rows' = IF status \in Active \cup {"finalising"} THEN rows \cup {u} ELSE rows
  /\ UNCHANGED <<status, consent, agent, call, round, started, ever, left>>

Ingest(u) ==
  /\ u \in speech
  /\ speech' = speech \ {u}
  /\ rows' = IF status \in Active \cup {"finalising"} /\ consent[u.who] = "accept"
             THEN rows \cup {u} ELSE rows
  /\ UNCHANGED <<status, consent, agent, call, round, started, ever, left>>

\* The agent's process restarts: its sessions and what they had heard are gone.
AgentCrashes ==
  /\ agent.state # "off"
  /\ Spend("crashes")
  /\ agent' = Gone
  /\ speech' = {}
  /\ UNCHANGED <<status, consent, call, round, started, rows, ever>>

----------------------------------------------------------------------------
Runner == RoundReads \/ RoundLooks \/ RoundStarts \/ RoundPatches

Next ==
  \/ \E k \in Calls, p \in People, d \in Decisions : SetConsent(k, p, d)
  \/ \E k \in Calls, flag \in PauseFlags \ {"keep"} : PauseSession(k, flag)
  \/ \E k \in Calls : Published(k) \/ Patched(k)
  \/ StartSession \/ EndSession \/ Finalize
  \/ Runner
  \/ \E p \in People : Hear(p)
  \/ \E u \in speech : Ingest(u)
  \/ AgentCrashes

Spec == Init /\ [][Next]_vars

\* Requests get their answers or time out, and the runner's loop goes round.
FairSpec == Spec /\ WF_vars(Runner) /\ \A k \in Calls : WF_vars(Published(k) \/ Patched(k))

----------------------------------------------------------------------------
(* Properties.                                                              *)

\* Default-deny end to end: nobody is heard, waits for delivery or has a
\* stored segment who has not accepted at some time, whatever lists are on
\* their way and however often the agent restarts.
DefaultDeny == agent.accepted \cup {u.who : u \in speech \cup rows} \subseteq ever

StoredOf(p) == {u \in rows : u.who = p}

\* An opt-out is the last word on storage: from its commit until the person
\* accepts again nothing of theirs is stored, however much of it the agent
\* had heard before or hears until the new list reaches it (ingest).
OptOutStands == [][\A p \in People : consent[p] # "accept" => StoredOf(p)' = StoredOf(p)]_vars

\* A lost request, a stale list and a restart of the agent are all repaired:
\* while the session lasts the agent ends up listening to exactly the people
\* who accept, and pausing exactly when the session does.
Agrees == agent = [state |-> "capturing", accepted |-> Accepting, paused |-> status = "paused"]
AgentFollows == <>[](status \in Active) => <>[]Agrees
=============================================================================
