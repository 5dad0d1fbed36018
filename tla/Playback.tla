------------------------------- MODULE Playback -------------------------------
(***************************************************************************)
(* The playlist of one meeting (services/playback_mgr.py, the playlist     *)
(* endpoints of routes/playback.py and the ingress branch of webhooks.py). *)
(* A LiveKit ingress plays one item, or the slide that announces it, or    *)
(* the frame it was paused on; when it ends a webhook starts the next one, *)
(* and a watchdog does when no webhook comes.  A moderator's request, the  *)
(* webhooks and the watchdog run side by side with no lock: each reads the *)
(* meeting's row into its own session, waits for LiveKit, and writes back  *)
(* the columns it has changed (SessionLocal: expire_on_commit=False).      *)
(* LiveKit is modelled from how the code uses it.                          *)
(***************************************************************************)
EXTENDS Naturals, FiniteSets

CONSTANTS
  Items,        \* the videos, numbered from 1: an item is an upload
  Long,         \* those long enough for a slide (over five minutes)
  Ids,          \* ingress ids: one is used again when nothing names it
  HookTasks,    \* background tasks of the webhooks
  Persistent,   \* the room is the public channel's
  Faults,       \* what may go wrong
  MaxSessions,  \* bounds the requests and jobs under way at once
  MaxRequests, MaxFaults   \* bound the requests and the faults

VARIABLES
  row,       \* the playback columns of the meeting
  active,    \* meetings.is_active
  loop,      \* meetings.playback_loop
  pos,       \* the position of each item, Gone when it is not in the list
  upload,    \* the upload under way: its item and the count it has read
  ingress,   \* LiveKit: the state of each ingress
  frozen,    \* those that hold a frame
  hooks,     \* those whose end a webhook is on its way to tell
  task,      \* the request, the webhook tasks and the watchdog
  requests, faults

list == <<loop, pos, upload>>
livekit == <<ingress, frozen, hooks>>
vars == <<row, active, list, livekit, task, requests, faults>>

None == 0
Gone == Cardinality(Items) + 1
Tasks == {"request", "watchdog"} \cup HookTasks
Listed == {i \in Items : pos[i] # Gone}
Running(e) == e # None /\ ingress[e] = "live"

Stopped == [ing |-> None, cur |-> None, pend |-> None, paused |-> FALSE, started |-> FALSE]
Idle == [pc |-> "idle", view |-> Stopped, item |-> None, plays |-> "item", new |-> None, old |-> None,
         then |-> "none"]

Rows == [ing : Ids \cup {None}, cur : Items \cup {None}, pend : Items \cup {None},
         paused : BOOLEAN, started : BOOLEAN]

TypeOK ==
  /\ row \in Rows /\ active \in BOOLEAN
  /\ loop \in BOOLEAN /\ pos \in [Items -> 0..Gone]
  /\ upload \in [item : Items \cup {None}, count : 0..Gone]
  /\ ingress \in [Ids -> {"live", "stuck", "over"}]
  /\ frozen \subseteq Ids /\ hooks \subseteq Ids
  /\ task \in [Tasks -> [pc : {"idle", "deleted", "render", "create", "store", "close"},
                         view : Rows, item : Items \cup {None}, plays : {"item", "slide", "freeze"},
                         new : Ids \cup {None}, old : Ids \cup {None},
                         then : {"none", "stop", "close", "pause", "resume", "seek", "play",
                                 "item", "pending", "refreeze"}]]
  /\ requests \in 0..MaxRequests /\ faults \in 0..MaxFaults

(* The row at rest: stopped, playing an item, or paused at it.              *)
Resting(i) ==
  LET playing == [Stopped EXCEPT !.ing = 1, !.cur = i, !.started = TRUE]
  IN {Stopped, playing, [playing EXCEPT !.paused = TRUE, !.started = FALSE]}

Init ==
  /\ active = TRUE
  /\ \E n \in Items :   \* a list of one ends, a longer one goes round
       pos = [i \in Items |-> IF i <= n THEN i - 1 ELSE Gone] /\ loop = (n > 1)
  /\ row \in Resting(1)
  /\ upload = [item |-> None, count |-> 0]
  /\ ingress = [e \in Ids |-> IF row.ing = e THEN "live" ELSE "over"]
  /\ frozen = {e \in Ids : row.ing = e /\ row.paused}
  /\ hooks = {}
  /\ task = [t \in Tasks |-> Idle]
  /\ requests = 0 /\ faults = 0

(* A request, a webhook's task or the watchdog's round may begin. *)
Begins(t) ==
  /\ task[t] = Idle
  /\ Cardinality({u \in Tasks : task[u] # Idle}) < MaxSessions

-----------------------------------------------------------------------------
(* The row as a session commits it: the columns that differ from what the  *)
(* session has read; the others keep what another session wrote meanwhile. *)
Commit(view, new) ==
  row' = [c \in DOMAIN row |-> IF new[c] # view[c] \/ (c = "started" /\ new[c]) THEN new[c] ELSE row[c]]

(* An id that nothing names any more is as good as a new one.               *)
Named(e) == row.ing = e \/ \E t \in Tasks : e \in {task[t].new, task[t].old}
Free(e) == ~Running(e) /\ ~Named(e)

(* What no row and no session will name again matters only while it plays.  *)
Kept == {e \in Ids : row.ing = e \/ \E t \in Tasks : task[t].new = e}
Forget ==
  /\ ingress' = [e \in Ids |-> IF Running(e) \/ e \in Kept' THEN ingress[e] ELSE "over"]
  /\ hooks' = hooks \cap Kept' /\ frozen' = frozen \cap Kept'

(* delete_ingress: what still runs is ended, and says so.                   *)
Deleted(e) ==
  /\ ingress' = IF e = None THEN ingress ELSE [ingress EXCEPT ![e] = "over"]
  /\ hooks' = hooks \cup {d \in {e} : Running(d)}
  /\ UNCHANGED frozen

(* The first of a set of items by position. *)
Nearest(S) == CHOOSE j \in S : \A k \in S : pos[j] < pos[k] \/ (pos[j] = pos[k] /\ j <= k)
First == IF Listed = {} THEN None ELSE Nearest(Listed)
After(i) == {j \in Listed : pos[j] > pos[i]}

(* The item after i by position; round again when the list loops.           *)
NextItem(i) ==
  IF i \in Listed /\ After(i) # {} THEN Nearest(After(i)) ELSE IF loop THEN First ELSE None

-----------------------------------------------------------------------------
(* _start_ingress_for_item: the slide is rendered, the ingress created, the *)
(* old one deleted, and only then is the row written.                       *)
Begin(t, view, i, then, slide) ==
  task' = [task EXCEPT ![t] = [Idle EXCEPT !.pc = IF slide /\ i \in Long THEN "render" ELSE "create",
                               !.view = view, !.item = i, !.old = view.ing, !.then = then]]

Render(t) ==
  /\ task[t].pc = "render"
  /\ \E ok \in BOOLEAN :   \* when it fails the item is played at once
       task' = [task EXCEPT ![t].pc = "create", ![t].plays = IF ok THEN "slide" ELSE "item"]
  /\ UNCHANGED <<row, active, list, livekit, requests, faults>>

(* LiveKit has created the new ingress and ended the old one, which says so. *)
Create(t) ==
  /\ task[t].pc = "create"
  /\ \E e \in Ids :
       /\ Free(e) /\ e # task[t].view.ing
       /\ \A d \in Ids : Free(d) => e <= d \/ d = task[t].view.ing
       /\ ingress' = [d \in Ids |-> IF d = e THEN "live" ELSE IF d = task[t].old THEN "over" ELSE ingress[d]]
       /\ frozen' = IF task[t].plays = "freeze" THEN frozen \cup {e} ELSE frozen
       /\ hooks' = hooks \cup {d \in {row.ing} \cap {task[t].old} : Running(d)}
       /\ task' = [task EXCEPT ![t].pc = "store", ![t].new = e, ![t].old = None]
  /\ UNCHANGED <<row, active, list, requests, faults>>

(* The new ingress goes into the row: of an item, or of the frozen frame.   *)
Store(t) ==
  /\ task[t].pc = "store"
  /\ Commit(task[t].view,
       IF task[t].then \in {"item", "pending"}
       THEN [task[t].view EXCEPT !.ing = task[t].new, !.cur = task[t].item, !.started = TRUE,
               !.pend = IF task[t].plays = "slide" THEN task[t].item ELSE None]
       ELSE IF task[t].then = "pause"
       THEN [task[t].view EXCEPT !.ing = task[t].new, !.paused = TRUE, !.started = FALSE]
       ELSE [task[t].view EXCEPT !.ing = task[t].new])
  /\ task' = [task EXCEPT ![t] = Idle]
  /\ Forget
  /\ UNCHANGED <<active, list, requests, faults>>

-----------------------------------------------------------------------------
(* One of the things that may go wrong. *)
Fault(f) ==
  /\ f \in Faults /\ faults < MaxFaults
  /\ faults' = faults + 1

(* The moderator's requests, one at a time.                                 *)
Request ==
  /\ Begins("request")
  /\ requests < MaxRequests
  /\ requests' = requests + 1
  /\ UNCHANGED <<row, faults>>

Start ==
  /\ Request /\ active
  /\ row.ing = None /\ First # None
  /\ Begin("request", row, First, "item", TRUE)
  /\ UNCHANGED <<active, list, livekit>>

(* What deletes the ingress that plays before it goes on.                   *)
Interrupt(t, then, i) ==
  /\ Deleted(row.ing)
  /\ task' = [task EXCEPT ![t] = [Idle EXCEPT !.pc = "deleted", !.view = row, !.item = i, !.then = then]]
  /\ UNCHANGED list

Stop == Request /\ row.ing # None /\ Interrupt("request", "stop", None) /\ UNCHANGED active

Pause ==
  /\ Request
  /\ row.ing # None /\ ~row.paused /\ row.started /\ row.cur \in Listed
  /\ Interrupt("request", "pause", row.cur)
  /\ UNCHANGED active

Resume ==
  /\ Request
  /\ row.paused /\ row.cur \in Listed
  /\ Interrupt("request", "resume", row.cur)
  /\ UNCHANGED active

Seek ==
  /\ Request
  /\ row.ing # None /\ row.cur \in Listed
  /\ Interrupt("request", "seek", row.cur)
  /\ UNCHANGED active

PlayItem(i) ==
  /\ Request /\ active /\ i \in Listed
  /\ IF row.ing # None THEN Interrupt("request", "play", i)
     ELSE Begin("request", row, i, "item", TRUE) /\ UNCHANGED <<list, livekit>>
  /\ UNCHANGED active

(* The meeting is closed: its playback is stopped before its room goes.     *)
Close ==
  /\ Request /\ active
  /\ IF row.ing # None THEN Interrupt("request", "close", None)
     ELSE task' = [task EXCEPT !["request"].pc = "close"] /\ UNCHANGED <<list, livekit>>
  /\ UNCHANGED active

CloseRoom ==
  /\ task["request"].pc = "close"
  /\ active' = FALSE
  /\ task' = [task EXCEPT !["request"] = Idle]
  /\ UNCHANGED <<row, list, livekit, requests, faults>>

(* What is committed once the old ingress is deleted.  A pause creates its  *)
(* frozen frame first; resume and seek show no slide.                       *)
Interrupted(t) ==
  LET r == task[t]
      new == CASE r.then = "resume" -> [r.view EXCEPT !.ing = None, !.paused = FALSE]
               [] r.then = "seek" -> [r.view EXCEPT !.ing = None, !.started = FALSE]
               [] OTHER -> Stopped
  IN /\ r.pc = "deleted"
     /\ IF r.then = "pause"
        THEN /\ task' = [task EXCEPT ![t].pc = "create", ![t].plays = "freeze"]
             /\ UNCHANGED row
        ELSE /\ Commit(r.view, new)
             /\ IF r.then \in {"stop", "close"}
                THEN task' = [task EXCEPT ![t] = [Idle EXCEPT !.pc = IF r.then = "stop" THEN "idle" ELSE "close"]]
                ELSE Begin(t, new, r.item, "item", r.then = "play")
     /\ Forget
     /\ UNCHANGED <<active, list, requests, faults>>

-----------------------------------------------------------------------------
(* advance_after_ingress_ended, with what the session has read of the row:  *)
(* a frozen frame is frozen again, a slide is followed by its item, an item *)
(* by the next one; after the last one the playback ends.                   *)
GoOn(t, view) ==
  LET next == NextItem(view.cur)
  IN IF next # None
     THEN Begin(t, view, next, "item", TRUE) /\ UNCHANGED row
     ELSE /\ Commit(view, [view EXCEPT !.ing = None, !.cur = None, !.started = FALSE, !.paused = FALSE])
          /\ task' = [task EXCEPT ![t] = Idle]

Advance(t, view) ==
  IF view.paused
  THEN /\ Commit(view, [view EXCEPT !.ing = None, !.paused = view.cur \in Listed,
                                    !.cur = IF view.cur \in Listed THEN view.cur ELSE None])
       /\ task' = [task EXCEPT ![t] = IF view.cur \in Listed
            THEN [Idle EXCEPT !.pc = "create", !.view = [view EXCEPT !.ing = None], !.item = view.cur,
                              !.plays = "freeze", !.old = view.ing, !.then = "refreeze"]
            ELSE Idle]
  ELSE IF view.pend \in Listed
  THEN Begin(t, view, view.pend, "pending", FALSE) /\ UNCHANGED row
  ELSE GoOn(t, view)

(* Another session has read the same ingress and not yet written what it    *)
(* puts in its place: a webhook overtakes it MaxFaults times at most, and   *)
(* the watchdog, which lets an ingress run for 25 seconds first, does not.  *)
InHand(e) == \E t \in Tasks : task[t].pc # "idle" /\ task[t].view.ing = e

(* The row must still name the ingress: an event about another is dropped.  *)
Hook(t, e) ==
  /\ Begins(t) /\ e \in hooks
  /\ IF row.ing = e
     THEN Advance(t, row) /\ IF InHand(e) THEN Fault("race") ELSE UNCHANGED faults
     ELSE UNCHANGED <<row, task, faults>>
  /\ hooks' = hooks \ {e}
  /\ UNCHANGED <<active, list, ingress, frozen, requests>>

(* room_finished closes the meeting and stops its playback, but not that of *)
(* the public channel.                                                      *)
RoomFinished(t) ==
  /\ Begins(t) /\ active /\ requests < MaxRequests
  /\ requests' = requests + 1
  /\ active' = FALSE
  /\ IF row.ing # None /\ ~Persistent THEN Interrupt(t, "stop", None)
     ELSE UNCHANGED <<list, livekit, task>>
  /\ UNCHANGED <<row, faults>>

(* Mutant: the watchdog recovers whatever plays.                            *)
NothingKept == FALSE
KeptAlive == ~active /\ ~Persistent

(* Mutant: what looks healthy is believed.                                  *)
StaleByList(e) == ingress[e] = "over"

(* Not publishing; or it looks healthy but has overrun its duration, or no  *)
(* playback participant is in the room.                                     *)
Stale(e) ==
  \/ ingress[e] = "over"
  \/ ingress[e] = "stuck" /\ (row.started \/ \A d \in Ids : ~Running(d))

(* The watchdog stops the playback of a closed meeting; elsewhere it asks   *)
(* LiveKit about the ingress and advances from a stale one.  Every commit   *)
(* names another ingress: while the row names this one, what the watchdog   *)
(* has read of it holds.                                                    *)
Watch ==
  /\ Begins("watchdog") /\ row.ing # None /\ ~InHand(row.ing)
  /\ IF KeptAlive
     THEN Interrupt("watchdog", "stop", None) /\ UNCHANGED row
     ELSE Stale(row.ing) /\ Advance("watchdog", row) /\ UNCHANGED <<list, livekit>>
  /\ UNCHANGED <<active, requests, faults>>

-----------------------------------------------------------------------------
(* The playlist.  An upload reads its position before the file comes in and *)
(* uses it after; positions close up behind an item that is deleted.  Bound:*)
(* nothing else changes the list meanwhile (two uploads, or an upload and a *)
(* deletion, can give two items one position).                              *)
Alone == upload.item = None

BeginUpload(i) ==
  /\ Request /\ Alone /\ pos[i] = Gone
  /\ upload' = [item |-> i, count |-> Cardinality(Listed)]
  /\ UNCHANGED <<active, loop, pos, livekit, task>>

EndUpload ==
  /\ upload.item # None
  /\ pos' = [pos EXCEPT ![upload.item] = upload.count]
  /\ upload' = [item |-> None, count |-> 0]
  /\ UNCHANGED <<row, active, loop, livekit, task, requests, faults>>

(* A link to a file that is there already takes the next position at once.  *)
Link(i) ==
  /\ Request /\ Alone /\ pos[i] = Gone /\ Listed # {}
  /\ pos' = [pos EXCEPT ![i] = Cardinality(Listed)]
  /\ UNCHANGED <<active, loop, upload, livekit, task>>

DeleteItem(i) ==
  /\ Request /\ Alone /\ i \in Listed /\ row.cur # i
  /\ pos' = [j \in Items |-> IF j = i THEN Gone ELSE IF j \in After(i) THEN pos[j] - 1 ELSE pos[j]]
  /\ UNCHANGED <<active, loop, upload, livekit, task>>

Reorder ==
  /\ Request /\ Alone
  /\ \E p \in [Listed -> 0..Cardinality(Listed) - 1] :
       /\ \A i, j \in Listed : i # j => p[i] # p[j]
       /\ pos' = [i \in Items |-> IF i \in Listed THEN p[i] ELSE Gone]
  /\ pos' # pos
  /\ UNCHANGED <<active, loop, upload, livekit, task>>

-----------------------------------------------------------------------------
(* LiveKit: an ingress comes to its end, which it tells by a webhook.       *)
Over(e) ==
  /\ Running(e)
  /\ ingress' = [ingress EXCEPT ![e] = "over"]
  /\ UNCHANGED <<row, active, list, frozen, task, requests>>

(* It plays until the session that has created it is done, or fails at once.*)
Ends(e) ==
  /\ Over(e)
  /\ hooks' = hooks \cup ({e} \cap Kept)
  /\ IF \E t \in Tasks : task[t].new = e THEN Fault("race") ELSE UNCHANGED faults

WebhookLost(e) == Fault("lost") /\ Over(e) /\ UNCHANGED hooks

(* Its handler dies and LiveKit goes on saying that it publishes.           *)
Dies(e) ==
  /\ Fault("dies") /\ Running(e)
  /\ ingress' = [ingress EXCEPT ![e] = "stuck"]
  /\ UNCHANGED <<row, active, list, frozen, hooks, task, requests>>

(* LiveKit refuses an ingress: a slide's item is given up for the next one, *)
(* anything else ends with the error and what was committed before stands.  *)
CreateFails(t) ==
  /\ Fault("create") /\ task[t].pc = "create"
  /\ IF task[t].then = "pending"
     THEN GoOn(t, task[t].view)
     ELSE task' = [task EXCEPT ![t] = Idle] /\ UNCHANGED row
  /\ UNCHANGED <<active, list, livekit, requests>>

Asks ==
  \/ Start \/ Stop \/ Pause \/ Resume \/ Seek \/ Close \/ Reorder
  \/ \E i \in Items : PlayItem(i) \/ BeginUpload(i) \/ Link(i) \/ DeleteItem(i)

Proceeds(t) == Interrupted(t) \/ Render(t) \/ Create(t) \/ Store(t)

Delivers == \E t \in HookTasks, e \in Ids : Hook(t, e)

Next ==
  \/ Asks \/ CloseRoom \/ EndUpload \/ Delivers \/ Watch
  \/ \E t \in HookTasks : RoomFinished(t)
  \/ \E t \in Tasks : Proceeds(t) \/ CreateFails(t)
  \/ \E e \in Ids : Ends(e) \/ WebhookLost(e) \/ Dies(e)

Spec == Init /\ [][Next]_vars

(* LiveKit answers, plays what it is given to its end and delivers what it  *)
(* does not lose; the watchdog runs again and again.                        *)
Fairness ==
  /\ \A t \in Tasks : WF_vars(Proceeds(t))
  /\ WF_vars(Delivers /\ UNCHANGED faults)
  /\ SF_vars(Watch)
  /\ \A e \in Ids : WF_vars(Ends(e) /\ UNCHANGED faults)

FairSpec == Spec /\ Fairness

-----------------------------------------------------------------------------
(* "Without this, the playlist stalls silently on the dead ingress"         *)
(* (scheduler.py): whatever fails, dies or is told twice, a playlist that   *)
(* loops and is neither stopped nor paused comes to each of its items again.*)
ComesOrStops(i) == row.cur = i \/ i \notin Listed \/ ~loop \/ row.ing = None \/ row.paused
EveryItemComes == \A i \in Items : []<>ComesOrStops(i)

(* "A CLOSED meeting must never keep playback alive" (playback_mgr.py):     *)
(* once it is closed, whatever was on its way, nothing plays in the end.    *)
PlaysOnlyWhileOpen == Persistent \/ active \/ (row.ing = None /\ \A e \in Ids : ~Running(e))
ClosedStaysSilent == <>[]PlaysOnlyWhileOpen
=============================================================================
