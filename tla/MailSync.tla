------------------------------- MODULE MailSync -------------------------------
(***************************************************************************)
(* The sittings of one room prepared from One Voice Mail                   *)
(* (meetpp/external.py), the life of their sessions (meetpp/routes.py and  *)
(* runtime.py) and the publication of the report (meetpp/invites.py).  Of  *)
(* what Mail lists two items are followed: a decision of the sitting and   *)
(* an action of the series, which passes from one sitting to the next.     *)
(* Mail is modelled from what it sends and asks for; the events that tell  *)
(* it of a status (services/mail_webhook.py), which may be late, lost or   *)
(* out of order, only decide when it asks.                                 *)
(***************************************************************************)
EXTENDS Naturals, FiniteSets

CONSTANTS
  Sittings,    \* Mail's occurrences, all of one series
  Own,         \* sessions the room creates by itself, of that series too
  MaxSyncs, MaxEdits   \* bound Mail's pushes and the room's own requests

VARIABLES
  status,      \* sessions.status of each sitting
  decision,    \* the decision Mail lists, at each sitting
  action,      \* the action, one row of the series: its status, the sitting it was
               \* made at, those that reported on it, those that were over before
  hidden,      \* the sittings whose left_action_ids hold it
  publishing,  \* the sittings whose report is being published
  mail,        \* what Mail holds: the action's status, the outcomes it has taken
  counts       \* what has been used of each bound

vars == <<status, decision, action, hidden, publishing, mail, counts>>

ACTIVE == {"running", "paused"}
BUSY_STATUSES == ACTIVE \cup {"finalising"}
LIVE_STATUSES == BUSY_STATUSES \cup {"setup"}
CLOSED_STATUSES == {"finalising", "review", "published", "aborted"}
Sessions == Sittings \cup Own
Statuses == LIVE_STATUSES \cup CLOSED_STATUSES \cup {"none"}

Absent == [status |-> "absent", locked |-> FALSE]
NoAction == [status |-> "absent", locked |-> FALSE, home |-> {}, reports |-> {}, later |-> {}]

TypeOK ==
  /\ status \in [Sessions -> Statuses]
  /\ decision \in [Sessions -> [status : {"absent", "pending", "adopted"}, locked : BOOLEAN]]
  /\ action \in [status : {"absent", "open", "done"}, locked : BOOLEAN,
                 home : SUBSET Sessions, reports : SUBSET Sessions, later : SUBSET Sessions]
  /\ hidden \subseteq Sessions
  /\ publishing \subseteq Sessions
  /\ mail \in [action : {"open", "done"}, took : SUBSET Sessions]
  /\ counts \in [syncs : 0..MaxSyncs, edits : 0..MaxEdits]

Init ==
  /\ status = [s \in Sessions |-> "none"]
  /\ decision = [s \in Sessions |-> Absent]
  /\ action = NoAction /\ hidden = {}
  /\ publishing = {}
  /\ mail = [action |-> "open", took |-> {}]
  /\ counts = [syncs |-> 0, edits |-> 0]

Use(what, max) == counts[what] < max /\ counts' = [counts EXCEPT ![what] = @ + 1]

-----------------------------------------------------------------------------
Becomes(s, new) == status' = [status EXCEPT ![s] = new]

(* Mutant: only the sitting that raised the action is looked at.            *)
PendingAtHome == \E u \in action.home : status[u] \in BUSY_STATUSES \cup {"review"}

(* _outcome_pending: raised or reported on at a sitting that is not over.   *)
OutcomePending ==
  \E u \in action.home \cup action.reports : status[u] \in BUSY_STATUSES \cup {"review"}

(* Decisions of a push.  In setup they follow Mail, and go when it no       *)
(* longer lists them; live they are only added, or reworded while pending.  *)
SyncedDecision(d, setup, listed, wanted) ==
  IF d.status = "absent" THEN IF listed THEN [status |-> wanted, locked |-> FALSE] ELSE d
  ELSE IF d.locked \/ ~setup THEN d
  ELSE IF listed THEN [d EXCEPT !.status = wanted] ELSE Absent

(* The action: nothing done is imported, an edited one is left alone; in    *)
(* setup its status follows Mail's unless its outcome is pending.           *)
SyncedAction(s, a, setup, listed) ==
  IF listed
  THEN IF a.status = "absent"
       THEN IF mail.action = "open" THEN [NoAction EXCEPT !.status = "open", !.home = {s},
                     !.later = {u \in Sessions : status[u] \in CLOSED_STATUSES}] ELSE a
       ELSE IF a.locked \/ ~setup \/ OutcomePending THEN a ELSE [a EXCEPT !.status = mail.action]
  ELSE IF setup /\ a.status = "open" /\ a.home = {s} /\ a.reports = {} THEN NoAction ELSE a

(* Open ones that are no longer listed are hidden, and come back if they are. *)
SyncedHidden(s, a, setup, listed) ==
  IF a.status = "absent" THEN hidden
  ELSE IF listed THEN hidden \ {s}
  ELSE IF setup /\ a.status = "open" THEN hidden \cup {s} ELSE hidden

(* Sessions that were never started go with the rows that are theirs.       *)
Without(dropped) ==
  LET gone == action.home # {} /\ action.home \subseteq dropped
  IN IF gone THEN NoAction ELSE [action EXCEPT !.reports = @ \ dropped]

Replaced(s) == {u \in Sessions \ {s} : status[u] = "setup"}

(* sync: one sitting as Mail has it now, its lists and their statuses.      *)
Sync(s) ==
  /\ Use("syncs", MaxSyncs)
  /\ status[s] \notin CLOSED_STATUSES
  /\ \A u \in Sessions \ {s} : status[u] \notin BUSY_STATUSES
  /\ LET dropped == Replaced(s)
         setup == status[s] \in {"none", "setup"}
         a == Without(dropped)
     IN \E listsDecision, listsAction \in BOOLEAN, wanted \in {"pending", "adopted"} :
          /\ status' = [u \in Sessions |-> IF u \in dropped THEN "none"
                                           ELSE IF u = s /\ setup THEN "setup" ELSE status[u]]
          /\ decision' = [u \in Sessions |-> IF u \in dropped THEN Absent
                            ELSE IF u = s THEN SyncedDecision(decision[s], setup, listsDecision, wanted)
                            ELSE decision[u]]
          /\ action' = SyncedAction(s, a, setup, listsAction)
          /\ hidden' = IF action'.status = "absent" THEN {}
                       ELSE SyncedHidden(s, a, setup, listsAction) \ dropped
  /\ UNCHANGED <<publishing, mail>>

-----------------------------------------------------------------------------
(* The room's own steps.  A session is created only when none is live.      *)
Create(s) ==
  /\ Use("edits", MaxEdits)
  /\ status[s] = "none" /\ \A u \in Sessions : status[u] \notin LIVE_STATUSES
  /\ status' = [status EXCEPT ![s] = "setup"]
  /\ UNCHANGED <<decision, action, hidden, publishing, mail>>

Moves(s, from, to) ==
  /\ status[s] \in from
  /\ Becomes(s, to)
  /\ UNCHANGED <<decision, action, hidden, publishing, mail, counts>>

Start(s) == Moves(s, {"setup"}, "running")
End(s) == Moves(s, ACTIVE, "finalising")
Finalised(s) == Moves(s, {"finalising"}, "review")

Pause(s) ==
  /\ Use("edits", MaxEdits)
  /\ \/ status[s] = "running" /\ Becomes(s, "paused")
     \/ status[s] = "paused" /\ Becomes(s, "running")
  /\ UNCHANGED <<decision, action, hidden, publishing, mail>>

(* The administrator ends a session that was never started.                 *)
Abort(s) ==
  /\ Use("edits", MaxEdits)
  /\ status[s] = "setup" /\ Becomes(s, "aborted")
  /\ UNCHANGED <<decision, action, hidden, publishing, mail>>

(* delete_session: the sitting goes, with the rows that are its own.        *)
Delete(s) ==
  /\ Use("edits", MaxEdits)
  /\ status[s] # "none" /\ Becomes(s, "none")
  /\ decision' = [decision EXCEPT ![s] = Absent]
  /\ action' = Without({s})
  /\ hidden' = IF action'.status = "absent" THEN {} ELSE hidden \ {s}
  /\ publishing' = publishing \ {s}
  /\ UNCHANGED mail

(* The meeting takes the decision; a person who edits it also locks it.     *)
Decide(s) ==
  /\ Use("edits", MaxEdits)
  /\ status[s] \in ACTIVE /\ decision[s].status = "pending"
  /\ \E human \in BOOLEAN :
       /\ human \/ ~decision[s].locked
       /\ decision' = [decision EXCEPT ![s] = [status |-> "adopted", locked |-> @.locked \/ human]]
  /\ UNCHANGED <<status, action, hidden, publishing, mail>>

(* session_actions: what a sitting shows is what is reported on there.      *)
Shown(s) ==
  \/ s \in action.home \cup action.reports
  \/ action.status = "open" /\ s \notin hidden \cup action.later

(* The sitting reports on the action.                                       *)
Report(s) ==
  /\ Use("edits", MaxEdits)
  /\ status[s] \in ACTIVE \cup {"review"} /\ Shown(s)
  /\ \E new \in {"open", "done"}, human \in BOOLEAN :
       /\ human \/ (status[s] # "review" /\ ~action.locked)
       /\ action' = [action EXCEPT !.status = new, !.reports = @ \cup {s}, !.locked = @ \/ human]
  /\ UNCHANGED <<status, decision, hidden, publishing, mail>>

-----------------------------------------------------------------------------
(* publish: the report is rendered and mailed, and only then is the status  *)
(* written; the outcome may still be published again.                       *)
Publish(s) ==
  /\ status[s] \in {"review", "published"} /\ s \notin publishing
  /\ Use("edits", MaxEdits)
  /\ publishing' = publishing \cup {s}
  /\ UNCHANGED <<status, decision, action, hidden, mail>>

Published(s) ==
  /\ s \in publishing
  /\ publishing' = publishing \ {s}
  /\ Becomes(s, "published")
  /\ UNCHANGED <<decision, action, hidden, mail, counts>>

(* Rendering, or the last commit, fails: the sitting stays what it was.     *)
PublishFails(s) ==
  /\ s \in publishing
  /\ publishing' = publishing \ {s}
  /\ UNCHANGED <<status, decision, action, hidden, mail, counts>>

(* Mail takes the outcome of a published sitting, when it is told or when   *)
(* it polls: the status the action then has.                                *)
Take(s) ==
  /\ status[s] = "published" /\ s \in action.reports
  /\ mail' = [action |-> action.status, took |-> mail.took \cup {s}]
  /\ UNCHANGED <<status, decision, action, hidden, publishing, counts>>

Next ==
  \/ \E s \in Sittings : Sync(s)
  \/ \E s \in Own : Create(s)
  \/ \E s \in Sessions :
       \/ Start(s) \/ Pause(s) \/ End(s) \/ Finalised(s) \/ Abort(s) \/ Delete(s)
       \/ Decide(s) \/ Report(s) \/ Publish(s) \/ Published(s) \/ PublishFails(s) \/ Take(s)

Spec == Init /\ [][Next]_vars

-----------------------------------------------------------------------------
(* "one live session per room" (external.py): whatever Mail pushes and the  *)
(* room starts, ends or aborts, at most one sitting is being prepared, held *)
(* or finalised.                                                            *)
OneLiveSitting == Cardinality({s \in Sessions : status[s] \in LIVE_STATUSES}) <= 1

(* What a sitting said of an action stands, and the action with it, until   *)
(* that sitting is published: no push for another sitting, however late,    *)
(* puts Mail's older status in its place.  What was decided stands too.     *)
PushLeavesOutcome ==
  \A s \in Sessions :
    /\ counts'.syncs > counts.syncs /\ status[s] \in BUSY_STATUSES \cup {"review"}
    => /\ s \in action.reports => action'.status = action.status
       /\ decision[s].status = "adopted" => decision'[s] = decision[s]

OutcomeStands == [][PushLeavesOutcome]_vars

-----------------------------------------------------------------------------
(* What holds between any two steps, and makes the above hold of each.      *)
MailTypes ==
  /\ status \in [Sessions -> Statuses]
  /\ decision \in [Sessions -> [status : {"absent", "pending", "adopted"}, locked : BOOLEAN]]
  /\ action \in [status : {"absent", "open", "done"}, locked : BOOLEAN,
                 home : SUBSET Sessions, reports : SUBSET Sessions, later : SUBSET Sessions]
  /\ publishing \subseteq Sessions /\ mail \in [action : {"open", "done"}, took : SUBSET Sessions]
  /\ counts \in [syncs : Nat, edits : Nat]

OneLive == \A u, v \in Sessions : {status[u], status[v]} \subseteq LIVE_STATUSES => u = v

(* What is being published was reviewed.                                    *)
ReviewedFirst == \A s \in publishing : status[s] \in {"review", "published"}

(* The action is of one sitting that is still there; and while that one is  *)
(* being prepared nobody has reported on it, nor can a sitting that was     *)
(* over before.                                                             *)
RaisedOnce ==
  IF action.status = "absent" THEN action = NoAction
  ELSE \E u \in Sessions :
         /\ action.home = {u} /\ status[u] # "none"
         /\ status[u] = "setup" =>
              /\ action.reports = {}
              /\ \A s \in Sessions \ {u} : status[s] \in CLOSED_STATUSES => s \in action.later

MailHolds == MailTypes /\ OneLive /\ ReviewedFirst /\ RaisedOnce
=============================================================================
