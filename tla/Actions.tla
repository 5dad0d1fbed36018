-------------------------------- MODULE Actions --------------------------------
(***************************************************************************)
(* One follow-up action of a series through its sittings: what the ticks   *)
(* and the people make of it (ops.py), the documents of the set-up that    *)
(* list it (ingest.py), and the checks of the finalisation, which read it, *)
(* wait for the model, and write it (compose.py).                          *)
(* All rows here are of one wording: rows of others do not meet them.      *)
(***************************************************************************)
EXTENDS Naturals, FiniteSets

CONSTANTS
  Sittings,                          \* how many sittings the series has
  MaxRows, MaxChanges, MaxFaults     \* bounds: rows of this wording, changes, failures

VARIABLES
  sitting, phase,    \* the sitting under way and what it is at
  act,               \* the rows: status, locked, raised and closed (in which sitting), document
  report,            \* the reports of this sitting: noted, and the status it gives
  doc,               \* the documents of this sitting
  job,               \* the checks of the finalisation, with what they read
  said,              \* history: the status a person left a row with
  unsure,            \* history: rows the AI closed at this sitting and nothing confirmed
  checked,           \* history: the closures of this sitting were checked
  again, silent,     \* history: a row was opened again; a report was passed by
  counts

vars == <<sitting, phase, act, report, doc, job, said, unsure, checked, again, silent, counts>>

Rows == 1..MaxRows
Open == {"proposed", "open", "in_progress"}
Statuses == Open \cup {"done", "cancelled"}
NoRow == [status |-> "none"]
Removed == [status |-> "removed"]
NoReport == [noted |-> FALSE, status |-> "none"]
Idle == [at |-> "idle"]
Present == {i \in Rows : act[i] \notin {NoRow, Removed}}
Previous(i) == act[i].raised < sitting \/ act[i].document

TypeOK ==
  /\ sitting \in 1..Sittings /\ phase \in {"setup", "running", "finalising", "review"}
  /\ act \in [Rows -> {NoRow, Removed} \cup
       [status : Statuses, locked : BOOLEAN, raised : 1..Sittings, closed : 0..Sittings,
        document : BOOLEAN]]
  /\ report \in [Rows -> [noted : BOOLEAN, status : Statuses \cup {"none"}]]
  /\ doc \in [{"agenda", "notes"} -> {"none", "uploaded", "reading", "done", "failed"}]
  /\ job.at \in {"idle", "reconcile", "asked", "verify", "asked again"}
  /\ said \in [Rows -> Statuses \cup {"none"}]
  /\ unsure \subseteq Rows /\ {checked, again, silent} \subseteq BOOLEAN
  /\ counts \in [changes : 0..MaxChanges, faults : 0..MaxFaults]

Init ==
  /\ sitting = 1 /\ phase = "setup" /\ act = [i \in Rows |-> NoRow]
  /\ report = [i \in Rows |-> NoReport] /\ doc = [k \in {"agenda", "notes"} |-> "none"]
  /\ job = Idle /\ said = [i \in Rows |-> "none"] /\ unsure = {}
  /\ checked = FALSE /\ again = FALSE /\ silent = FALSE
  /\ counts = [changes |-> 0, faults |-> 0]

Change == counts.changes < MaxChanges /\ counts' = [counts EXCEPT !.changes = @ + 1]
Fault == counts.faults < MaxFaults /\ counts' = [counts EXCEPT !.faults = @ + 1]

-----------------------------------------------------------------------------
(* The rows are in the order they were written.                             *)
Put(row) ==
  \E i \in Rows :
    /\ act[i] = NoRow /\ \A j \in 1..(i - 1) : act[j] # NoRow
    /\ act' = [act EXCEPT ![i] = row]

(* _apply_action_add: an action of this sitting, or an open one, is not     *)
(* listed twice.                                                            *)
Duplicate == \E i \in Present : ~Previous(i) \/ act[i].status \in Open
NewRow(status, locked, document) ==
  [status |-> status, locked |-> locked, raised |-> sitting, closed |-> 0, document |-> document]
AiAdds ==
  /\ phase = "running" /\ ~Duplicate /\ Change
  /\ Put(NewRow("proposed", FALSE, FALSE))
  /\ UNCHANGED <<sitting, phase, report, doc, job, said, unsure, checked, again, silent>>
PersonAdds(s) ==
  /\ ~Duplicate /\ Change
  /\ Put(NewRow(s, TRUE, FALSE))
  /\ said' = [i \in Rows |-> IF act'[i] # act[i] THEN s ELSE said[i]]
  /\ UNCHANGED <<sitting, phase, report, doc, job, unsure, checked, again, silent>>

(* The status of _apply_action_update: completed_at is kept while the row   *)
(* is closed and dropped when it opens.                                     *)
Closed(i, s) ==
  IF s = "done" THEN IF act[i].closed = 0 THEN sitting ELSE act[i].closed
  ELSE IF s \in Open /\ s # act[i].status THEN 0 ELSE act[i].closed
Opened(i, s) == again \/ (act[i].status \notin Open /\ s \in Open)
Update(i, s, note, lock) ==
  /\ act' = [act EXCEPT
       ![i] = [@ EXCEPT !.status = s, !.closed = Closed(i, s), !.locked = act[i].locked \/ lock]]
  /\ report' = [report EXCEPT ![i] = [noted |-> @.noted \/ note, status |-> s]]
  /\ again' = Opened(i, s)
  /\ UNCHANGED <<sitting, phase, doc, job, checked, silent>>

(* A locked row only gets a suggestion.                                     *)
AiUpdates(i, s, note) ==
  /\ phase = "running" /\ i \in Present /\ ~act[i].locked /\ Change
  /\ s # act[i].status \/ (note /\ ~report[i].noted)
  /\ Update(i, s, note, FALSE)
  /\ unsure' = IF s # "done" THEN unsure \ {i}
               ELSE IF act[i].status # "done" THEN unsure \cup {i} ELSE unsure
  /\ UNCHANGED said
PersonUpdates(i, s, note) ==
  /\ i \in Present /\ Change
  /\ Update(i, s, note, TRUE)
  /\ said' = [said EXCEPT ![i] = s] /\ unsure' = unsure \ {i}

Confirm(i) ==
  /\ i \in Present /\ Change
  /\ LET s == IF act[i].status = "proposed" THEN "open" ELSE act[i].status IN
       /\ act' = [act EXCEPT ![i] = [@ EXCEPT !.status = s, !.locked = TRUE]]
       /\ said' = [said EXCEPT ![i] = s]
       /\ silent' = (silent \/ s # act[i].status)
  /\ unsure' = unsure \ {i}
  /\ UNCHANGED <<sitting, phase, report, doc, job, checked, again>>
Reject(i) ==
  /\ i \in Present /\ ~Previous(i) /\ Change
  /\ act' = [act EXCEPT ![i] = Removed] /\ report' = [report EXCEPT ![i] = NoReport]
  /\ said' = [said EXCEPT ![i] = "none"] /\ unsure' = unsure \ {i}
  /\ UNCHANGED <<sitting, phase, doc, job, checked, again, silent>>

(* publish: proposed actions are accepted.                                  *)
Publish ==
  /\ phase = "review"
  /\ \E i \in Present : act[i].status = "proposed" /\ act[i].raised = sitting
  /\ act' = [i \in Rows |->
       IF i \in Present /\ act[i].status = "proposed" /\ act[i].raised = sitting
       THEN [act[i] EXCEPT !.status = "open"] ELSE act[i]]
  /\ silent' = TRUE
  /\ UNCHANGED <<sitting, phase, report, doc, job, said, unsure, checked, again, counts>>

-----------------------------------------------------------------------------
(* A document is uploaded; the task extracts its text, waits for the model  *)
(* and imports what it lists.                                               *)
Upload(k) ==
  /\ doc[k] = "none" /\ doc' = [doc EXCEPT ![k] = "uploaded"]
  /\ UNCHANGED <<sitting, phase, act, report, job, said, unsure, checked, again, silent, counts>>
Read(k) ==
  /\ doc[k] = "uploaded" /\ doc' = [doc EXCEPT ![k] = "reading"]
  /\ UNCHANGED <<sitting, phase, act, report, job, said, unsure, checked, again, silent, counts>>
ReadFails(k) ==
  /\ doc[k] \in {"uploaded", "reading"} /\ Fault /\ doc' = [doc EXCEPT ![k] = "failed"]
  /\ UNCHANGED <<sitting, phase, act, report, job, said, unsure, checked, again, silent>>

(* merge_actions: into the first row known, unless it is locked; the        *)
(* further status is kept.                                                  *)
FirstKnown(i) == i \in Present /\ \A j \in Present : i <= j
Merge(s) ==
  \/ /\ Present = {} /\ Put(NewRow(s, FALSE, TRUE))
     /\ UNCHANGED silent
  \/ \E i \in Rows :
       /\ FirstKnown(i)
       /\ IF ~act[i].locked /\ act[i].status = "open" /\ s = "in_progress"
          THEN act' = [act EXCEPT ![i] = [@ EXCEPT !.status = s]] /\ silent' = TRUE
          ELSE UNCHANGED <<act, silent>>

(* import_text: the agenda's list counts only while the sitting is set up,  *)
(* which is read after the model answered.                                  *)
Import(k, s) ==
  /\ doc[k] = "reading" /\ doc' = [doc EXCEPT ![k] = "done"]
  /\ IF k = "agenda" /\ phase # "setup" THEN UNCHANGED <<act, silent>> ELSE Merge(s)
  /\ UNCHANGED <<sitting, phase, report, job, said, unsure, checked, again, counts>>

-----------------------------------------------------------------------------
Start ==
  /\ phase = "setup" /\ phase' = "running"
  /\ UNCHANGED <<sitting, act, report, doc, job, said, unsure, checked, again, silent, counts>>
End ==
  /\ phase = "running" /\ phase' = "finalising" /\ job' = [at |-> "reconcile"]
  /\ UNCHANGED <<sitting, act, report, doc, said, unsure, checked, again, silent, counts>>

(* reconcile_previous_actions, until the model is asked: what is shown of   *)
(* the sitting, has no report and is not locked, with its status.           *)
Shown(i) ==
  i \in Present /\ Previous(i) /\ ~act[i].locked
  /\ (act[i].status \in Open \/ act[i].raised = sitting \/ report[i] # NoReport)
Reconcile ==
  /\ job.at = "reconcile"
  /\ LET before == [i \in {j \in Rows : Shown(j) /\ ~report[j].noted} |-> act[i].status]
     IN job' = IF DOMAIN before = {} THEN [at |-> "verify"]
               ELSE [at |-> "asked", before |-> before]
  /\ UNCHANGED <<sitting, phase, act, report, doc, said, unsure, checked, again, silent, counts>>

(* The answer: only for what is still as it was read.                       *)
Same(i) == i \in Present /\ ~act[i].locked /\ act[i].status = job.before[i] /\ ~report[i].noted
Reconciled ==
  /\ job.at = "asked"
  /\ \E R \in SUBSET {i \in DOMAIN job.before : Same(i)} :
     \E s \in [R -> Statuses \ {"proposed"}] :
       /\ act' = [i \in Rows |-> IF i \notin R THEN act[i] ELSE
            [act[i] EXCEPT !.status = s[i],
               !.closed = IF s[i] = "done" /\ @ = 0 THEN sitting ELSE @]]
       /\ report' = [i \in Rows |-> IF i \in R THEN [noted |-> TRUE, status |-> s[i]] ELSE report[i]]
       /\ unsure' = (unsure \ {i \in R : s[i] # "done"})
                   \cup {i \in R : s[i] = "done" /\ act[i].status # "done"}
       /\ again' = (again \/ \E i \in R : act[i].status \notin Open /\ s[i] \in Open)
  /\ job' = [at |-> "verify"]
  /\ UNCHANGED <<sitting, phase, doc, said, checked, silent, counts>>

(* verify_closed_previous_actions: what the AI closed at this sitting.      *)
Doubtful(i) ==
  i \in Present /\ Previous(i) /\ ~act[i].locked /\ act[i].status = "done" /\ act[i].closed >= sitting
Verify ==
  /\ job.at = "verify"
  /\ LET closed == {i \in Rows : Doubtful(i)}
     IN IF closed = {} THEN job' = Idle /\ checked' = TRUE /\ phase' = "review"
        ELSE job' = [at |-> "asked again", closed |-> closed] /\ UNCHANGED <<checked, phase>>
  /\ UNCHANGED <<sitting, act, report, doc, said, unsure, again, silent, counts>>

(* Mutant: what a person said while the model read is not looked at.        *)
StillAsked(i) == i \in Present

StillClosed(i) == i \in Present /\ ~act[i].locked /\ act[i].status = "done"
Verified ==
  /\ job.at = "asked again"
  /\ \E confirmed \in SUBSET job.closed :
       LET R == {i \in job.closed \ confirmed : StillClosed(i)} IN
       /\ act' = [i \in Rows |-> IF i \in R THEN [act[i] EXCEPT !.status = "open", !.closed = 0] ELSE act[i]]
       /\ report' = [i \in Rows |->
            IF i \in R /\ report[i] # NoReport THEN [report[i] EXCEPT !.status = "open"] ELSE report[i]]
       /\ unsure' = unsure \ (confirmed \cup R)
       /\ again' = (again \/ R # {})
  /\ job' = Idle /\ checked' = TRUE /\ phase' = "review"
  /\ UNCHANGED <<sitting, doc, said, silent, counts>>

(* The model fails: each check goes on without it.  The process stops: the  *)
(* job starts over, as it does when a person asks for it again.             *)
ModelFails ==
  /\ Fault
  /\ \/ job.at = "asked" /\ job' = [at |-> "verify"] /\ UNCHANGED phase
     \/ job.at = "asked again" /\ job' = Idle /\ phase' = "review"
  /\ UNCHANGED <<sitting, act, report, doc, said, unsure, checked, again, silent>>
StartsOver ==
  /\ \/ job.at # "idle"
     \/ phase = "review"
  /\ Fault /\ job' = [at |-> "reconcile"] /\ checked' = FALSE
  /\ UNCHANGED <<sitting, phase, act, report, doc, said, unsure, again, silent>>

(* The series goes on: what was an action of this sitting is a previous one.*)
NextSitting ==
  /\ phase = "review" /\ job = Idle /\ sitting < Sittings
  /\ sitting' = sitting + 1 /\ phase' = "setup"
  /\ report' = [i \in Rows |-> NoReport] /\ doc' = [k \in {"agenda", "notes"} |-> "none"]
  /\ unsure' = {} /\ checked' = FALSE /\ silent' = FALSE
  /\ UNCHANGED <<act, job, said, again, counts>>

Next ==
  \/ AiAdds \/ Publish \/ Start \/ End \/ Reconcile \/ Reconciled \/ Verify \/ Verified
  \/ ModelFails \/ StartsOver \/ NextSitting
  \/ \E s \in Open : PersonAdds(s)
  \/ \E i \in Rows, s \in Statuses, note \in BOOLEAN : AiUpdates(i, s, note) \/ PersonUpdates(i, s, note)
  \/ \E i \in Rows : Confirm(i) \/ Reject(i)
  \/ \E k \in {"agenda", "notes"} :
       \/ Upload(k) \/ Read(k) \/ ReadFails(k)
       \/ \E s \in {"open", "in_progress"} : Import(k, s)

Spec == Init /\ [][Next]_vars

-----------------------------------------------------------------------------
(* "Human changes (locked) are kept": a row is as a person left it, but for *)
(* a proposed one that publishing accepted.                                 *)
PersonStands ==
  \A i \in Present : said[i] # "none" =>
    act[i].status = said[i] \/ (said[i] = "proposed" /\ act[i].status = "open")

(* "Every previous action the AI marked done during the meeting must be     *)
(* confirmed by a transcript line" (compose.py): once the closures were     *)
(* checked, no previous action is closed that the AI closed at this sitting *)
(* and neither the transcript nor a person confirmed.                       *)
Unconfirmed(i) == i \in Present /\ Previous(i) /\ act[i].status = "done"
EveryClosureConfirmed == checked => \A i \in unsure : ~Unconfirmed(i)

(* The same, but for what had been closed at an earlier sitting and was not *)
(* opened by a tick or a person since: its date of then is kept, and the    *)
(* check asks only about the closures of this sitting.                      *)
ClosedIsConfirmed == checked => \A i \in unsure : ~(Unconfirmed(i) /\ act[i].closed = sitting)

(* The report of a sitting gives the status its action has, but for what    *)
(* confirming, publishing or a document made of it.                         *)
ReportAgrees ==
  \A i \in Present : report[i] # NoReport /\ ~silent => report[i].status = act[i].status

(* "Never twice": two open rows of one wording only when one was opened     *)
(* again after it had been closed.                                          *)
NoDouble == ~again => Cardinality({i \in Present : act[i].status \in Open}) <= 1

ActionsKept == PersonStands /\ ClosedIsConfirmed /\ ReportAgrees /\ NoDouble

-----------------------------------------------------------------------------
(* What holds between any two steps, and makes the above hold after each.   *)
Written == [status : Statuses, locked : BOOLEAN, raised : Nat, closed : Nat, document : BOOLEAN]
ActionTypes ==
  /\ sitting \in Nat /\ act \in [Rows -> {NoRow, Removed} \cup Written]
  /\ report \in [Rows -> [noted : BOOLEAN, status : Statuses \cup {"none"}]]
  /\ said \in [Rows -> Statuses \cup {"none"}] /\ unsure \subseteq Rows

(* A row a person spoke of is locked and no closure of the AI's; a report   *)
(* gives its status.  What is not there has none of these.                  *)
RowKept(i) ==
  IF i \in Present
  THEN /\ \/ said[i] = "none"
          \/ act[i].locked /\ (act[i].status = said[i] \/ (said[i] = "proposed" /\ act[i].status = "open"))
       /\ i \in unsure => ~act[i].locked
       /\ report[i] = NoReport \/ silent \/ report[i].status = act[i].status
  ELSE said[i] = "none" /\ report[i] = NoReport /\ i \notin unsure
RowsKept == \A i \in Rows : RowKept(i)

OneOpen == again \/ \A i, j \in Present : {act[i].status, act[j].status} \subseteq Open => i = j

(* The AI closes nothing after the meeting but by the checks, and what it   *)
(* closed is among what the second one asks about.                          *)
Pending(i) == i \in unsure /\ Unconfirmed(i) /\ act[i].closed = sitting
ChecksAsk ==
  /\ checked \/ job.at # "idle" => phase \in {"finalising", "review"}
  /\ checked => job.at = "idle" /\ \A i \in Rows : ~Pending(i)
  /\ job.at = "asked again" => \A i \in Rows : Pending(i) => i \in job.closed

ActionsHold == ActionTypes /\ RowsKept /\ OneOpen /\ ChecksAsk
=============================================================================
