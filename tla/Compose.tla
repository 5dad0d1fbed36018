-------------------------------- MODULE Compose --------------------------------
(***************************************************************************)
(* The minutes of one agenda point (compose.py): compositions that run in  *)
(* the background for as long as the model takes, asked for when the point *)
(* closes, while it is discussed (live draft), by the chair, and by the    *)
(* finalisation, while the point is reopened, people edit the text and the *)
(* session ends.                                                           *)
(* The transcript of the point is counted, and a text stands for what it   *)
(* was written from: that count, or a person's hand.                       *)
(***************************************************************************)
EXTENDS Naturals

CONSTANTS
  Drafts,     \* live drafts are composed
  Crashes,    \* how many times the process may restart
  MaxSaid,    \* bounds the transcript
  MaxMoves,   \* bounds the moves into the point
  MaxAsked,   \* bounds the compositions people ask for
  MaxEdits    \* bounds the edits

VARIABLES
  session,  \* sessions.status
  section,  \* the point: pending, live, a sub-point of it live (sub), done
  said,     \* what was said on it
  closedAt, \* history: what had been said when it was last closed
  tier,     \* where the transcript is from: the live or the final pass
  minute,   \* meetpp_minutes: status, locked, source_tier and text
  task,     \* _in_flight: the composition under way
  asked,    \* compositions scheduled, by who asked
  job,      \* the compose job
  left      \* what is left of each bound

vars == <<session, section, said, closedAt, tier, minute, task, asked, job, left>>

Human == MaxSaid + 1   \* the text is a person's
NoText == MaxSaid + 2
NoTask == [phase |-> "none", force |-> FALSE, from |-> 0, tier |-> "live"]
Askers == {"chair", "ai", "draft", "force"}

MinuteRecord ==
  [status : {"notes", "composing", "composed", "failed", "edited"}, locked : BOOLEAN,
   tier : {"live", "final"}, text : 0..NoText]
TaskRecord ==
  [phase : {"none", "new", "begun", "calling", "stored"}, force : BOOLEAN, from : 0..MaxSaid,
   tier : {"live", "final"}]

TypeOK ==
  /\ session \in {"running", "paused", "finalising", "review"}
  /\ section \in {"pending", "live", "sub", "done"}
  /\ said \in 0..MaxSaid /\ closedAt \in 0..MaxSaid
  /\ tier \in {"live", "final"}
  /\ minute \in MinuteRecord /\ task \in TaskRecord
  /\ asked \in [Askers -> Nat]
  /\ job \in {"none", "pending", "waiting", "composing", "done", "failed"}
  /\ left \in [moves : 0..MaxMoves, asked : 0..MaxAsked, edits : 0..MaxEdits, crashes : 0..Crashes]

Init ==
  /\ session = "running" /\ section = "pending"
  /\ said = 0 /\ closedAt = 0 /\ tier = "live"
  /\ minute = [status |-> "notes", locked |-> FALSE, tier |-> "live", text |-> NoText]
  /\ task = NoTask
  /\ asked = [a \in Askers |-> 0]
  /\ job = "none"
  /\ left = [moves |-> MaxMoves, asked |-> MaxAsked, edits |-> MaxEdits, crashes |-> Crashes]

Open == section \in {"live", "sub"}
Active == session \in {"running", "paused"}
Ask(a) == asked' = [asked EXCEPT ![a] = @ + 1]
Spend(b) == left[b] > 0 /\ left' = [left EXCEPT ![b] = @ - 1]

-----------------------------------------------------------------------------
(* The meeting. *)

Say ==
  /\ session = "running" /\ Open
  /\ said < MaxSaid
  /\ said' = said + 1
  /\ UNCHANGED <<session, section, closedAt, tier, minute, task, asked, job, left>>

(* The position enters the point or one of its sub-points.  Re-entering a   *)
(* closed point takes its minutes back to notes (_reopen_minutes).          *)
Reopened ==
  IF section = "done" /\ ~minute.locked /\ minute.status \in {"composed", "failed", "composing"}
  THEN [minute EXCEPT !.status = "notes"] ELSE minute

Enter ==
  /\ Active
  /\ Spend("moves")
  /\ \E s \in {"live", "sub"} \ {section} : section' = s
  /\ minute' = Reopened
  /\ UNCHANGED <<session, said, closedAt, tier, task, asked, job>>

(* It moves on: the point is closed and composed, at once for the chair and *)
(* after the time of an undo for the model.                                 *)
Close ==
  /\ Active /\ Open
  /\ section' = "done"
  /\ closedAt' = said
  /\ Ask("chair") \/ Ask("ai")
  /\ UNCHANGED <<session, said, tier, minute, task, job, left>>

(* Back: a point left backwards is open again. *)
LeaveBack ==
  /\ Active /\ Open
  /\ section' = "pending"
  /\ UNCHANGED <<session, said, closedAt, tier, minute, task, asked, job, left>>

PauseResume ==
  /\ Active
  /\ session' \in {"running", "paused"} \ {session}
  /\ UNCHANGED <<section, said, closedAt, tier, minute, task, asked, job, left>>

EndSession ==
  /\ Active
  /\ session' = "finalising"
  /\ section' = IF Open THEN "done" ELSE section
  /\ closedAt' = IF Open THEN said ELSE closedAt
  /\ job' = "pending"
  /\ UNCHANGED <<said, tier, minute, task, asked, left>>

(* The minutes are edited by hand (minutes.edit). *)
Edit ==
  /\ Spend("edits")
  /\ minute' = [minute EXCEPT !.status = "edited", !.locked = TRUE, !.text = Human]
  /\ UNCHANGED <<session, section, said, closedAt, tier, task, asked, job>>

(* The chair has the point composed again. *)
AskAgain ==
  /\ Spend("asked")
  /\ Ask("force")
  /\ UNCHANGED <<session, section, said, closedAt, tier, minute, task, job>>

(* The runner asks for a draft while the point is discussed. *)
LiveDraft ==
  /\ Drafts
  /\ session = "running" /\ Open /\ said > 0
  /\ ~minute.locked /\ minute.status # "composing"
  /\ Spend("asked")
  /\ Ask("draft")
  /\ UNCHANGED <<session, section, said, closedAt, tier, minute, task, job>>

-----------------------------------------------------------------------------
(* Compositions. *)

NewTask(force) == [NoTask EXCEPT !.phase = "new", !.force = force]

(* A scheduled composition starts unless one is in flight; the delayed one  *)
(* of an AI move also unless the point is live again.                       *)
Start(a) ==
  /\ asked[a] > 0
  /\ asked' = [asked EXCEPT ![a] = @ - 1]
  /\ task' = IF task.phase # "none" \/ (a = "ai" /\ section = "live") THEN task
             ELSE NewTask(a = "force")
  /\ UNCHANGED <<session, section, said, closedAt, tier, minute, job, left>>

(* It begins: a locked text is left alone unless the chair asked for it. *)
Begin ==
  /\ task.phase = "new"
  /\ IF minute.locked /\ ~task.force
     THEN task' = [task EXCEPT !.phase = "stored"] /\ UNCHANGED minute
     ELSE /\ task' = [task EXCEPT !.phase = "begun"]
          /\ minute' = [minute EXCEPT !.status = "composing", !.locked = FALSE]
  /\ UNCHANGED <<session, section, said, closedAt, tier, asked, job, left>>

(* After the state is published the transcript is read for the prompt. *)
ReadTranscript ==
  /\ task.phase = "begun"
  /\ task' = [task EXCEPT !.phase = "calling", !.from = said, !.tier = tier]
  /\ UNCHANGED <<session, section, said, closedAt, tier, minute, asked, job, left>>

(* Mutant: what was edited meanwhile is overwritten. *)
StoredOverEdits(ok) ==
  IF ok THEN [minute EXCEPT !.status = "composed", !.text = task.from, !.tier = task.tier]
  ELSE [minute EXCEPT !.status = "failed"]

(* The answer, or the error, is stored: an edit made meanwhile wins, and a  *)
(* point that is live stays a draft.                                        *)
Stored(ok) ==
  IF minute.locked THEN minute
  ELSE IF ~task.force /\ section = "live" /\ Active THEN [minute EXCEPT !.status = "notes"]
  ELSE IF ok THEN [minute EXCEPT !.status = "composed", !.text = task.from, !.tier = task.tier]
  ELSE [minute EXCEPT !.status = "failed"]

Store ==
  /\ task.phase = "calling"
  /\ \E ok \in BOOLEAN : minute' = Stored(ok)
  /\ task' = [task EXCEPT !.phase = "stored"]
  /\ UNCHANGED <<session, section, said, closedAt, tier, asked, job, left>>

(* Mutant: the job takes over the status of the minutes. *)
FinishAsStored ==
  /\ task.phase = "stored"
  /\ task' = NoTask
  /\ job' = IF job # "composing" THEN job ELSE minute.status
  /\ UNCHANGED <<session, section, said, closedAt, tier, minute, asked, left>>

(* The change is published and the composition no longer in flight. *)
Finish ==
  /\ task.phase = "stored"
  /\ task' = NoTask
  /\ job' = IF job # "composing" THEN job ELSE IF minute.status = "failed" THEN "failed" ELSE "done"
  /\ UNCHANGED <<session, section, said, closedAt, tier, minute, asked, left>>

-----------------------------------------------------------------------------
(* The finalisation. *)

(* The job before the compose job may have left a better transcript. *)
FinalPass ==
  /\ session = "finalising" /\ job = "pending"
  /\ tier = "live"
  /\ tier' = "final"
  /\ UNCHANGED <<session, section, said, closedAt, minute, task, asked, job, left>>

(* sections_to_compose: the point was discussed, and has no text or one     *)
(* from a transcript that has improved since.                               *)
(* Mutant: a composition that was cut off is taken for one under way.       *)
NeedsComposingUnlessBegun ==
  /\ ~minute.locked
  /\ section = "done" \/ said > 0
  /\ \/ minute.status \in {"notes", "failed"}
     \/ minute.status = "composed" /\ minute.tier # tier /\ tier = "final"

NeedsComposing ==
  /\ ~minute.locked
  /\ section = "done" \/ said > 0
  /\ \/ minute.status \in {"notes", "failed", "composing"} \/ minute.text = NoText
     \/ minute.status = "composed" /\ minute.tier # tier /\ tier = "final"

ComposeJob ==
  /\ job = "pending"
  /\ job' = IF NeedsComposing THEN "waiting" ELSE "done"
  /\ UNCHANGED <<session, section, said, closedAt, tier, minute, task, asked, left>>

(* Mutant: it waits for the minutes to be composing, which they may not be. *)
JobJoins ==
  /\ job = "waiting"
  /\ task.phase = "none"
  /\ minute.status = "composing"
  /\ job' = "composing"
  /\ task' = NewTask(FALSE)
  /\ UNCHANGED <<session, section, said, closedAt, tier, minute, asked, left>>

(* It waits for a composition in flight and composes from what is there now.*)
JobComposes ==
  /\ job = "waiting"
  /\ task.phase = "none"
  /\ job' = "composing"
  /\ task' = NewTask(FALSE)
  /\ UNCHANGED <<session, section, said, closedAt, tier, minute, asked, left>>

Review ==
  /\ session = "finalising"
  /\ job \in {"done", "failed"}
  /\ session' = "review"
  /\ UNCHANGED <<section, said, closedAt, tier, minute, task, asked, job, left>>

(* The chair retries a job that failed. *)
Retry ==
  /\ session = "review" /\ job = "failed"
  /\ Spend("asked")
  /\ job' = "pending"
  /\ UNCHANGED <<session, section, said, closedAt, tier, minute, task, asked>>

(* The process restarts: what was scheduled and in flight is gone; the jobs *)
(* of a session that is being finalised run again.  (A restart after the    *)
(* compose job leaves a composition the chair asked for cut off for good.)  *)
Restart ==
  /\ session # "review" /\ job \notin {"done", "failed"}
  /\ Spend("crashes")
  /\ task' = NoTask
  /\ asked' = [a \in Askers |-> 0]
  /\ job' = IF job \in {"waiting", "composing"} THEN "pending" ELSE job
  /\ UNCHANGED <<session, section, said, closedAt, tier, minute>>

Meeting == Say \/ Enter \/ Close \/ LeaveBack \/ PauseResume \/ EndSession \/ Edit \/ AskAgain
           \/ LiveDraft \/ Retry
Work == (\E a \in Askers : Start(a)) \/ Begin \/ ReadTranscript \/ Store \/ Finish
Finalise == FinalPass \/ ComposeJob \/ JobComposes \/ Review

Next == Meeting \/ Work \/ Finalise \/ Restart

(* The event loop runs on and a call to the model ends by its timeout. *)
Fairness ==
  /\ \A a \in Askers : WF_vars(Start(a))
  /\ WF_vars(Begin \/ ReadTranscript \/ Store \/ Finish)
  /\ WF_vars(ComposeJob) /\ WF_vars(JobComposes) /\ WF_vars(Review)

Spec == Init /\ [][Next]_vars
FairSpec == Spec /\ Fairness

-----------------------------------------------------------------------------
(* "Edited by a person while composing: the edit wins" (_store): a person's *)
(* text gives way only when it was unlocked, which only a composition the   *)
(* chair asked for does, and only when that one begins after the edit.      *)
EditGivesWay ==
  /\ minute.text = Human /\ minute'.text # Human => ~minute.locked
  /\ minute.locked /\ ~minute'.locked => task.phase = "new" /\ task.force
EditWins == [][EditGivesWay]_vars

(* Nothing is scheduled or in flight any more. *)
Quiet == task = NoTask /\ (\A a \in Askers : asked[a] = 0) /\ job \in {"done", "failed"}

(* "the final composition still runs when the point closes" (_live_draft):  *)
(* the minutes of the review were written from all that was said until the  *)
(* point was closed.                                                        *)
FinalCompositionRuns ==
  session = "review" /\ Quiet /\ minute.status = "composed" => minute.text >= closedAt

(* A composition is never left behind: in the review a point that was       *)
(* discussed has its minutes, or they failed, whatever was cut off by a     *)
(* restart or taken back to notes before the end.  They are of all that was *)
(* said when the final pass has improved the transcript, for then the       *)
(* compose job writes them again (sections_to_compose), whatever was in     *)
(* flight when the point was closed.                                        *)
NothingLeftOpen ==
  /\ session = "review" /\ Quiet /\ section = "done" => minute.status \in {"composed", "failed", "edited"}
  /\ tier = "final" => FinalCompositionRuns

(* The compose job ends and the session, once it has ended, comes to its    *)
(* review.                                                                  *)
ReachesReview == []<>(~Active => session = "review")
-----------------------------------------------------------------------------
(* What the two properties follow from, step by step. *)

Composed == {"composed", "failed", "edited"}

\* The job is there from the end of the session on, and nothing is said or
\* closed from then on.
EndHolds ==
  /\ Active <=> job = "none"
  /\ ~Active => ~Open
  /\ closedAt <= said
  /\ tier = "final" => ~Active

\* A person's text is locked.
LockHolds ==
  /\ minute.locked <=> minute.status = "edited"
  /\ minute.locked => minute.text = Human

\* What a composition is at says what the minutes are at; the job has one under
\* way.
TaskHolds ==
  /\ task.phase \in {"begun", "calling"} => minute.status \in {"composing", "notes", "edited"}
  /\ job = "composing" => task.phase # "none"
  /\ job = "composing" /\ task.phase = "stored" => minute.status \in Composed

\* Once the job has ended the point has its minutes, or a composition that the
\* chair asked for is on its way to them.
SettledHolds ==
  job \in {"done", "failed"} /\ section = "done" =>
    minute.status \in Composed \/ task.phase \in {"begun", "calling"}

\* What is from the final transcript is from all of it, and so is, when there is
\* one, what the job composes and what is composed after it.
WholeHolds ==
  /\ task.tier = "final" => tier = "final" /\ task.from >= closedAt
  /\ minute.tier = "final" => tier = "final" /\ minute.text >= closedAt
  /\ tier = "final" /\ job \in {"composing", "done", "failed"} /\ task.phase = "calling" =>
       minute.locked \/ task.from >= closedAt
  /\ /\ tier = "final" /\ minute.status = "composed"
     /\ job \in {"done", "failed"} \/ (job = "composing" /\ task.phase = "stored")
     => minute.text >= closedAt

ComposeHolds == TypeOK /\ EndHolds /\ LockHolds /\ TaskHolds /\ SettledHolds /\ WholeHolds
=============================================================================
