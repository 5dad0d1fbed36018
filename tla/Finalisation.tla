----------------------------- MODULE Finalisation -----------------------------
(***************************************************************************)
(* The end of a session (runtime.py): the runner of the session, its lease *)
(* in Redis, and the four jobs between the meeting and the chair's review: *)
(* the final pass of the transcription, the composition of the minutes,    *)
(* the final parts and the rendering.  Finalisations are background tasks, *)
(* started by the runner and by the chair's retries; jobs fail, tasks die, *)
(* the process restarts and Redis does not always answer.                  *)
(***************************************************************************)
EXTENDS Naturals

CONSTANTS
  Retries,     \* bounds how often the chair asks to run the jobs again
  Crashes,     \* how many times the process may restart
  Deaths,      \* how many finalisation tasks may die of an error
  RedisFails   \* the calls to Redis that may fail

RedisCalls == {"acquire", "release", "delete"}

ASSUME FinalisationAssumption ==
  /\ {Retries, Crashes, Deaths} \subseteq Nat
  /\ RedisFails \subseteq RedisCalls

VARIABLES
  status,      \* sessions.status
  jobs,        \* sessions.jobs_json: the status of each job, by its place
  pass,        \* the final pass of the transcription, as the agent reports it
  task,        \* the finalisation tasks of the event loop
  finalising,  \* _finalising holds the session
  runner,      \* the task of the SessionRunner
  lease,       \* whose token the lease key holds
  disturbed,   \* history: a retry came during the finalisation under way
  left         \* what is left of each bound

vars == <<status, jobs, pass, task, finalising, runner, lease, disturbed, left>>

JOB_ORDER == <<"tier2", "compose", "final", "render">>
Jobs == 1..4
Tier2 == 1
Tasks == 0..Retries   \* the runner's final_task is 0, retry k has task k
NoTask == [pc |-> "none", job |-> 1]

Settled == {"done", "skipped", "failed"}
Working(t) == task[t].pc \in {"check", "asking", "busy", "sending"}
Running(t) == task[t].pc \in {"asking", "busy"}

PC == {"none", "new", "check", "asking", "busy", "sending"}
JobStatus == {"pending", "running"} \cup Settled
TaskRecord == [pc : PC, job : 1..5]
LeftRecord == [retries : 0..Retries, crashes : 0..Crashes, deaths : 0..Deaths]

TypeOK ==
  /\ status \in {"running", "finalising", "review"}
  /\ jobs \in [Jobs -> JobStatus]
  /\ pass \in {"none", "running"} \cup Settled
  /\ task \in [Tasks -> TaskRecord]
  /\ finalising \in BOOLEAN
  /\ runner \in {"none", "acquire", "loop", "release", "stopped"}
  /\ lease \in {"free", "mine", "other"}
  /\ disturbed \in BOOLEAN
  /\ left \in LeftRecord

Init ==
  /\ status = "running"
  /\ jobs = [j \in Jobs |-> "pending"]
  /\ pass = "none"
  /\ task = [t \in Tasks |-> NoTask]
  /\ finalising = FALSE
  /\ runner = "loop" /\ lease = "mine"
  /\ disturbed = FALSE
  /\ left = [retries |-> Retries, crashes |-> Crashes, deaths |-> Deaths]

-----------------------------------------------------------------------------
(* The runner and its lease. *)

\* start_finalisation: the runner starts when its task has ended.
Started == IF runner \in {"none", "stopped"} THEN "acquire" ELSE runner

\* A call to Redis is made or, on any error, counts for nothing.
Unanswered(call) == call \in RedisFails

Acquire ==
  /\ runner = "acquire"
  /\ \/ /\ lease # "other"
        /\ lease' = "mine" /\ runner' = "loop"
     \/ /\ lease = "other"
        /\ runner' = "stopped" /\ UNCHANGED lease
     \/ /\ Unanswered("acquire")
        /\ runner' = "loop" /\ UNCHANGED lease
  /\ UNCHANGED <<status, jobs, pass, task, finalising, left, disturbed>>

Renew ==
  /\ runner = "loop"
  /\ IF lease = "other" THEN runner' = "stopped" /\ UNCHANGED lease
                        ELSE lease' = "mine" /\ UNCHANGED runner
  /\ UNCHANGED <<status, jobs, pass, task, finalising, left, disturbed>>

\* The key lasts thirty seconds.
Expire ==
  /\ lease # "free"
  /\ lease' = "free"
  /\ UNCHANGED <<status, jobs, pass, task, finalising, runner, left, disturbed>>

\* Mutant: the runner starts the finalisation once.
StartTaskOnce ==
  /\ runner = "loop" /\ status = "finalising"
  /\ task[0].pc = "none" /\ left.deaths = Deaths
  /\ task' = [task EXCEPT ![0] = [pc |-> "new", job |-> 1]]
  /\ UNCHANGED <<status, jobs, pass, finalising, runner, lease, left, disturbed>>

\* An iteration of a finalising session starts the task that is not running.
StartTask ==
  /\ runner = "loop" /\ status = "finalising"
  /\ task[0].pc = "none"
  /\ task' = [task EXCEPT ![0] = [pc |-> "new", job |-> 1]]
  /\ UNCHANGED <<status, jobs, pass, finalising, runner, lease, left, disturbed>>

\* The last iteration leaves the loop; the runner ends once the lease is released.
LeaveLoop ==
  /\ runner = "loop" /\ status = "review"
  /\ runner' = "release"
  /\ UNCHANGED <<status, jobs, pass, task, finalising, lease, left, disturbed>>

Release ==
  /\ runner = "release"
  /\ runner' = "none"
  /\ \/ lease' = IF lease = "mine" THEN "free" ELSE lease
     \/ Unanswered("release") /\ lease' = IF lease = "mine" THEN "other" ELSE lease
  /\ UNCHANGED <<status, jobs, pass, task, finalising, left, disturbed>>

-----------------------------------------------------------------------------
(* The finalisation tasks. *)

Goto(t, pc, j) == task' = [task EXCEPT ![t] = [pc |-> pc, job |-> j]]
SetJob(j, s) == jobs' = [jobs EXCEPT ![j] = s]

\* Mutant: the jobs are counted from zero.
BeginAtZero(t) ==
  /\ task[t].pc = "new"
  /\ IF finalising THEN task' = [task EXCEPT ![t] = NoTask] /\ UNCHANGED <<finalising, disturbed>>
                   ELSE Goto(t, "check", 0) /\ finalising' = TRUE /\ disturbed' = FALSE
  /\ UNCHANGED <<status, jobs, pass, runner, lease, left>>

\* Mutant: a second finalisation is not turned away.
BeginTwice(t) ==
  /\ task[t].pc = "new"
  /\ Goto(t, "check", 1) /\ finalising' = TRUE /\ disturbed' = FALSE
  /\ UNCHANGED <<status, jobs, pass, runner, lease, left>>

\* run_finalisation: one at a time, another one does nothing.
Begin(t) ==
  /\ task[t].pc = "new"
  /\ IF finalising THEN task' = [task EXCEPT ![t] = NoTask] /\ UNCHANGED <<finalising, disturbed>>
                   ELSE Goto(t, "check", 1) /\ finalising' = TRUE /\ disturbed' = FALSE
  /\ UNCHANGED <<status, jobs, pass, runner, lease, left>>

Past(t) == task[t].job > 4

Skip(t) ==
  /\ task[t].pc = "check" /\ ~Past(t)
  /\ jobs[task[t].job] \in Settled
  /\ Goto(t, "check", task[t].job + 1)
  /\ UNCHANGED <<status, jobs, pass, finalising, runner, lease, left, disturbed>>

Run(t) ==
  /\ task[t].pc = "check" /\ ~Past(t)
  /\ jobs[task[t].job] \notin Settled
  /\ IF task[t].job # Tier2 THEN SetJob(task[t].job, "running") /\ Goto(t, "busy", task[t].job)
     ELSE IF pass = "done" THEN SetJob(Tier2, "done") /\ Goto(t, "check", 2)
     ELSE Goto(t, "asking", Tier2) /\ UNCHANGED jobs
  /\ UNCHANGED <<status, pass, finalising, runner, lease, left, disturbed>>

\* Mutant: nothing is recorded when the agent has no final pass to make.
AskedUnrecorded(t) ==
  /\ task[t].pc = "asking"
  /\ \/ /\ SetJob(Tier2, "running") /\ Goto(t, "busy", Tier2)
        /\ pass' = IF pass = "none" THEN "running" ELSE pass
     \/ /\ Goto(t, "check", 2)
        /\ UNCHANGED <<pass, jobs>>
  /\ UNCHANGED <<status, finalising, runner, lease, left, disturbed>>

\* The agent starts its final pass, or has none to make or does not answer.
Asked(t) ==
  /\ task[t].pc = "asking"
  /\ \/ /\ SetJob(Tier2, "running") /\ Goto(t, "busy", Tier2)
        /\ pass' = IF pass = "none" THEN "running" ELSE pass
     \/ /\ SetJob(Tier2, "skipped") /\ Goto(t, "check", 2)
        /\ UNCHANGED pass
  /\ UNCHANGED <<status, finalising, runner, lease, left, disturbed>>

\* What the agent reported settles the job, or the deadline does.
Tier2Ends(t) ==
  /\ task[t].pc = "busy" /\ task[t].job = Tier2
  /\ SetJob(Tier2, IF pass \in Settled THEN pass ELSE "skipped")
  /\ Goto(t, "check", 2)
  /\ UNCHANGED <<status, pass, finalising, runner, lease, left, disturbed>>

\* The report comes while the job waits, later, or never.
AgentReports ==
  /\ pass = "running"
  /\ pass' \in Settled
  /\ UNCHANGED <<status, jobs, task, finalising, runner, lease, left, disturbed>>

\* Another job ends: an exception makes it failed.
JobEnds(t) ==
  /\ task[t].pc = "busy" /\ task[t].job # Tier2
  /\ \E s \in {"done", "failed"} : SetJob(task[t].job, s)
  /\ Goto(t, "check", task[t].job + 1)
  /\ UNCHANGED <<status, pass, finalising, runner, lease, left, disturbed>>

Review(t) ==
  /\ task[t].pc = "check" /\ Past(t)
  /\ status' = IF status = "finalising" THEN "review" ELSE status
  /\ Goto(t, "sending", 5)
  /\ UNCHANGED <<jobs, pass, finalising, runner, lease, left, disturbed>>

\* The participants have been told; only now is the session let go.
Finish(t) ==
  /\ task[t].pc = "sending"
  /\ task' = [task EXCEPT ![t] = NoTask]
  /\ finalising' = FALSE
  /\ UNCHANGED <<status, jobs, pass, runner, lease, left, disturbed>>

\* An error outside the jobs, such as that of the database, ends the task.
Die(t) ==
  /\ Working(t) /\ left.deaths > 0
  /\ left' = [left EXCEPT !.deaths = @ - 1]
  /\ task' = [task EXCEPT ![t] = NoTask]
  /\ finalising' = FALSE
  /\ UNCHANGED <<status, jobs, pass, runner, lease, disturbed>>

-----------------------------------------------------------------------------
(* The chair and the process. *)

EndSession ==
  /\ status = "running"
  /\ status' = "finalising"
  /\ runner' = Started
  /\ UNCHANGED <<jobs, pass, task, finalising, lease, left, disturbed>>

Again(s) == s \in {"failed", "running"} \/ (status # "finalising" /\ s = "pending")

\* POST finalise: the failed jobs are to run again.
Finalise ==
  /\ status \in {"finalising", "review"}
  /\ left.retries > 0
  /\ left' = [left EXCEPT !.retries = @ - 1]
  /\ jobs' = [j \in Jobs |-> IF Again(jobs[j]) THEN "pending" ELSE jobs[j]]
  /\ IF status = "finalising" THEN runner' = Started /\ UNCHANGED task
     ELSE Goto(left.retries, "new", 1) /\ UNCHANGED runner
  /\ disturbed' = (disturbed \/ finalising)
  /\ UNCHANGED <<status, pass, finalising, lease>>

\* The process dies, and MeetppRuntime.start resumes the sessions.
Restart ==
  /\ left.crashes > 0
  /\ left' = [left EXCEPT !.crashes = @ - 1]
  /\ task' = [t \in Tasks |-> NoTask]
  /\ finalising' = FALSE
  /\ IF status = "review" THEN
       /\ runner' = "none" /\ UNCHANGED jobs
       /\ lease' = IF lease = "mine" THEN "other" ELSE lease
     ELSE
       /\ runner' = "acquire"
       /\ jobs' = IF status = "running" THEN jobs
                  ELSE [j \in Jobs |-> IF jobs[j] = "running" THEN "pending" ELSE jobs[j]]
       /\ \/ lease' = "free"
          \/ Unanswered("delete") /\ lease' = IF lease = "mine" THEN "other" ELSE lease
  /\ UNCHANGED <<status, pass, disturbed>>

-----------------------------------------------------------------------------

TaskStep(t) ==
  \/ Begin(t) \/ Skip(t) \/ Run(t) \/ Asked(t) \/ Tier2Ends(t)
  \/ JobEnds(t) \/ Review(t) \/ Finish(t)

Next ==
  \/ Acquire \/ Renew \/ Expire \/ StartTask \/ LeaveLoop \/ Release
  \/ \E t \in Tasks : TaskStep(t) \/ Die(t)
  \/ AgentReports
  \/ EndSession \/ Finalise \/ Restart

\* The event loop runs what is ready, every call has a timeout and the runner
\* wakes once a second; people, the agent and the errors owe nothing.
Fairness ==
  /\ WF_vars(Acquire) /\ WF_vars(Expire) /\ WF_vars(StartTask)
  /\ WF_vars(LeaveLoop) /\ WF_vars(Release)
  /\ \A t \in Tasks : WF_vars(TaskStep(t))

Spec == Init /\ [][Next]_vars
FairSpec == Spec /\ Fairness

-----------------------------------------------------------------------------
(* Properties. *)

\* The runner's finalisation and the chair's retries never run the jobs of the
\* session at the same time (run_finalisation, runtime.py:1584-1590).
OneAtATime ==
  \A t, u \in Tasks : Working(t) /\ Working(u) => t = u

\* While a job runs every job before it has been settled: the minutes are not
\* composed while the transcript is being replaced, nor rendered while they are
\* composed, whatever failed, died, was restarted or asked for again before; a
\* retry during the finalisation itself may undo what that has passed.
RunsInOrder ==
  \A t \in Tasks :
    Running(t) /\ ~disturbed => \A j \in Jobs : j < task[t].job => jobs[j] \in Settled

\* And the session comes to the chair's review with every job settled: a restart or
\* the death of a task does not make the finalisation pass over a job.
ReviewIsComplete ==
  status = "review" /\ left.retries = Retries => \A j \in Jobs : jobs[j] \in Settled

InOrder == RunsInOrder /\ ReviewIsComplete

\* A job that is done is never run again, by a retry, a restart or a second task.
DoneIsDone ==
  [][\A j \in Jobs : jobs[j] = "done" => jobs'[j] = "done"]_vars

\* A session that is being finalised comes to its review, whichever jobs fail,
\* tasks die and processes restart (runtime.py:1582-1583: "the session always
\* reaches review").
AlwaysReview == []<>(status # "running" => status = "review")

===============================================================================
