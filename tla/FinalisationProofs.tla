-------------------------- MODULE FinalisationProofs --------------------------
(***************************************************************************)
(* What holds of the finalisation for any number of retries, restarts and  *)
(* dying tasks: one runs at a time, a job that is done is not run again,   *)
(* and the review comes after every job.                                   *)
(***************************************************************************)
EXTENDS Finalisation, TLAPS

\* A task that works holds the session in _finalising.
HoldsIt == \A t \in Tasks : Working(t) => finalising

\* A task that runs a job is at one of the four, at the first if it waits for
\* the agent's answer, and the job is not settled.
AtItsJob ==
  \A t \in Tasks : Running(t) => /\ task[t].job \in Jobs
                                 /\ task[t].pc = "asking" => task[t].job = Tier2
                                 /\ jobs[task[t].job] \notin Settled

\* No job was reset behind the back of a task that works.
Undisturbed == ~disturbed

ByRetry == disturbed => left.retries < Retries

\* What a task has passed is settled.
PassedSettled ==
  Undisturbed => \A t \in Tasks : Working(t) =>
    /\ \A j \in Jobs : j < task[t].job => jobs[j] \in Settled
    /\ task[t].pc = "sending" => task[t].job = 5

IInv ==
  /\ TypeOK /\ HoldsIt /\ OneAtATime /\ AtItsJob /\ PassedSettled /\ ByRetry
  /\ ReviewIsComplete

LEMMA Constants ==
  /\ Retries \in Nat /\ Crashes \in Nat /\ Deaths \in Nat
BY FinalisationAssumption

LEMMA GotoType ==
  ASSUME task \in [Tasks -> TaskRecord], NEW t \in Tasks, NEW pc \in PC, NEW j \in 1..5,
         Goto(t, pc, j)
  PROVE  task' \in [Tasks -> TaskRecord]
BY DEF Goto, TaskRecord, PC

LEMMA SetJobType ==
  ASSUME jobs \in [Jobs -> JobStatus], NEW j, NEW s \in JobStatus, SetJob(j, s)
  PROVE  jobs' \in [Jobs -> JobStatus]
BY DEF SetJob

LEMMA TaskFacts ==
  ASSUME task \in [Tasks -> TaskRecord], NEW t \in Tasks
  PROVE  task[t].pc \in PC /\ task[t].job \in 1..5 /\ task[t] \in TaskRecord
BY DEF TaskRecord, PC

LEMMA GotoFacts ==
  ASSUME task \in [Tasks -> TaskRecord], NEW t \in Tasks, NEW pc, NEW j, Goto(t, pc, j)
  PROVE  /\ task'[t].pc = pc /\ task'[t].job = j
         /\ \A u \in Tasks : u # t => task'[u] = task[u]
BY DEF Goto

LEMMA SetJobFacts ==
  ASSUME jobs \in [Jobs -> JobStatus], NEW i \in Jobs, NEW s, SetJob(i, s)
  PROVE  jobs'[i] = s /\ \A j \in Jobs : j # i => jobs'[j] = jobs[j]
BY DEF SetJob

LEMMA InitTypeOK == Init => TypeOK
<1>1. NoTask \in TaskRecord
  BY DEF NoTask, TaskRecord, PC
<1>2. [retries |-> Retries, crashes |-> Crashes, deaths |-> Deaths] \in LeftRecord
  BY Constants DEF LeftRecord
<1> QED
  BY <1>1, <1>2 DEF TypeOK, Init, JobStatus

\* The types of the state components are kept by every step from a state where
\* the tasks are at their jobs.
LEMMA NextTypeOK == TypeOK /\ AtItsJob /\ [Next]_vars => TypeOK'
<1> SUFFICES ASSUME TypeOK, AtItsJob, [Next]_vars PROVE TypeOK'
  OBVIOUS
<1>0. /\ status \in {"running", "finalising", "review"}
      /\ jobs \in [Jobs -> JobStatus]
      /\ pass \in {"none", "running"} \cup Settled
      /\ task \in [Tasks -> TaskRecord]
      /\ finalising \in BOOLEAN /\ disturbed \in BOOLEAN
      /\ runner \in {"none", "acquire", "loop", "release", "stopped"}
      /\ lease \in {"free", "mine", "other"}
      /\ left \in LeftRecord
  BY DEF TypeOK
<1>t. /\ NoTask \in TaskRecord
      /\ [pc |-> "new", job |-> 1] \in TaskRecord
      /\ [t \in Tasks |-> NoTask] \in [Tasks -> TaskRecord]
  BY DEF NoTask, TaskRecord, PC
<1>1. CASE Acquire \/ Renew \/ Expire \/ LeaveLoop \/ Release
  BY <1>0, <1>1 DEF TypeOK, Acquire, Renew, Expire, LeaveLoop, Release
<1>4. CASE StartTask
  BY <1>0, <1>4, <1>t DEF TypeOK, StartTask
<1>7. ASSUME NEW t \in Tasks, TaskStep(t) \/ Die(t) PROVE TypeOK'
  <2>0. task[t].pc \in PC /\ task[t].job \in 1..5
    BY <1>0, TaskFacts
  <2>1. CASE Begin(t)
    <3>1. task' \in [Tasks -> TaskRecord]
      <4>1. CASE finalising
        BY <1>0, <1>t, <2>1, <4>1 DEF Begin
      <4>2. CASE ~finalising
        BY <1>0, <2>1, <4>2, GotoType DEF Begin, PC
      <4> QED
        BY <4>1, <4>2
    <3> QED
      BY <1>0, <3>1, <2>1 DEF TypeOK, Begin
  <2>2. CASE Skip(t)
    <3>1. task[t].job + 1 \in 1..5
      BY <2>0, <2>2 DEF Skip, Past
    <3> QED
      BY <1>0, <3>1, <2>2, GotoType DEF TypeOK, Skip, PC
  <2>3. CASE Run(t)
    BY <1>0, <2>0, <2>3, GotoType, SetJobType DEF TypeOK, Run, PC, JobStatus, Settled, Tier2
  <2>4. CASE Asked(t)
    BY <1>0, <2>4, GotoType, SetJobType DEF TypeOK, Asked, PC, JobStatus, Settled, Tier2
  <2>5. CASE Tier2Ends(t)
    BY <1>0, <2>5, GotoType, SetJobType DEF TypeOK, Tier2Ends, PC, JobStatus, Settled, Tier2
  <2>8. CASE Finish(t)
    BY <1>0, <1>t, <2>8 DEF TypeOK, Finish
  <2>9. CASE Die(t)
    <3>1. left' \in LeftRecord
      BY <1>0, <2>9, Constants DEF Die, LeftRecord
    <3>2. task' \in [Tasks -> TaskRecord]
      BY <1>0, <1>t, <2>9 DEF Die
    <3> QED
      BY <1>0, <3>1, <3>2, <2>9 DEF TypeOK, Die
  <2>7. CASE Review(t)
    BY <1>0, <2>7, GotoType DEF TypeOK, Review, PC
  <2>6. CASE JobEnds(t)
    <3>1. task[t].job + 1 \in 1..5
      BY <2>0, <2>6 DEF AtItsJob, Running, Jobs, JobEnds
    <3> QED
      BY <1>0, <3>1, <2>6, GotoType, SetJobType DEF TypeOK, JobEnds, PC, JobStatus, Settled
  <2> QED
    BY <1>7, <2>1, <2>2, <2>3, <2>4, <2>5, <2>6, <2>7, <2>8, <2>9 DEF TaskStep
<1>8. CASE AgentReports
  BY <1>0, <1>8 DEF TypeOK, AgentReports
<1>9. CASE EndSession
  BY <1>0, <1>9 DEF TypeOK, EndSession, Started
<1>10. CASE Finalise
  <2>1. left' \in LeftRecord /\ left.retries \in Tasks
    BY <1>0, <1>10, Constants DEF Finalise, LeftRecord, Tasks
  <2>2. jobs' \in [Jobs -> JobStatus]
    BY <1>0, <1>10 DEF Finalise, JobStatus
  <2> QED
    BY <1>0, <1>10, <2>1, <2>2, GotoType DEF TypeOK, Finalise, Started, PC
<1>11. CASE Restart
  <2>1. left' \in LeftRecord
    BY <1>0, <1>11, Constants DEF Restart, LeftRecord
  <2>2. jobs' \in [Jobs -> JobStatus]
    BY <1>0, <1>11 DEF Restart, JobStatus
  <2> QED
    BY <1>0, <1>t, <1>11, <2>1, <2>2 DEF TypeOK, Restart
<1>12. CASE UNCHANGED vars
  BY <1>12 DEF vars, TypeOK
<1> QED
  BY <1>1, <1>4, <1>7, <1>8, <1>9, <1>10, <1>11, <1>12 DEF Next

LEMMA InvInit == Init => IInv
<1> SUFFICES ASSUME Init PROVE IInv
  OBVIOUS
<1>1. \A t \in Tasks : ~Working(t) /\ ~Running(t)
  BY DEF Init, NoTask, Working, Running
<1> QED
  BY <1>1, InitTypeOK DEF IInv, HoldsIt, OneAtATime, AtItsJob, PassedSettled, ByRetry, ReviewIsComplete, Init

\* A step of the only working task keeps the invariant when it goes on, past what
\* is settled, or lets the session go.
LEMMA InvNext == IInv /\ [Next]_vars => IInv'
<1> SUFFICES ASSUME IInv, [Next]_vars PROVE IInv'
  OBVIOUS
<1>0. TypeOK' /\ TypeOK
  BY NextTypeOK DEF IInv
<1>t. /\ task \in [Tasks -> TaskRecord] /\ task' \in [Tasks -> TaskRecord]
      /\ jobs \in [Jobs -> JobStatus] /\ jobs' \in [Jobs -> JobStatus]
      /\ \A t \in Tasks : task[t].job \in 1..5
      /\ finalising \in BOOLEAN
  BY <1>0, TaskFacts DEF TypeOK
<1> USE DEF IInv
<1>1. CASE UNCHANGED <<status, jobs, task, finalising, disturbed, left>>
  BY <1>0, <1>1 DEF HoldsIt, OneAtATime, AtItsJob, PassedSettled, ByRetry, ReviewIsComplete,
     Working, Running, Undisturbed
<1>2. CASE StartTask
  <2>1. \A u \in Tasks : (Working(u)' => Working(u)) /\ (Running(u)' => Running(u))
                         /\ (Working(u)' => task'[u] = task[u])
    BY <1>t, <1>2 DEF StartTask, Working, Running
  <2> QED
    BY <1>0, <1>2, <2>1 DEF StartTask, HoldsIt, OneAtATime, AtItsJob, PassedSettled, ByRetry,
       ReviewIsComplete, Working, Running, Undisturbed
<1>3. CASE EndSession
  BY <1>0, <1>3 DEF EndSession, HoldsIt, OneAtATime, AtItsJob, PassedSettled, ByRetry,
     ReviewIsComplete, Working, Running, Undisturbed
<1>4. CASE Finalise
  <2>1. \A u \in Tasks : (Working(u)' => Working(u)) /\ (Running(u)' => Running(u))
                         /\ (Working(u)' => task'[u] = task[u])
    BY <1>t, <1>4 DEF Finalise, Goto, Working, Running
  <2>2. \A j \in Jobs : jobs[j] \notin Settled => jobs'[j] \notin Settled
    BY <1>t, <1>4 DEF Finalise, JobStatus, Settled
  <2>3. left'.retries # Retries /\ left'.retries < Retries
    BY <1>0, <1>4, Constants DEF Finalise, TypeOK, LeftRecord
  <2>4. ~disturbed' => (~disturbed /\ \A u \in Tasks : ~Working(u))
    BY <1>4 DEF Finalise, HoldsIt
  <2>5. HoldsIt' /\ OneAtATime'
    <3>1. finalising' = finalising
      BY <1>4 DEF Finalise
    <3>2. HoldsIt'
      BY <2>1, <3>1 DEF HoldsIt
    <3>3. OneAtATime'
      BY <2>1 DEF OneAtATime, Working
    <3> QED
      BY <3>2, <3>3
  <2>6. AtItsJob'
    BY <2>1, <2>2 DEF AtItsJob, Running, Working
  <2>7. PassedSettled'
    BY <2>1, <2>3, <2>4 DEF PassedSettled, Undisturbed
  <2>8. ReviewIsComplete'
    BY <2>3 DEF ReviewIsComplete
  <2>9. ByRetry'
    BY <1>0, <2>3, Constants DEF ByRetry
  <2> QED
    BY <1>0, <2>5, <2>6, <2>7, <2>8, <2>9
<1>5. CASE Restart
  <2>1. \A u \in Tasks : ~Working(u)' /\ ~Running(u)'
    BY <1>5 DEF Restart, NoTask, Working, Running
  <2>2. status' = status /\ left'.retries = left.retries /\ (status = "review" => jobs' = jobs)
    BY <1>0, <1>5 DEF Restart, TypeOK, LeftRecord
  <2>3. HoldsIt' /\ OneAtATime' /\ AtItsJob' /\ PassedSettled'
    BY <2>1 DEF HoldsIt, OneAtATime, AtItsJob, PassedSettled
  <2>4. ReviewIsComplete'
    BY <2>2 DEF ReviewIsComplete
  <2>5. ByRetry'
    BY <1>0, <1>5 DEF Restart, ByRetry, TypeOK, LeftRecord
  <2> QED
    BY <1>0, <2>3, <2>4, <2>5
<1>6. ASSUME NEW t \in Tasks, TaskStep(t) \/ Die(t) PROVE IInv'
  <2>1. CASE Begin(t)
    <3>1. CASE finalising
      <4>1. \A u \in Tasks : (Working(u)' => Working(u)) /\ (Running(u)' => Running(u))
                             /\ (Working(u)' => task'[u] = task[u])
        BY <1>t, <2>1, <3>1 DEF Begin, NoTask, Working, Running
      <4>2. UNCHANGED <<status, jobs, finalising, disturbed, left>>
        BY <2>1, <3>1 DEF Begin
      <4>3. HoldsIt' /\ OneAtATime'
        BY <4>1, <4>2 DEF HoldsIt, OneAtATime, Working
      <4>4. AtItsJob'
        BY <4>1, <4>2 DEF AtItsJob, Running, Working
      <4>5. PassedSettled'
        BY <4>1, <4>2 DEF PassedSettled, Undisturbed
      <4>6. ReviewIsComplete'
        BY <4>2 DEF ReviewIsComplete
      <4>7. ByRetry'
        BY <4>2 DEF ByRetry
      <4> QED
        BY <1>0, <4>3, <4>4, <4>5, <4>6, <4>7
    <3>2. CASE ~finalising
      <4>1. \A u \in Tasks : ~Working(u) /\ ~Running(u)
        BY <3>2 DEF HoldsIt, Working, Running
      <4>2. task'[t].pc = "check" /\ task'[t].job = 1 /\ \A u \in Tasks : u # t => task'[u] = task[u]
        BY <1>t, <2>1, <3>2, GotoFacts DEF Begin
      <4>3. \A u \in Tasks : ~Running(u)' /\ (Working(u)' => u = t)
        BY <4>1, <4>2 DEF Running, Working
      <4> QED
        BY <1>0, <2>1, <3>2, <4>2, <4>3 DEF Begin, HoldsIt, OneAtATime, AtItsJob, PassedSettled, ByRetry,
           ReviewIsComplete, Undisturbed, Jobs
    <3> QED
      BY <3>1, <3>2
  <2>2. ASSUME Working(t), ~Begin(t) PROVE IInv'
    <3>1. \A u \in Tasks : u # t => ~Working(u) /\ ~Running(u)
      BY <2>2 DEF OneAtATime, Working, Running
    <3>2. finalising
      BY <2>2 DEF HoldsIt
    <3>3. CASE Finish(t) \/ Die(t)
      <4>1. \A u \in Tasks : ~Working(u)' /\ ~Running(u)'
        BY <1>t, <3>1, <3>3 DEF Finish, Die, NoTask, Working, Running
      <4>2. left'.retries = left.retries /\ status' = status /\ jobs' = jobs /\ disturbed' = disturbed
        BY <1>0, <3>3 DEF Finish, Die, TypeOK, LeftRecord
      <4> QED
        BY <1>0, <4>1, <4>2 DEF HoldsIt, OneAtATime, AtItsJob, PassedSettled, ByRetry, ReviewIsComplete
    \* The other steps move the task to a later point and settle what they pass.
    <3>4. ASSUME NEW pc \in PC, NEW j \in 1..5, Goto(t, pc, j),
                 finalising' = finalising, disturbed' = disturbed, left' = left,
                 pc \in {"asking", "busy"} => j \in Jobs /\ jobs'[j] \notin Settled,
                 pc = "asking" => j = Tier2,
                 pc = "sending" => j = 5,
                 j >= task[t].job,
                 \A i \in Jobs : i < j => jobs'[i] \in Settled \/ (i < task[t].job /\ jobs'[i] = jobs[i]),
                 status' = "review" => (status = "review" /\ \A i \in Jobs : jobs[i] \in Settled => jobs'[i] \in Settled)
                                       \/ (pc = "sending" /\ task[t].job = 5)
          PROVE  IInv'
      <4>1. task'[t].pc = pc /\ task'[t].job = j /\ \A u \in Tasks : u # t => task'[u] = task[u]
        BY <1>t, <3>4, GotoFacts
      <4>2. \A u \in Tasks : u # t => ~Working(u)' /\ ~Running(u)'
        BY <3>1, <4>1 DEF Working, Running
      <4>3. HoldsIt' /\ OneAtATime'
        BY <3>2, <3>4, <4>2 DEF HoldsIt, OneAtATime
      <4>4. AtItsJob'
        BY <3>4, <4>1, <4>2 DEF AtItsJob, Running
      <4>5. Undisturbed => \A i \in Jobs : i < j => jobs'[i] \in Settled
        BY <1>t, <2>2, <3>4 DEF PassedSettled
      <4>6. PassedSettled'
        BY <3>4, <4>1, <4>2, <4>5 DEF PassedSettled, Undisturbed, Working
      <4>7. ReviewIsComplete'
        BY <1>0, <3>4, <4>5, Constants DEF ReviewIsComplete, Undisturbed, ByRetry, Jobs, TypeOK, LeftRecord
      <4>8. ByRetry'
        BY <3>4 DEF ByRetry
      <4> QED
        BY <1>0, <4>3, <4>4, <4>6, <4>7, <4>8
    <3>5. CASE Skip(t)
      <4>1. Goto(t, "check", task[t].job + 1) /\ jobs' = jobs /\ task[t].job + 1 \in 1..5
        BY <1>t, <3>5 DEF Skip, Past
      <4>2. jobs[task[t].job] \in Settled
        BY <3>5 DEF Skip
      <4> QED
        BY <1>t, <3>4, <3>5, <4>1, <4>2 DEF Skip, PC, Jobs
    <3>6. CASE Run(t)
      <4>0. task[t].job \in Jobs /\ jobs[task[t].job] \notin Settled
        BY <1>t, <3>6 DEF Run, Past, Jobs
      <4>1. CASE task[t].job # Tier2
        <5>1. jobs'[task[t].job] = "running" /\ \A i \in Jobs : i # task[t].job => jobs'[i] = jobs[i]
          BY <1>t, <3>6, <4>0, <4>1, SetJobFacts DEF Run
        <5>2. Goto(t, "busy", task[t].job)
          BY <3>6, <4>1 DEF Run
        <5> QED
          BY <1>t, <3>4, <3>6, <4>0, <5>1, <5>2 DEF Run, PC, Jobs, Settled
      <4>2. CASE task[t].job = Tier2 /\ pass = "done"
        <5>1. jobs'[Tier2] = "done" /\ \A i \in Jobs : i # Tier2 => jobs'[i] = jobs[i]
          BY <1>t, <3>6, <4>0, <4>2, SetJobFacts DEF Run
        <5>2. Goto(t, "check", 2)
          BY <3>6, <4>2 DEF Run
        <5> QED
          BY <1>t, <3>4, <3>6, <4>2, <5>1, <5>2 DEF Run, PC, Jobs, Settled, Tier2
      <4>3. CASE task[t].job = Tier2 /\ pass # "done"
        <5>1. jobs' = jobs /\ Goto(t, "asking", Tier2)
          BY <3>6, <4>3 DEF Run
        <5> QED
          BY <1>t, <3>4, <3>6, <4>0, <4>3, <5>1 DEF Run, PC, Jobs, Tier2
      <4> QED
        BY <4>1, <4>2, <4>3
    <3>7. CASE Asked(t) \/ Tier2Ends(t)
      <4>0. task[t].job = Tier2 /\ jobs[Tier2] \notin Settled /\ Tier2 \in Jobs
        BY <3>7 DEF Asked, Tier2Ends, AtItsJob, Running, Jobs, Tier2
      <4>1. CASE Asked(t) /\ SetJob(Tier2, "running") /\ Goto(t, "busy", Tier2)
        <5>1. jobs'[Tier2] = "running" /\ \A i \in Jobs : i # Tier2 => jobs'[i] = jobs[i]
          BY <1>t, <4>0, <4>1, SetJobFacts
        <5> QED
          BY <1>t, <3>4, <4>0, <4>1, <5>1 DEF Asked, PC, Jobs, Settled, Tier2
      <4>2. ASSUME NEW s \in Settled, SetJob(Tier2, s), Goto(t, "check", 2) PROVE IInv'
        <5>1. jobs'[Tier2] = s /\ \A i \in Jobs : i # Tier2 => jobs'[i] = jobs[i]
          BY <1>t, <4>0, <4>2, SetJobFacts
        <5>2. finalising' = finalising /\ disturbed' = disturbed /\ left' = left /\ status' = status
          BY <3>7 DEF Asked, Tier2Ends
        <5> QED
          BY <1>t, <3>4, <4>0, <4>2, <5>1, <5>2 DEF PC, Jobs, Settled, Tier2
      <4> QED
        BY <3>7, <4>1, <4>2 DEF Asked, Tier2Ends, Settled
    <3>8. CASE JobEnds(t)
      <4>0. task[t].job \in Jobs /\ jobs[task[t].job] \notin Settled /\ task[t].job + 1 \in 1..5
        BY <1>t, <3>8 DEF JobEnds, AtItsJob, Running, Jobs
      <4>1. PICK s \in {"done", "failed"} : SetJob(task[t].job, s)
        BY <3>8 DEF JobEnds
      <4>2. jobs'[task[t].job] = s /\ \A i \in Jobs : i # task[t].job => jobs'[i] = jobs[i]
        BY <1>t, <4>0, <4>1, SetJobFacts
      <4>3. Goto(t, "check", task[t].job + 1)
        BY <3>8 DEF JobEnds
      <4> QED
        BY <1>t, <3>4, <3>8, <4>0, <4>2, <4>3 DEF JobEnds, PC, Jobs, Settled
    <3>9. CASE Review(t)
      <4>1. task[t].job = 5 /\ Goto(t, "sending", 5)
        BY <1>t, <3>9 DEF Review, Past
      <4> QED
        BY <1>t, <3>4, <3>9, <4>1 DEF Review, PC, Jobs
    <3> QED
      BY <1>6, <2>2, <3>3, <3>5, <3>6, <3>7, <3>8, <3>9 DEF TaskStep
  <2> QED
    BY <1>6, <2>1, <2>2
       DEF TaskStep, Working, Skip, Run, Asked, Tier2Ends, JobEnds, Review, Finish, Die
<1> QED
  BY <1>1, <1>2, <1>3, <1>4, <1>5, <1>6
     DEF Next, Acquire, Renew, Expire, LeaveLoop, Release, AgentReports, vars

\* Working, retried or restarted, the tasks keep the invariant.
LEMMA Invariant == Spec => []IInv
BY InvInit, InvNext, PTL DEF Spec

\* The types of the state components (sessions.jobs_json, _finalising, the lease)
\* are kept.
THEOREM TypeCorrect == Spec => []TypeOK
<1>1. IInv => TypeOK
  BY DEF IInv
<1> QED
  BY <1>1, Invariant, PTL

\* No two finalisation tasks run the jobs of a session at once.
THEOREM OneFinalisation == Spec => []OneAtATime
<1>1. IInv => OneAtATime
  BY DEF IInv
<1> QED
  BY <1>1, Invariant, PTL

\* A job runs only after every job before it, unless a retry came during the
\* finalisation that runs it; and the first review comes after every job was
\* settled.
THEOREM JobsInOrder == Spec => []InOrder
<1>1. IInv => RunsInOrder
  BY DEF IInv, PassedSettled, Undisturbed, RunsInOrder, Running, Working
<1>2. IInv => InOrder
  BY <1>1 DEF IInv, InOrder
<1> QED
  BY <1>2, Invariant, PTL

\* A job that is done stays done: no task is at a job that is settled.
THEOREM DoneStays == Spec => DoneIsDone
<1>1. IInv /\ [Next]_vars => [\A j \in Jobs : jobs[j] = "done" => jobs'[j] = "done"]_vars
  <2> SUFFICES ASSUME IInv, Next, NEW j \in Jobs, jobs[j] = "done"
               PROVE  jobs'[j] = "done"
    OBVIOUS
  <2>0. jobs \in [Jobs -> JobStatus]
    BY DEF IInv, TypeOK
  <2>1. CASE Finalise
    BY <2>1 DEF Finalise, Again
  <2>2. CASE Restart
    BY <2>2 DEF Restart
  <2>3. ASSUME NEW t \in Tasks, NEW s, NEW i \in Jobs, SetJob(i, s), jobs[i] \notin Settled
        PROVE  jobs'[j] = "done"
    BY <2>0, <2>3, SetJobFacts DEF Settled
  <2>4. ASSUME NEW t \in Tasks, TaskStep(t) \/ Die(t) PROVE jobs'[j] = "done"
    <3>1. Running(t) => task[t].job \in Jobs /\ jobs[task[t].job] \notin Settled
      BY DEF IInv, AtItsJob
    <3>2. CASE Run(t)
      <4>1. task[t].job \in Jobs /\ jobs[task[t].job] \notin Settled
        <5>1. task[t].job \in 1..5
          BY TaskFacts DEF IInv, TypeOK
        <5> QED
          BY <3>2, <5>1 DEF Run, Past, Jobs
      <4> QED
        BY <2>3, <3>2, <4>1 DEF Run
    <3>3. CASE Asked(t) \/ Tier2Ends(t)
      <4>1. task[t].job = Tier2 /\ Running(t)
        BY <3>3 DEF Asked, Tier2Ends, IInv, AtItsJob, Running
      <4> QED
        BY <2>3, <3>1, <3>3, <4>1 DEF Asked, Tier2Ends
    <3>4. CASE JobEnds(t)
      BY <2>3, <3>1, <3>4 DEF JobEnds, Running
    <3>5. CASE Begin(t) \/ Skip(t) \/ Review(t) \/ Finish(t) \/ Die(t)
      BY <3>5 DEF Begin, Skip, Review, Finish, Die
    <3> QED
      BY <2>4, <3>2, <3>3, <3>4, <3>5 DEF TaskStep
  <2> QED
    BY <2>1, <2>2, <2>4
       DEF Next, Acquire, Renew, Expire, StartTask, LeaveLoop, Release, AgentReports, EndSession
<1> QED
  BY <1>1, Invariant, PTL DEF Spec, DoneIsDone
===============================================================================
