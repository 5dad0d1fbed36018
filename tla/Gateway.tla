------------------------------- MODULE Gateway -------------------------------
(***************************************************************************)
(* The gateway to the language model (llm.py): the ticks of all sessions   *)
(* share a circuit breaker.  A call that fails for the moment is tried     *)
(* again, a reply that cannot be used is asked for once more; what came of *)
(* a tick is the session's AI status, which the board is told of           *)
(* (runtime.py tick).                                                      *)
(***************************************************************************)
EXTENDS Naturals, FiniteSets, Sequences

CONSTANTS
  Rooms,             \* the sessions running
  Threshold,         \* five failures open the breaker,
  Window, OpenFor,   \* within 120 seconds, for 60
  MaxRetries,        \* llm_max_retries
  MaxNow, MaxTries

VARIABLES
  now,
  brk,      \* _Breaker: the failures, whether it was opened, and probe_at
  failing,  \* _tick_failing
  call,     \* the tick of each session: its request, and how often it was tried
  told,     \* the AI status on the board of each session
  since,    \* history: when the tries since the last success failed
  tries

vars == <<now, brk, failing, call, told, since, tries>>

Idle == [at |-> "idle", retries |-> 0]

TypeOK ==
  /\ now \in 0..MaxNow /\ tries \in 0..MaxTries /\ failing \subseteq Rooms
  /\ brk.failures \in Seq(0..MaxNow) /\ brk.opened \in BOOLEAN /\ brk.probe \in 0..(MaxNow + OpenFor)
  /\ \A s \in Rooms : call[s].at \in {"idle", "first", "repair"} /\ call[s].retries \in 0..MaxRetries
  /\ told \in [Rooms -> {"ok", "paused"}]

Init ==
  /\ now = 0 /\ failing = {} /\ since = <<>> /\ tries = 0
  /\ brk = [failures |-> <<>>, opened |-> FALSE, probe |-> 0]
  /\ call = [s \in Rooms |-> Idle]
  /\ told = [s \in Rooms |-> "ok"]

Tick == now < MaxNow /\ now' = now + 1 /\ UNCHANGED <<brk, failing, call, told, since, tries>>

Available(b) == ~b.opened \/ now >= b.probe

\* ai_status
Status(b, failed) == IF ~Available(b) \/ failed THEN "paused" ELSE "ok"

Recent(at) == now - at < Window

\* record_failure: the failures come in the order of time, so the recent ones are the last.
Kept(failures) ==
  SubSeq(failures, Cardinality({i \in DOMAIN failures : ~Recent(failures[i])}) + 1, Len(failures))

RecordFailure(b) ==
  LET failures == Append(Kept(b.failures), now)
  IN IF Len(failures) >= Threshold
       THEN [failures |-> failures, opened |-> TRUE, probe |-> now + OpenFor]
       ELSE [b EXCEPT !.failures = failures]

RecordSuccess(b) == [b EXCEPT !.failures = <<>>, !.opened = FALSE]

-----------------------------------------------------------------------------
\* tick, after an error: the status of before is read, the session is marked,
\* and the board is told if it was told "ok" before.
TickFails(s, b) ==
  /\ call' = [call EXCEPT ![s] = Idle]
  /\ failing' = failing \cup {s}
  /\ told' = IF Status(b, s \in failing) = "ok" THEN [told EXCEPT ![s] = Status(b, TRUE)] ELSE told

\* After a reply, also one that could not be used the second time.
TickEnds(s, b) ==
  /\ call' = [call EXCEPT ![s] = Idle]
  /\ failing' = failing \ {s}
  /\ told' = IF Status(b, s \in failing) # "ok" THEN [told EXCEPT ![s] = Status(b, FALSE)] ELSE told

\* complete_json: the breaker is asked once, before the first try.
Start(s) ==
  /\ call[s].at = "idle" /\ tries < MaxTries
  /\ IF Available(brk) THEN call' = [call EXCEPT ![s].at = "first"] /\ UNCHANGED <<failing, told>>
     ELSE TickFails(s, brk)
  /\ UNCHANGED <<now, brk, since, tries>>

\* The model answers; a reply that is no JSON is "repaired once".
Answers(s) ==
  /\ call[s].at # "idle" /\ tries < MaxTries /\ tries' = tries + 1
  /\ brk' = RecordSuccess(brk) /\ since' = <<>>
  /\ \/ TickEnds(s, brk')
     \/ /\ call[s].at = "first"
        /\ call' = [call EXCEPT ![s] = [at |-> "repair", retries |-> 0]]
        /\ UNCHANGED <<failing, told>>
  /\ UNCHANGED now

\* It does not: 429 and 5xx are tried again after a pause.
Fails(s) ==
  /\ call[s].at # "idle" /\ tries < MaxTries /\ tries' = tries + 1
  /\ brk' = RecordFailure(brk) /\ since' = Append(since, now)
  /\ \/ /\ call[s].retries < MaxRetries
        /\ call' = [call EXCEPT ![s].retries = @ + 1] /\ UNCHANGED <<failing, told>>
     \/ TickFails(s, brk')
  /\ UNCHANGED now

Next == Tick \/ \E s \in Rooms : Start(s) \/ Answers(s) \/ Fails(s)

Spec == Init /\ [][Next]_vars

-----------------------------------------------------------------------------
\* The i-th of the failures since the last success was one too many.
Trips(i) == Cardinality({j \in 1..i : since[i] - since[j] < Window}) >= Threshold

(* What the steps keep (ServicesProofs): the breaker has the failures that  *)
(* were recent when the last one came, and was opened by the last that      *)
(* tripped it.                                                              *)
BreakerHolds ==
  LET forgotten == Len(since) - Len(brk.failures) IN
  /\ now \in Nat /\ since \in Seq(Nat)
  /\ brk \in [failures : Seq(Nat), opened : BOOLEAN, probe : Nat]
  /\ \A i \in 1..Len(since) : since[i] <= now /\ \A j \in 1..i : since[j] <= since[i]
  /\ forgotten >= 0
  /\ \A i \in 1..Len(brk.failures) : brk.failures[i] = since[forgotten + i]
  /\ \A i \in 1..Len(since) : since[Len(since)] - since[i] < Window <=> i > forgotten
  /\ IF brk.opened
       THEN \E i \in 1..Len(since) :
              /\ Trips(i) /\ brk.probe = since[i] + OpenFor
              /\ \A j \in 1..Len(since) : Trips(j) => j <= i
       ELSE \A i \in 1..Len(since) : ~Trips(i)

(* The breaker refuses a call exactly when a try failed less than OpenFor   *)
(* ago, and with it Threshold have failed within Window since the last that *)
(* was answered, whichever sessions they were of.                           *)
RefusesInTime ==
  ~Available(brk) <=>
    \E i \in DOMAIN since : now - since[i] < OpenFor /\ Trips(i)

(* "paused (tick breaker open or the last tick failed)" (contract): a board *)
(* whose session's last tick failed says so.                                *)
PauseShown == \A s \in Rooms : s \in failing /\ call[s].at = "idle" => told[s] = "paused"
=============================================================================
