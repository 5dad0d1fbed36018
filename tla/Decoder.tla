------------------------------- MODULE Decoder -------------------------------
(***************************************************************************)
(* The one thread of the agent that transcribes for all its sessions when  *)
(* the speech service does not (worker.py, stt.py): a queue in order of    *)
(* submission, a bound on how long an utterance may wait in it, a smaller  *)
(* model while it is behind, and the count by which each session waits for *)
(* what it is owed (session.py).  The thread hands its verdicts to the     *)
(* event loop, which handles them later, one by one.                       *)
(***************************************************************************)
EXTENDS Naturals, Sequences, FiniteSets, Functions

CONSTANTS
  Sessions,
  MaxItems,   \* utterances
  Degrade,    \* DEGRADE_ABOVE_S
  Recover,    \* RECOVER_BELOW_S
  DropAbove,  \* DROP_ABOVE_S
  MaxNow

VARIABLES
  now,
  load,         \* the models that are loaded
  queue,        \* utterances that wait
  inflight,     \* the one that is being decoded
  owes,         \* those the thread dropped and has not reported
  degraded,
  told,         \* verdicts on their way to the event loop
  away,         \* utterances the speech service was asked for first
  outstanding,  \* _stt_outstanding
  open,         \* the sessions that are not closed
  verdicts,     \* history: how many the session heard of each utterance
  taken         \* history: how old the last utterance was when it was taken

vars == <<now, load, queue, inflight, owes, degraded, told, away, outstanding, open, verdicts, taken>>

Items == 1..MaxItems
Uttered == DOMAIN verdicts
Nobody == [n |-> 0, s |-> "none", at |-> 0, heard |-> FALSE]
Item(n, s) == [n |-> n, s |-> s, at |-> now, heard |-> FALSE]
Loading == {"loading"}

TypeOK ==
  /\ now \in 0..MaxNow /\ load \in SUBSET {"small", "base"} \cup {Loading}
  /\ \A i \in 1..Len(queue) : queue[i].n \in Items /\ queue[i].s \in Sessions
  /\ inflight.n \in Items \cup {0} /\ degraded \in BOOLEAN /\ owes \in Seq(Items)
  /\ told \in Seq(Items) /\ away \subseteq Items
  /\ outstanding \in [Sessions -> 0..MaxItems]
  /\ open \subseteq Sessions
  /\ \A n \in Uttered : verdicts[n].s \in Sessions /\ verdicts[n].heard \in 0..2

Init ==
  /\ now = 0 /\ load = Loading
  /\ queue = <<>> /\ inflight = Nobody /\ owes = <<>> /\ degraded = FALSE /\ told = <<>> /\ away = {}
  /\ outstanding = [s \in Sessions |-> 0] /\ open = Sessions
  /\ verdicts = <<>> /\ taken = [age |-> 0, by |-> "none"]

-----------------------------------------------------------------------------
(* The models. *)

\* load: the better one and the smaller one; the thread starts if either is there.
Load ==
  /\ load = Loading /\ load' \in SUBSET {"small", "base"}
  /\ UNCHANGED <<now, queue, inflight, owes, degraded, told, away, outstanding, open, verdicts, taken>>

Ready == load \notin {Loading, {}}
Primary == IF "small" \in load THEN "small" ELSE "base"
ModelFor(d) == IF d /\ "base" \in load THEN "base" ELSE Primary

-----------------------------------------------------------------------------
(* The queue. *)

\* _enforce_locked: the first ones, while they have waited too long.
Late(q) == SelectSeq(q, LAMBDA i : now - i.at > DropAbove)
Enforced(q) == SelectSeq(q, LAMBDA i : now - i.at <= DropAbove)
Numbers(q) == [i \in 1..Len(q) |-> q[i].n]

Submit(i) ==
  LET q == Append(queue, i) IN
  queue' = Enforced(q) /\ told' = told \o Numbers(Late(q))

\* _backlog_locked: of one session, or of all.
Of(i, ss) == i # Nobody /\ i.s \in ss
Waited(i) == now - i.at
Backlog(i, q, ss) ==
  LET first == SelectSeq(q, LAMBDA j : j.s \in ss) IN
  IF Of(i, ss) THEN (IF first # <<>> /\ Head(first).at < i.at THEN Waited(Head(first)) ELSE Waited(i))
  ELSE IF first # <<>> THEN Waited(Head(first)) ELSE 0

Degraded(i, q) ==
  LET b == Backlog(i, q, Sessions) IN
  IF degraded THEN b >= Recover ELSE b > Degrade

\* next_item.
Take ==
  /\ Ready /\ inflight = Nobody /\ owes = <<>> /\ queue # <<>>
  /\ owes' = Numbers(Late(queue))
  /\ LET q == Enforced(queue) IN
     IF q = <<>> THEN queue' = q /\ UNCHANGED <<inflight, degraded, taken>>
     ELSE /\ queue' = Tail(q) /\ inflight' = Head(q)
          /\ degraded' = Degraded(Head(q), Tail(q))
          /\ taken' = [age |-> Waited(Head(q)), by |-> ModelFor(degraded')]
  /\ UNCHANGED <<now, load, told, away, outstanding, open, verdicts>>

\* _run, while there is no model.
Sweep ==
  /\ ~Ready /\ owes = <<>> /\ Late(queue) # <<>>
  /\ owes' = Numbers(Late(queue)) /\ queue' = Enforced(queue)
  /\ UNCHANGED <<now, load, inflight, degraded, told, away, outstanding, open, verdicts, taken>>

\* _report_drops, once the lock is released.
Report ==
  /\ owes # <<>> /\ told' = told \o owes /\ owes' = <<>>
  /\ UNCHANGED <<now, load, queue, inflight, degraded, away, outstanding, open, verdicts, taken>>

\* transcribe, postprocess: a text; or none, with the reason: no model, no speech,
\* nothing but marks, a phrase the models make up, an error.  Which is no matter here.
Transcribed(i) == [i EXCEPT !.heard = TRUE]

\* process_one: whatever comes of it is dispatched ...
Decode ==
  /\ inflight # Nobody /\ ~inflight.heard /\ owes = <<>>
  /\ told' = Append(told, inflight.n) /\ inflight' = Transcribed(inflight)
  /\ UNCHANGED <<now, load, queue, owes, degraded, away, outstanding, open, verdicts, taken>>

\* ... and after that the utterance is in flight no more.
Decoded ==
  /\ inflight.heard /\ inflight' = Nobody
  /\ UNCHANGED <<now, load, queue, owes, degraded, told, away, outstanding, open, verdicts, taken>>

-----------------------------------------------------------------------------
(* The sessions, on the event loop. *)

Hears(n) == verdicts' = [verdicts EXCEPT ![n].heard = @ + 1]
Less(s) == IF outstanding[s] = 0 THEN 0 ELSE outstanding[s] - 1
Settle(s) == outstanding' = [outstanding EXCEPT ![s] = Less(s)]

\* _on_utterance: to the queue, or to the speech service first.
Utter(s) ==
  LET n == Len(verdicts) + 1 IN
  /\ s \in open /\ n <= MaxItems
  /\ outstanding' = [outstanding EXCEPT ![s] = @ + 1]
  /\ verdicts' = Append(verdicts, [s |-> s, heard |-> 0])
  /\ \/ Submit(Item(n, s)) /\ UNCHANGED away
     \/ away' = away \cup {n} /\ UNCHANGED <<queue, told>>
  /\ UNCHANGED <<now, load, inflight, owes, degraded, open, taken>>

\* _tier2_first.
Served(n) ==
  /\ n \in away /\ away' = away \ {n} /\ Hears(n) /\ Settle(verdicts[n].s)
  /\ UNCHANGED <<now, load, queue, inflight, owes, degraded, told, open, taken>>

Fallback(n) ==
  /\ n \in away /\ away' = away \ {n} /\ Submit(Item(n, verdicts[n].s))
  /\ UNCHANGED <<now, load, inflight, owes, degraded, outstanding, open, verdicts, taken>>

\* _on_stt_result and _on_stt_drop.
Handle ==
  /\ told # <<>> /\ told' = Tail(told)
  /\ Hears(Head(told)) /\ Settle(verdicts[Head(told)].s)
  /\ UNCHANGED <<now, load, queue, inflight, owes, degraded, away, open, taken>>

\* close: the capture is stopped, then the session waits for what is outstanding,
\* but not for ever: the rest is given up, and counted as "session_closed".
Close(s) ==
  /\ s \in open /\ open' = open \ {s}
  /\ IF outstanding[s] = 0 THEN UNCHANGED <<queue, outstanding, verdicts>>
     ELSE /\ queue' = SelectSeq(queue, LAMBDA i : i.s # s)
          /\ outstanding' = [outstanding EXCEPT ![s] = 0]
          /\ verdicts' = [n \in Uttered |->
               IF verdicts[n].s = s /\ n \in Range(Numbers(queue))
                 THEN [verdicts[n] EXCEPT !.heard = @ + 1] ELSE verdicts[n]]
  /\ UNCHANGED <<now, load, inflight, owes, degraded, told, away, taken>>

\* The clock: it matters while there are utterances.
Pass ==
  /\ now < MaxNow /\ (queue # <<>> \/ inflight # Nobody) /\ now' = now + 1
  /\ UNCHANGED <<load, queue, inflight, owes, degraded, told, away, outstanding, open, verdicts, taken>>

Next ==
  \/ Load \/ Take \/ Sweep \/ Report \/ Decode \/ Decoded \/ Handle \/ Pass
  \/ \E s \in Sessions : Utter(s) \/ Close(s)
  \/ \E n \in Items : Served(n) \/ Fallback(n)

Spec == Init /\ [][Next]_vars

-----------------------------------------------------------------------------
Waiting == Range(queue) \cup ({inflight} \ {Nobody})

\* How often the utterance is somewhere on its way to a verdict.
Under(n) ==
  Cardinality({i \in 1..Len(queue) : queue[i].n = n}) + Cardinality({i \in 1..Len(owes) : owes[i] = n})
    + Cardinality({i \in 1..Len(told) : told[i] = n})
    + (IF inflight.n = n /\ ~inflight.heard THEN 1 ELSE 0) + (IF n \in away THEN 1 ELSE 0)

(* "Nothing is dropped silently" (worker.py): each utterance gets one       *)
(* verdict, or is on its way to it, and a session that is not closed waits  *)
(* for just those on their way, so that it neither ends too early nor waits *)
(* for nothing.  The backlog is "the age of the oldest utterance that has   *)
(* been queued but not finished"; the smaller model decodes what waited for *)
(* RECOVER_BELOW_S at least, and all that waited over DEGRADE_ABOVE_S if it *)
(* is there.                                                                *)
SpeechDecoded ==
  /\ \A n \in Uttered : verdicts[n].heard + Under(n) = 1
  /\ \A s \in Sessions :
       /\ s \in open =>
            outstanding[s] = Cardinality({n \in Uttered : verdicts[n].s = s /\ verdicts[n].heard = 0})
       /\ \A i \in Waiting : i.s = s => Backlog(inflight, queue, {s}) >= Waited(i)
       /\ Backlog(inflight, queue, {s}) \in {0} \cup {Waited(i) : i \in {j \in Waiting : j.s = s}}
  /\ load = {"small", "base"} => /\ taken.by = "base" => taken.age >= Recover
                                 /\ taken.by = "small" => taken.age <= Degrade
=============================================================================
