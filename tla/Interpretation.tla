--------------------------- MODULE Interpretation ---------------------------
(***************************************************************************)
(* How the transcript of a session is read by the interpretation ticks     *)
(* (runtime.tick and its runner).  A tick selects the next window of the   *)
(* transcript, waits for the model, and commits the operations of the      *)
(* reply together with the cursor; while it waits the session may pause or *)
(* end, more is said, and the process may be restarted.  What a tick does  *)
(* not read is recorded as a gap.                                          *)
(* Segments are known by their sequence numbers, which ingest gives out in *)
(* the order of arrival; the times they were spoken at may be out of order.*)
(***************************************************************************)
EXTENDS Integers, Sequences, FiniteSets

CONSTANTS
  Window,      \* WINDOW_SECONDS, in steps of the speakers' clock
  WindowSize,  \* most segments of a window (80)
  CatchUp,     \* CATCHUP_SECONDS
  Late,        \* how much earlier than one before it a segment may be spoken
  MaxSeq,      \* bounds the transcript
  MaxTime      \* bounds the speakers' clock

ASSUME InterpretationAssumption ==
  /\ {Window, CatchUp, Late, MaxSeq, MaxTime} \subseteq Nat
  /\ WindowSize \in Nat \ {0}

VARIABLES
  session,    \* sessions.status
  configured, \* an LLM is configured (a setting, fixed)
  segs,       \* segments by seq: a gap row or a final, and its time
  cursor,     \* sessions.transcript_cursor
  down,       \* runner.llm_down
  tick,       \* the tick in flight and its window
  applied,    \* history: the segments whose window was applied
  gapped      \* segments in the recorded interpretation gaps

vars == <<session, configured, segs, cursor, down, tick, applied, gapped>>

Seqs == 1..Len(segs)
IdleTick == [phase |-> "idle", window |-> {}, to |-> 0]

TypeOK ==
  /\ session \in {"running", "paused", "over"}
  /\ configured \in BOOLEAN
  /\ segs \in Seq([gap : BOOLEAN, t : Nat])
  /\ cursor \in 0..Len(segs)
  /\ down \in BOOLEAN
  /\ tick \in [phase : {"idle", "calling", "published"}, window : SUBSET Seqs, to : 0..Len(segs)]
  /\ applied \subseteq Seqs
  /\ gapped \subseteq Seqs

Init ==
  /\ session = "running"
  /\ configured \in BOOLEAN
  /\ segs = <<>>
  /\ cursor = 0
  /\ down = FALSE
  /\ tick = IdleTick
  /\ applied = {}
  /\ gapped = {}

IsFirst(S, s) == s \in S /\ \A r \in S : s <= r
IsLast(S, s) == s \in S /\ \A r \in S : r <= s
(* The range of sequence numbers a gap record over S names. *)
Span(S) == {s \in Seqs : \E a, b \in S : a <= s /\ s <= b}

-----------------------------------------------------------------------------
(* The meeting. *)

(* Ingest stores a segment or a gap row whatever the session's status. *)
Ingest ==
  /\ Len(segs) < MaxSeq
  /\ \E gap \in BOOLEAN, t \in 0..MaxTime :
       /\ \A s \in Seqs : segs[s].t <= t + Late
       /\ segs' = Append(segs, [gap |-> gap, t |-> t])
  /\ UNCHANGED <<session, configured, cursor, down, tick, applied, gapped>>

SetStatus ==
  /\ \/ session = "running" /\ session' \in {"paused", "over"}
     \/ session = "paused" /\ session' \in {"running", "over"}
  /\ UNCHANGED <<configured, segs, cursor, down, tick, applied, gapped>>

(* The process is restarted: the tick in flight and the runner's flag go. *)
Restart ==
  /\ tick # IdleTick \/ down
  /\ tick' = IdleTick
  /\ down' = FALSE
  /\ UNCHANGED <<session, configured, segs, cursor, applied, gapped>>

-----------------------------------------------------------------------------
(* A tick selects its window (_select_window) and commits. *)

Finals(c) == {s \in Seqs : s > c /\ ~segs[s].gap}

(* After an outage, finals older than CatchUp before the newest are skipped.*)
TooOld(F) ==
  IF down THEN {s \in F : \E n \in F : IsLast(F, n) /\ segs[s].t + CatchUp < segs[n].t}
  ELSE {}

(* Mutant: later segments spoken in time are taken over earlier ones.       *)
WindowByTime(F) ==
  {s \in F : /\ Cardinality({r \in F : r < s}) < WindowSize
             /\ \A f \in F : IsFirst(F, f) => segs[s].t <= segs[f].t + Window}

(* A contiguous run of finals from the first one. *)
WindowOf(F) ==
  {s \in F : /\ Cardinality({r \in F : r < s}) < WindowSize
             /\ \A f, r \in F : IsFirst(F, f) /\ r <= s => segs[r].t <= segs[f].t + Window}

Idle == tick.phase = "idle" /\ session = "running" /\ cursor < Len(segs)

(* Mutant: what the catch-up skips is not recorded. *)
SkipUnrecorded(old, c) ==
  /\ IF old = {} THEN c = cursor ELSE IsLast(old, c)
  /\ UNCHANGED gapped

SkipTo(old, c) ==
  /\ IF old = {} THEN c = cursor ELSE IsLast(old, c)
  /\ gapped' = gapped \cup Span(old)

TickReads ==
  /\ Idle
  /\ configured
  /\ \E c \in cursor..Len(segs) :
       /\ SkipTo(TooOld(Finals(cursor)), c)
       /\ cursor' = c
       /\ \E to \in WindowOf(Finals(c)) :
            /\ IsLast(WindowOf(Finals(c)), to)
            /\ tick' = [phase |-> "calling", window |-> WindowOf(Finals(c)), to |-> to]
  /\ UNCHANGED <<session, configured, segs, down, applied>>

(* Mutant: a transcript of gap rows alone is left where it is. *)
TickLeavesGaps ==
  /\ Idle
  /\ Finals(cursor) = {}
  /\ UNCHANGED vars

(* Only gap rows are left, or no LLM is there: the cursor moves on. *)
TickSkipsGaps ==
  /\ Idle
  /\ Finals(cursor) = {}
  /\ cursor' = Len(segs)
  /\ UNCHANGED <<session, configured, segs, down, tick, applied, gapped>>

TickUnconfigured ==
  /\ Idle
  /\ ~configured
  /\ \E to \in WindowOf(Finals(cursor)) :
       IsLast(WindowOf(Finals(cursor)), to) /\ cursor' = to
  /\ UNCHANGED <<session, configured, segs, down, tick, applied, gapped>>

-----------------------------------------------------------------------------
(* The model has answered or failed. *)

(* Mutants: the cursor follows in a later transaction, which may never come;*)
(* it is taken for the first segment to read next.                          *)
AdvanceLater == cursor' = cursor
AdvancePast == cursor' = tick.to + 1

Advance == cursor' = IF cursor < tick.to THEN tick.to ELSE cursor

(* Paused or ended meanwhile: nothing is applied, the cursor stays. *)
TickDropped ==
  /\ tick.phase = "calling"
  /\ session # "running"
  /\ tick' = IdleTick
  /\ UNCHANGED <<session, configured, segs, cursor, down, applied, gapped>>

LlmDown ==
  /\ tick.phase = "calling"
  /\ session = "running"
  /\ down' = TRUE
  /\ tick' = IdleTick
  /\ UNCHANGED <<session, configured, segs, cursor, applied, gapped>>

(* The reply cannot be parsed, or applying it fails and is rolled back. *)
TickGap ==
  /\ tick.phase = "calling"
  /\ session = "running"
  /\ down' = FALSE
  /\ gapped' = gapped \cup Span(tick.window)
  /\ Advance
  /\ tick' = IdleTick
  /\ UNCHANGED <<session, configured, segs, applied>>

(* The operations and the cursor are committed, then broadcast. *)
TickApplied ==
  /\ tick.phase = "calling"
  /\ session = "running"
  /\ down' = FALSE
  /\ applied' = applied \cup tick.window
  /\ Advance
  /\ tick' = [tick EXCEPT !.phase = "published"]
  /\ UNCHANGED <<session, configured, segs, gapped>>

(* The advance after the broadcast is done; when it fails, the window that  *)
(* was applied is recorded as a gap as well.                                *)
TickEnds ==
  /\ tick.phase = "published"
  /\ gapped' \in {gapped, gapped \cup Span(tick.window)}
  /\ tick' = IdleTick
  /\ UNCHANGED <<session, configured, segs, cursor, down, applied>>

TickRuns == TickReads \/ TickSkipsGaps \/ TickUnconfigured
CallEnds == TickDropped \/ LlmDown \/ TickGap \/ TickApplied

Next == Ingest \/ SetStatus \/ Restart \/ TickRuns \/ CallEnds \/ TickEnds

(* The runner looks every second; a call ends by its timeout; an outage of  *)
(* the model, and a series of restarts, does not last for ever.             *)
Fairness ==
  /\ WF_vars(TickRuns)
  /\ WF_vars(CallEnds)
  /\ WF_vars(TickEnds)
  /\ SF_vars(TickGap \/ TickApplied)

Spec == Init /\ [][Next]_vars
FairSpec == Spec /\ Fairness

-----------------------------------------------------------------------------
(* No segment's window is applied twice, whatever pauses, failed calls and  *)
(* restarts lie between: an operation is not derived twice from what was    *)
(* said once (tick commits the operations with the cursor).                 *)
AppliedOnce == [][applied' # applied => tick.window \cap applied = {}]_vars

(* A segment of a recorded gap was said before s and stored after it.       *)
Overtaken(s) == \E r \in gapped : s < r /\ segs[r].t < segs[s].t

(* "the cursor ... must not leave an earlier seq behind unticked"           *)
(* (_select_window): what lies behind the cursor was applied or is in a     *)
(* recorded gap, through pauses, failed calls, outages and restarts; only   *)
(* a segment that was stored before an earlier one may be passed over, when *)
(* the catch-up skips the earlier one.                                      *)
NothingLeftBehind ==
  configured => \A s \in 1..cursor : segs[s].gap \/ s \in applied \cup gapped \/ Overtaken(s)

(* "Never stalls the cursor except while the LLM is unreachable" (tick):    *)
(* while the session keeps running the whole transcript is read.            *)
CatchesUp == <>[](session = "running") => <>[](cursor = Len(segs))
=============================================================================
