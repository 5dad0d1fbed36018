------------------------------- MODULE Advance -------------------------------
(***************************************************************************)
(* When the AI follows the talk to another point (runtime.py _topic_rule,  *)
(* _advance_decision).  A tick says which point is talked of and whether   *)
(* the chair announced another; from tick to tick the session keeps a      *)
(* summary of both.  The points are the top-level ones, in agenda order.   *)
(* Whether a move that is decided is made, is LivePosition's; here it is   *)
(* made or not.                                                            *)
(***************************************************************************)
EXTENDS Naturals, Sequences, FiniteSets

CONSTANTS
  Last,       \* the points are 1..Last
  Agenda,     \* those that are agenda points, not fixed sections
  Window,     \* LATER_WINDOW
  Hits,       \* LATER_HITS
  Silent,     \* SILENT_MOVE_TICKS; at least Window
  HintFor,    \* ADVANCE_HINT_SECONDS
  MaxTicks

VARIABLES
  live,
  topic,      \* topic_section_id
  candidate,  \* topic_state_json: the candidate
  hint,       \* the last cue, and its age
  hist,       \* later_hist
  run,        \* later_run
  discussed,  \* points that segments are tagged with
  past,       \* history: what the last ticks were about, since the last move
  cued,       \* history: the age of the last cue for each point, since the last move
  ticks

vars == <<live, topic, candidate, hint, hist, run, discussed, past, cued, ticks>>

Points == 1..Last
None == 0
\* Confidences by the thresholds they reach: ADVANCE_HINT_MIN, TOPIC_MIN and
\* PROPOSAL_MIN, TOPIC_SURE, ADVANCE_AUTO.
Faint == 0
Hinted == 1
Likely == 2
Sure == 3
Certain == 4
Nothing == [sid |-> None, conf |-> Faint]
\* What a tick tells, as far as the state tells it apart.
Topics == {Nothing} \cup [sid : Points, conf : Likely..Certain]
Cues == {Nothing} \cup [sid : Points, conf : {Hinted, Certain}]
NoHint == [sid |-> None, age |-> 0]
NoRun == [sid |-> None, n |-> 0]

TypeOK ==
  /\ live \in Points /\ topic \in Points /\ candidate \in Points \cup {None}
  /\ hint.sid \in Points \cup {None} /\ hint.age \in 0..HintFor + 1
  /\ Len(hist) <= Window /\ run.sid \in Points \cup {None} /\ discussed \subseteq Points
  /\ Len(past) <= Silent /\ cued \in [Points -> 0..HintFor + 1]

Forget ==
  /\ candidate' = None /\ hint' = NoHint /\ hist' = <<>> /\ run' = NoRun
  /\ past' = <<>> /\ cued' = [p \in Points |-> HintFor + 1]

Init ==
  /\ live = 1 /\ topic = 1 /\ candidate = None /\ hint = NoHint /\ hist = <<>> /\ run = NoRun
  /\ discussed = {} /\ past = <<>> /\ cued = [p \in Points |-> HintFor + 1] /\ ticks = 0

\* move: the topic and its state start anew at the point that is live.
Reset == Forget

MoveTo(t) == live' = t /\ topic' = t /\ Reset

-----------------------------------------------------------------------------
(* A tick. *)

\* _topic_rule: hysteresis.
Changes(r) == r.sid \notin {None, topic} /\ (r.conf >= Sure \/ (r.conf >= Likely /\ candidate = r.sid))
Candidate(r) == IF r.conf < Likely \/ r.sid = topic \/ Changes(r) THEN None ELSE r.sid

\* Sure talk of a later point, as an entry of later_hist.
Entry(r) == IF r.sid > live /\ r.conf >= Likely THEN r ELSE Nothing

LastOf(s, n) == SubSeq(s, IF Len(s) > n THEN Len(s) - n + 1 ELSE 1, Len(s))
Hist(r) == Append(LastOf(hist, Window - 1), Entry(r))
Run(e) == IF e = Nothing THEN NoRun ELSE [sid |-> e.sid, n |-> IF run.sid = e.sid THEN run.n + 1 ELSE 1]

Hint(a) == IF a.sid > live /\ a.conf >= Hinted THEN [sid |-> a.sid, age |-> 0] ELSE hint

\* "skipping an agenda point nobody talked about stays a proposal"
Skippable(t, spoken) == \A p \in live + 1 .. t - 1 : p \in spoken \/ p \notin Agenda
Told(a, spoken) == a.sid > live /\ a.conf = Certain /\ (a.sid = live + 1 \/ Skippable(a.sid, spoken))

Drifted(h, u, cue) ==
  LET e == h[Len(h)] IN
  /\ e # Nothing
  /\ \/ u.n >= Silent
     \/ /\ cue.sid = e.sid /\ cue.age <= HintFor
        /\ \/ Len(h) >= 2 /\ {h[Len(h)], h[Len(h) - 1]} = {[sid |-> e.sid, conf |-> Certain]}
           \/ Cardinality({i \in 1..Len(h) : h[i].sid = e.sid}) >= Hits

\* _advance_decision, of a topic r and an announcement a: the point to move to.
Decided(r, a) ==
  LET spoken == discussed \cup {IF r.conf >= Likely THEN r.sid ELSE live} IN
  IF Told(a, spoken) THEN a.sid
  ELSE IF Drifted(Hist(r), Run(Entry(r)), Hint(a)) THEN r.sid ELSE None

\* What the histories keep of a topic.
Heard(r) == IF r.conf < Likely THEN Nothing ELSE [r EXCEPT !.conf = IF @ = Certain THEN @ ELSE Likely]

\* A tick that is answered; the AI moves, if it leads and may.
Tick ==
  /\ ticks < MaxTicks /\ ticks' = ticks + 1
  /\ \E r \in Topics, a \in Cues :
       /\ discussed' = discussed \cup {IF r.conf >= Likely THEN r.sid ELSE live}
       /\ \/ /\ Decided(r, a) # None /\ MoveTo(Decided(r, a))
          \/ /\ topic' = IF Changes(r) THEN r.sid ELSE topic
             /\ candidate' = Candidate(r) /\ hint' = Hint(a) /\ hist' = Hist(r) /\ run' = Run(Entry(r))
             /\ past' = LastOf(Append(past, Heard(r)), Silent)
             /\ cued' = IF a.sid > live /\ a.conf >= Hinted THEN [cued EXCEPT ![a.sid] = 0] ELSE cued
             /\ UNCHANGED live

ChairMove ==
  /\ ticks < MaxTicks /\ ticks' = ticks + 1
  /\ \E t \in Points \ {live} : MoveTo(t)
  /\ UNCHANGED discussed

\* The clock, in the unit of HintFor.
Older(n) == IF n > HintFor THEN n ELSE n + 1
Pass ==
  /\ \E p \in Points : cued[p] <= HintFor
  /\ hint' = [hint EXCEPT !.age = IF hint = NoHint THEN 0 ELSE Older(@)]
  /\ cued' = [p \in Points |-> Older(cued[p])]
  /\ UNCHANGED <<live, topic, candidate, hist, run, discussed, past, ticks>>

Next == Tick \/ ChairMove \/ Pass

Spec == Init /\ [][Next]_vars

-----------------------------------------------------------------------------
(* What the steps keep (ServicesProofs): how the summary follows from the   *)
(* last ticks and cues.                                                     *)

\* What is known of a tick.
Known == {Nothing} \cup [sid : Points, conf : {Likely, Certain}]

AdvanceTypes ==
  /\ live \in Points /\ candidate \in Points \cup {None}
  /\ hint \in [sid : Points \cup {None}, age : Nat] /\ cued \in [Points -> Nat]
  /\ hist \in Seq(Topics) /\ past \in Seq(Known) /\ Len(past) <= Silent
  /\ run \in [sid : Points \cup {None}, n : Nat]

\* The j-th before the last.
Back(s, j) == s[Len(s) - j]

\* later_hist has the last ticks, those about later points as they were.
EntryOf(p) == {h \in Topics :
  IF p.sid > live THEN h.sid = p.sid /\ (h.conf = Certain <=> p.conf = Certain) ELSE h = Nothing}
HistHolds ==
  /\ Len(hist) = IF Len(past) < Window THEN Len(past) ELSE Window
  /\ \A j \in 0..(Len(hist) - 1) : Back(hist, j) \in EntryOf(Back(past, j))

\* later_run is as long as the last ticks were about one later point, or longer.
RunHolds ==
  /\ run.n <= Len(past) \/ Len(past) = Silent
  /\ \A j \in 0..(Len(past) - 1) : j < run.n => Back(past, j).sid = run.sid
  /\ IF run.sid = None THEN run.n = 0 /\ (past # <<>> => Back(past, 0).sid <= live)
     ELSE /\ run.n >= 1 /\ past # <<>> /\ run.sid > live
          /\ run.n < Len(past) => Back(past, run.n).sid # run.sid

CuesHold ==
  /\ hint.sid # None => hint.age = cued[hint.sid]
  /\ candidate # None => past # <<>> /\ Back(past, 0).sid = candidate

AdvanceHolds == AdvanceTypes /\ HistHolds /\ RunHolds /\ CuesHold

-----------------------------------------------------------------------------
\* The last n of the ticks p were about t, with at least the confidence c.
StayedOn(p, t, n, c) == Len(p) >= n /\ \A i \in Len(p) - n + 1 .. Len(p) : p[i].sid = t /\ p[i].conf >= c
Often(p, t) == LET w == LastOf(p, Window) IN Cardinality({i \in 1..Len(w) : w[i].sid = t}) >= Hits

(* Whatever the next tick says, the summary decides as the ticks since the  *)
(* last move would (docs/meetpp-v3-contract.md:358-363): a later point that *)
(* was not announced for sure is moved to "only when a cue for that point   *)
(* was heard" lately and the talk is there in two sure ticks in a row or    *)
(* often, or after the talk stayed there for all of SILENT_MOVE_TICKS, and  *)
(* then always; and the topic changes only on a sure tick or on two in a    *)
(* row.                                                                     *)
MovesAsHeard ==
  \A r \in Topics, a \in Cues :
    LET talk == Append(past, Heard(r))
        lately == \/ a.sid = r.sid /\ a.conf >= Hinted
                  \/ r.sid # None /\ cued[r.sid] <= HintFor
        silent == r.sid > live /\ StayedOn(talk, r.sid, Silent, Likely)
        drifts == Drifted(Hist(r), Run(Entry(r)), Hint(a))
    IN
      /\ drifts => silent \/ (lately /\ (StayedOn(talk, r.sid, 2, Certain) \/ Often(talk, r.sid)))
      /\ silent => drifts
      /\ Changes(r) => r.conf >= Sure \/ StayedOn(talk, r.sid, 2, Likely)
=============================================================================
