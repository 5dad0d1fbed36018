------------------------ MODULE InterpretationProofs ------------------------
(***************************************************************************)
(* Proofs, for transcripts of any length and any limits, that no segment   *)
(* is applied twice, and that none is left behind while the segments come  *)
(* in the order they were spoken in.                                       *)
(***************************************************************************)
EXTENDS Interpretation, FiniteSetTheorems, TLAPS

Segment == [gap : BOOLEAN, t : Nat]
TickType == [phase : {"idle", "calling", "published"}, window : SUBSET Seqs, to : 0..Len(segs)]

(* A window waiting for its reply lies ahead of the cursor up to its last    *)
(* segment, and what was applied lies behind the cursor.                    *)
WindowAhead ==
  tick.phase = "calling" =>
    IsLast(tick.window, tick.to) /\ \A s \in tick.window : s > cursor
AppliedBehind == \A s \in applied : s <= cursor

IInv == TypeOK /\ WindowAhead /\ AppliedBehind

LEMMA SegmentFacts ==
  ASSUME NEW q \in Seq(Segment), NEW i \in 1..Len(q)
  PROVE  q[i].t \in Nat /\ q[i].gap \in BOOLEAN
<1>1. q[i] \in Segment
  OBVIOUS
<1>2. QED
  BY <1>1 DEF Segment

LEMMA IdleType == IdleTick \in TickType
BY DEF IdleTick, TickType

(* Ingest appends: what is stored stays where it is.                         *)
LEMMA IngestFacts ==
  ASSUME TypeOK, Ingest
  PROVE  /\ segs' \in Seq(Segment)
         /\ Len(segs') = Len(segs) + 1
         /\ Seqs \subseteq Seqs'
         /\ \A s \in Seqs : segs'[s] = segs[s]
         /\ \A s \in Seqs : segs[s].t <= segs'[Len(segs) + 1].t + Late
<1>1. PICK gap \in BOOLEAN, t \in 0..MaxTime :
        /\ \A s \in Seqs : segs[s].t <= t + Late
        /\ segs' = Append(segs, [gap |-> gap, t |-> t])
  BY DEF Ingest
<1> DEFINE new == [gap |-> gap, t |-> t]
<1>2. new \in Segment /\ new.t = t /\ MaxTime \in Nat
  BY InterpretationAssumption DEF Segment
<1>3. segs \in Seq(Segment)
  BY DEF TypeOK, Segment
<1> HIDE DEF new
<1>4. QED
  BY <1>1, <1>2, <1>3 DEF Seqs, new

LEMMA InitInvariant == Init => IInv
<1> SUFFICES ASSUME Init PROVE IInv
  OBVIOUS
<1>1. segs \in Seq(Segment) /\ Len(segs) = 0
  BY DEF Init
<1>2. tick \in TickType
  BY <1>1, IdleType DEF Init
<1>3. QED
  BY <1>1, <1>2 DEF Init, IInv, TypeOK, WindowAhead, AppliedBehind, IdleTick, Segment, TickType

LEMMA StepInvariant == IInv /\ [Next]_vars => IInv'
<1> SUFFICES ASSUME IInv, [Next]_vars PROVE IInv'
  OBVIOUS
<1>0. /\ segs \in Seq(Segment) /\ Len(segs) \in Nat /\ tick \in TickType
      /\ cursor \in 0..Len(segs) /\ applied \subseteq Seqs /\ gapped \subseteq Seqs
      /\ session \in {"running", "paused", "over"} /\ configured \in BOOLEAN /\ down \in BOOLEAN
  BY DEF IInv, TypeOK, Segment, TickType
<1>1. CASE Ingest
  <2>1. tick \in TickType'
    BY <1>0, <1>1, IngestFacts DEF IInv, TickType
  <2>2. TypeOK'
    <3>1. UNCHANGED <<session, configured, cursor, down, tick, applied, gapped>>
      BY <1>1 DEF Ingest
    <3>2. segs' \in Seq(Segment) /\ Len(segs') = Len(segs) + 1 /\ Seqs \subseteq Seqs'
      BY <1>1, IngestFacts DEF IInv
    <3>3. cursor' \in 0..Len(segs')
      BY <1>0, <3>1, <3>2
    <3>4. QED
      BY <1>0, <2>1, <3>1, <3>2, <3>3 DEF TypeOK, Segment, TickType
  <2>3. QED
    BY <1>1, <2>2 DEF Ingest, IInv, WindowAhead, AppliedBehind, IsLast
<1>2. CASE SetStatus
  BY <1>2 DEF SetStatus, IInv, TypeOK, WindowAhead, AppliedBehind, IsLast, Seqs
<1>3. CASE Restart
  <2>1. tick' \in TickType' /\ tick'.phase = "idle"
    BY <1>3, IdleType DEF Restart, TickType, Seqs, IdleTick
  <2>2. QED
    BY <1>0, <1>3, <2>1 DEF Restart, IInv, TypeOK, WindowAhead, AppliedBehind, TickType, Segment, Seqs
<1>4. CASE TickReads
  <2>0. PICK c \in cursor..Len(segs) :
          /\ SkipTo(TooOld(Finals(cursor)), c)
          /\ cursor' = c
          /\ \E to \in WindowOf(Finals(c)) :
               /\ IsLast(WindowOf(Finals(c)), to)
               /\ tick' = [phase |-> "calling", window |-> WindowOf(Finals(c)), to |-> to]
    BY <1>4 DEF TickReads
  <2>1. PICK to \in WindowOf(Finals(c)) :
          /\ SkipTo(TooOld(Finals(cursor)), c)
          /\ cursor' = c
          /\ IsLast(WindowOf(Finals(c)), to)
          /\ tick' = [phase |-> "calling", window |-> WindowOf(Finals(c)), to |-> to]
    BY <2>0
  <2>2. WindowOf(Finals(c)) \subseteq Seqs /\ \A s \in WindowOf(Finals(c)) : s > c
    BY DEF WindowOf, Finals
  <2>3. tick' \in TickType'
    BY <1>0, <1>4, <2>1, <2>2 DEF TickReads, TickType, Seqs
  <2>4. gapped' \subseteq Seqs
    BY <1>0, <2>1 DEF SkipTo, Span
  <2>5. TypeOK'
    BY <1>0, <1>4, <2>1, <2>3, <2>4 DEF TickReads, TypeOK, Segment, TickType, Seqs
  <2>6. QED
    BY <1>0, <1>4, <2>1, <2>2, <2>5 DEF TickReads, IInv, WindowAhead, AppliedBehind, Seqs
<1>5. CASE TickSkipsGaps
  BY <1>0, <1>5 DEF TickSkipsGaps, Idle, IInv, TypeOK, WindowAhead, AppliedBehind, Seqs
<1>6. CASE TickUnconfigured
  <2>1. PICK to \in WindowOf(Finals(cursor)) : cursor' = to
    BY <1>6 DEF TickUnconfigured
  <2>2. to \in Seqs /\ to > cursor
    BY DEF WindowOf, Finals
  <2>3. QED
    BY <1>0, <1>6, <2>1, <2>2 DEF TickUnconfigured, Idle, IInv, TypeOK, WindowAhead, AppliedBehind, Seqs
<1>7. CASE TickDropped
  <2>1. tick' \in TickType' /\ tick'.phase = "idle"
    BY <1>7, IdleType DEF TickDropped, TickType, Seqs, IdleTick
  <2>2. QED
    BY <1>0, <1>7, <2>1 DEF TickDropped, IInv, TypeOK, WindowAhead, AppliedBehind, TickType, Segment, Seqs
<1>8. CASE LlmDown
  <2>1. tick' \in TickType' /\ tick'.phase = "idle"
    BY <1>8, IdleType DEF LlmDown, TickType, Seqs, IdleTick
  <2>2. QED
    BY <1>0, <1>8, <2>1 DEF LlmDown, IInv, TypeOK, WindowAhead, AppliedBehind, TickType, Segment, Seqs
<1>9. CASE TickGap
  <2>1. tick' \in TickType' /\ tick'.phase = "idle"
    BY <1>9, IdleType DEF TickGap, TickType, Seqs, IdleTick
  <2>2. cursor' \in 0..Len(segs) /\ cursor <= cursor'
    BY <1>0, <1>9 DEF TickGap, Advance, TickType
  <2>3. gapped' \subseteq Seqs
    BY <1>0, <1>9 DEF TickGap, Span
  <2>4. QED
    <3>1. UNCHANGED <<session, configured, segs, applied>> /\ down' = FALSE
      BY <1>9 DEF TickGap
    <3>2. TypeOK'
      BY <1>0, <2>1, <2>2, <2>3, <3>1 DEF TypeOK, TickType, Segment, Seqs
    <3>3. AppliedBehind'
      BY <1>0, <2>2, <3>1 DEF IInv, AppliedBehind, Seqs
    <3>4. QED
      BY <2>1, <3>2, <3>3 DEF IInv, WindowAhead
<1>10. CASE TickApplied
  <2>1. tick' = [tick EXCEPT !.phase = "published"] /\ segs' = segs
    BY <1>10 DEF TickApplied
  <2>2. tick' \in TickType' /\ tick'.phase = "published"
    BY <1>0, <2>1 DEF TickType, Seqs
  <2>3. cursor' \in 0..Len(segs) /\ cursor <= cursor' /\ tick.to <= cursor'
    BY <1>0, <1>10 DEF TickApplied, Advance, TickType
  <2>4. applied' = applied \cup tick.window /\ tick.window \subseteq Seqs
    BY <1>0, <1>10 DEF TickApplied, TickType
  <2>5. \A s \in tick.window : s <= tick.to
    BY <1>10 DEF TickApplied, IInv, WindowAhead, IsLast
  <2>6. AppliedBehind'
    BY <1>0, <2>3, <2>4, <2>5 DEF IInv, AppliedBehind, Seqs, TickType
  <2>7. QED
    <3>1. UNCHANGED <<session, configured, segs, gapped>> /\ down' = FALSE
      BY <1>10 DEF TickApplied
    <3>2. applied' \subseteq Seqs
      BY <1>0, <2>4
    <3>3. TypeOK'
      BY <1>0, <2>2, <2>3, <3>1, <3>2 DEF TypeOK, TickType, Segment, Seqs
    <3>4. WindowAhead'
      BY <2>2 DEF WindowAhead
    <3>5. QED
      BY <2>6, <3>3, <3>4 DEF IInv
<1>11. CASE TickEnds
  <2>1. tick' \in TickType' /\ tick'.phase = "idle"
    BY <1>11, IdleType DEF TickEnds, TickType, Seqs, IdleTick
  <2>2. gapped' \subseteq Seqs
    BY <1>0, <1>11 DEF TickEnds, Span
  <2>3. QED
    BY <1>0, <1>11, <2>1, <2>2 DEF TickEnds, IInv, TypeOK, WindowAhead, AppliedBehind, TickType,
       Segment, Seqs
<1>12. CASE UNCHANGED vars
  BY <1>12 DEF vars, IInv, TypeOK, WindowAhead, AppliedBehind, Seqs
<1>13. QED
  BY <1>1, <1>2, <1>3, <1>4, <1>5, <1>6, <1>7, <1>8, <1>9, <1>10, <1>11, <1>12
     DEF Next, TickRuns, CallEnds

(* The window in flight lies ahead of the cursor, the applied behind it.     *)
THEOREM InvariantHolds == Spec => []IInv
<1>1. QED
  BY InitInvariant, StepInvariant, PTL DEF Spec

(* The state of the ticks is well typed in every reachable state. *)
THEOREM TypeCorrect == Spec => []TypeOK
<1>1. IInv => TypeOK
  BY DEF IInv
<1>2. QED
  BY <1>1, InvariantHolds, PTL

(* No segment's window is applied twice, whatever lies between.              *)
THEOREM AppliedOnceHolds == Spec => AppliedOnce
<1>1. IInv /\ [Next]_vars => [applied' # applied => tick.window \cap applied = {}]_vars
  <2> SUFFICES ASSUME IInv, [Next]_vars, applied' # applied PROVE tick.window \cap applied = {}
    OBVIOUS
  <2>1. TickApplied
    BY DEF Next, vars, Ingest, SetStatus, Restart, TickRuns, TickReads, TickSkipsGaps,
       TickUnconfigured, CallEnds, TickDropped, LlmDown, TickGap, TickEnds
  <2>2. \A s \in tick.window : s > cursor
    BY <2>1 DEF TickApplied, IInv, WindowAhead
  <2>3. QED
    BY <2>2 DEF IInv, TypeOK, AppliedBehind, Seqs
<1>2. QED
  BY <1>1, InvariantHolds, PTL DEF Spec, AppliedOnce

-----------------------------------------------------------------------------
(* The window in flight holds every final between the cursor and its end.    *)
WindowWhole ==
  tick.phase = "calling" =>
    /\ configured
    /\ \A s \in Seqs : s > cursor /\ s <= tick.to => segs[s].gap \/ s \in tick.window

KInv == WindowWhole /\ NothingLeftBehind

(* A window is a run: what comes before a member is a member.                *)
LEMMA WindowIsRun ==
  ASSUME TypeOK, NEW F \in SUBSET Seqs, NEW s \in WindowOf(F), NEW r \in F, r <= s
  PROVE  r \in WindowOf(F)
<1>1. Len(segs) \in Nat /\ IsFiniteSet(Seqs) /\ WindowSize \in Nat /\ s \in Seqs /\ r \in Seqs
  <2>1. Len(segs) \in Nat
    BY DEF TypeOK
  <2>2. IsFiniteSet(Seqs)
    BY <2>1, FS_Interval DEF Seqs
  <2>3. s \in Seqs /\ r \in Seqs
    BY DEF WindowOf
  <2>4. QED
    BY <2>1, <2>2, <2>3, InterpretationAssumption
<1> DEFINE R == {q \in F : q < r}
           S == {q \in F : q < s}
<1>2. IsFiniteSet(S)
  BY <1>1, FS_Subset
<1>3. R \subseteq S
  <2>1. \A q \in F : q \in Int
    BY DEF Seqs
  <2>2. r \in Int /\ s \in Int
    BY <1>1 DEF Seqs
  <2>3. ASSUME NEW x \in F, x < r PROVE x < s
    BY <2>1, <2>2, <2>3
  <2>4. QED
    BY <2>3
<1>4. Cardinality(R) <= Cardinality(S) /\ Cardinality(R) \in Nat /\ Cardinality(S) \in Nat
  BY <1>2, <1>3, FS_Subset, FS_CardinalityType
<1>5. Cardinality(S) < WindowSize
  BY DEF WindowOf
<1>6. Cardinality(R) < WindowSize
  BY <1>1, <1>4, <1>5
<1>7. \A f, q \in F : IsFirst(F, f) /\ q <= r => segs[q].t <= segs[f].t + Window
  BY <1>1 DEF WindowOf, Seqs
<1>8. QED
  BY <1>6, <1>7 DEF WindowOf

(* What the catch-up passes over is in the gap it records or was overtaken.  *)
LEMMA SkipCovers ==
  ASSUME TypeOK, NEW c \in cursor..Len(segs), SkipTo(TooOld(Finals(cursor)), c),
         segs' = segs
  PROVE  /\ gapped \subseteq gapped'
         /\ \A s \in Seqs : s > cursor /\ s <= c => segs[s].gap \/ s \in gapped' \/ Overtaken(s)'
<1> DEFINE F == Finals(cursor)
           old == TooOld(F)
<1>0. Len(segs) \in Nat /\ cursor \in 0..Len(segs) /\ segs \in Seq(Segment) /\ CatchUp \in Nat
  BY InterpretationAssumption DEF TypeOK, Segment
<1>1. gapped \subseteq gapped'
  BY DEF SkipTo
<1>2. ASSUME NEW s \in Seqs, s > cursor, s <= c, ~segs[s].gap, ~Overtaken(s)' PROVE s \in gapped'
  <2>1. s \in F
    BY <1>2 DEF Finals
  <2>2. old # {} /\ IsLast(old, c) /\ gapped' = gapped \cup Span(old)
    BY <1>0, <1>2 DEF SkipTo, Seqs
  <2>3. c \in F /\ c \in Seqs
    BY <2>2 DEF IsLast, TooOld, Finals
  <2>4. PICK n \in F : down /\ IsLast(F, n) /\ segs[c].t + CatchUp < segs[n].t
    BY <2>2 DEF IsLast, TooOld
  <2>5. n \in Seqs
    BY DEF Finals
  <2>6. segs[s].t \in Nat /\ segs[c].t \in Nat /\ segs[n].t \in Nat
    BY <1>0, <1>2, <2>3, <2>5, SegmentFacts DEF Seqs
  <2>7. segs[s].t <= segs[c].t
    <3>1. c \in gapped'
      BY <2>2, <2>3 DEF IsLast, Span, Seqs
    <3>2. s = c \/ ~(segs[c].t < segs[s].t)
      BY <1>0, <1>2, <2>3, <3>1 DEF Overtaken, Seqs
    <3>3. QED
      BY <2>6, <3>2
  <2>8. segs[s].t + CatchUp < segs[n].t
    <3>1. CatchUp \in Nat
      BY InterpretationAssumption
    <3>2. segs[c].t + CatchUp < segs[n].t
      BY <2>4
    <3>3. QED
      BY <2>6, <2>7, <3>1, <3>2
  <2>9. s \in old
    BY <2>1, <2>4, <2>8 DEF TooOld
  <2>10. s \in Span(old)
    BY <1>2, <2>9 DEF Span, Seqs
  <2>11. QED
    BY <2>2, <2>10
<1>3. QED
  BY <1>1, <1>2

LEMMA KeepsNothingBehind ==
  ASSUME IInv, KInv, [Next]_vars
  PROVE  KInv'
<1>0. /\ segs \in Seq(Segment) /\ Len(segs) \in Nat /\ cursor \in 0..Len(segs)
      /\ tick \in TickType /\ TypeOK
  BY DEF IInv, TypeOK, Segment, TickType
<1>1. CASE Ingest
  <2>1. UNCHANGED <<configured, cursor, tick, applied, gapped>>
    BY <1>1 DEF Ingest
  <2>2. /\ segs' \in Seq(Segment) /\ Len(segs') = Len(segs) + 1
        /\ \A s \in Seqs : segs'[s] = segs[s]
    BY <1>0, <1>1, IngestFacts
  <2>3. Seqs' = Seqs \cup {Len(segs) + 1}
    BY <1>0, <2>2 DEF Seqs
  <2>4. \A s \in Seqs : Overtaken(s) => Overtaken(s)'
    BY <2>1, <2>2 DEF Overtaken, IInv, TypeOK
  <2>5. WindowWhole'
    BY <1>0, <2>1, <2>2, <2>3 DEF KInv, WindowWhole, TickType
  <2>6. \A s \in 1..cursor : s \in Seqs
    BY <1>0 DEF Seqs
  <2>7. NothingLeftBehind'
    BY <2>1, <2>2, <2>4, <2>6 DEF KInv, NothingLeftBehind
  <2>8. QED
    BY <2>5, <2>7 DEF KInv
<1>2. ASSUME segs' = segs, configured' = configured, tick'.phase # "calling",
             cursor' = cursor, applied \subseteq applied', gapped \subseteq gapped'
      PROVE  KInv'
  BY <1>2 DEF KInv, WindowWhole, NothingLeftBehind, Overtaken, Seqs
<1>3. CASE SetStatus
  BY <1>3 DEF SetStatus, KInv, WindowWhole, NothingLeftBehind, Overtaken, Seqs
<1>4. CASE Restart \/ TickDropped \/ LlmDown \/ TickEnds
  BY <1>2, <1>4 DEF Restart, TickDropped, LlmDown, TickEnds, IdleTick
<1>5. CASE TickReads
  <2>0. PICK c \in cursor..Len(segs) :
          /\ SkipTo(TooOld(Finals(cursor)), c)
          /\ cursor' = c
          /\ \E to \in WindowOf(Finals(c)) :
               /\ IsLast(WindowOf(Finals(c)), to)
               /\ tick' = [phase |-> "calling", window |-> WindowOf(Finals(c)), to |-> to]
    BY <1>5 DEF TickReads
  <2> DEFINE F == Finals(c)
  <2>1. PICK to \in WindowOf(F) :
          tick' = [phase |-> "calling", window |-> WindowOf(F), to |-> to]
    BY <2>0
  <2>2. UNCHANGED <<segs, configured, applied>> /\ configured
    BY <1>5 DEF TickReads
  <2>3. ASSUME NEW s \in Seqs, s > c, s <= to, ~segs[s].gap PROVE s \in WindowOf(F)
    <3>1. F \in SUBSET Seqs /\ s \in F
      BY <2>3 DEF Finals
    <3> HIDE DEF F
    <3>2. QED
      BY <1>0, <2>3, <3>1, WindowIsRun
  <2>4. WindowWhole'
    BY <2>0, <2>1, <2>2, <2>3 DEF WindowWhole, Seqs
  <2>5. /\ gapped \subseteq gapped'
        /\ \A s \in Seqs : s > cursor /\ s <= c => segs[s].gap \/ s \in gapped' \/ Overtaken(s)'
    BY <1>0, <2>0, <2>2, SkipCovers
  <2>6. NothingLeftBehind'
    <3> SUFFICES ASSUME NEW s \in 1..c PROVE segs[s].gap \/ s \in applied \cup gapped' \/ Overtaken(s)'
      BY <2>0, <2>2 DEF NothingLeftBehind, Overtaken, Seqs
    <3>1. s \in Seqs /\ (s \in 1..cursor \/ s > cursor)
      BY <1>0, <2>0 DEF Seqs
    <3>2. Overtaken(s) => Overtaken(s)'
      BY <2>2, <2>5 DEF Overtaken
    <3>3. QED
      BY <2>2, <2>5, <3>1, <3>2 DEF KInv, NothingLeftBehind
  <2>7. QED
    BY <2>2, <2>4, <2>6 DEF KInv, Seqs
<1>6. CASE TickSkipsGaps
  <2>1. \A s \in 1..Len(segs) : s \in 1..cursor \/ segs[s].gap
    BY <1>0, <1>6 DEF TickSkipsGaps, Finals, Seqs
  <2>2. QED
    BY <1>6, <2>1 DEF TickSkipsGaps, Idle, KInv, WindowWhole, NothingLeftBehind, Overtaken, Seqs
<1>7. CASE TickUnconfigured
  BY <1>7 DEF TickUnconfigured, Idle, KInv, WindowWhole, NothingLeftBehind, Overtaken, Seqs
<1>8. ASSUME TickGap \/ TickApplied PROVE KInv'
  <2>1. /\ tick.phase = "calling" /\ tick'.phase # "calling"
        /\ UNCHANGED <<segs, configured>>
    BY <1>0, <1>8 DEF TickGap, TickApplied, IdleTick, TickType
  <2>2. cursor' = IF cursor < tick.to THEN tick.to ELSE cursor
    BY <1>8 DEF TickGap, TickApplied, Advance
  <2>3. /\ tick.window \subseteq applied' \cup gapped'
        /\ applied \subseteq applied' /\ gapped \subseteq gapped'
    <3>1. tick.window \subseteq Span(tick.window)
      BY <1>0 DEF Span, Seqs, TickType
    <3>2. QED
      BY <1>8, <3>1 DEF TickGap, TickApplied
  <2>4. \A s \in 1..cursor' : s \in 1..cursor \/ (s \in Seqs /\ s > cursor /\ s <= tick.to)
    BY <1>0, <2>2 DEF Seqs, TickType
  <2>5. NothingLeftBehind'
    BY <2>1, <2>3, <2>4 DEF KInv, WindowWhole, NothingLeftBehind, Overtaken, Seqs
  <2>6. QED
    BY <2>1, <2>5 DEF KInv, WindowWhole, Seqs
<1>9. CASE UNCHANGED vars
  BY <1>9 DEF vars, KInv, WindowWhole, NothingLeftBehind, Overtaken, Seqs
<1>10. QED
  BY <1>1, <1>3, <1>4, <1>5, <1>6, <1>7, <1>8, <1>9 DEF Next, TickRuns, CallEnds

(* Every segment behind the cursor was applied, is in a recorded gap or was  *)
(* overtaken by one said before it, through pauses, failures, outages and    *)
(* restarts.                                                                *)
THEOREM NothingLeftBehindHolds == Spec => []NothingLeftBehind
<1>1. Init => KInv
  BY DEF Init, KInv, WindowWhole, NothingLeftBehind, Seqs, IdleTick
<1>2. IInv /\ KInv /\ [Next]_vars => KInv'
  BY KeepsNothingBehind
<1>3. KInv => NothingLeftBehind
  BY DEF KInv
<1>4. QED
  BY <1>1, <1>2, <1>3, InvariantHolds, PTL DEF Spec
=============================================================================
