------------------------- MODULE LivePositionProofs -------------------------
(***************************************************************************)
(* Proofs, for every set of sections and every family of outlines, that    *)
(* the live position is unique and consistent with undo, the proposal and  *)
(* the timer.  The lemmas say what the outline functions preserve; the     *)
(* induction then needs one step per action.                               *)
(***************************************************************************)
EXTENDS LivePosition, TLAPS

StatusMap == [Sections -> SectionStatus]

UndoType == [from : SectionOrNone, to : SectionOrNone, left : 0..UndoTicks]
TickType == [phase : {"idle", "reading", "deciding"}, live : SectionOrNone,
             to : SectionOrNone, auto : BOOLEAN]
EditType == [open : BOOLEAN, live : SectionOrNone]

(* The constants the state starts from and returns to are well typed.       *)
LEMMA IdleTypes ==
  /\ NoUndo \in UndoType
  /\ IdleTick \in TickType
  /\ IdleEdit \in EditType
  /\ SuppressTicks \in 0..SuppressTicks
  /\ 0 \in 0..SuppressTicks
  /\ NotNowTicks \in 0..NotNowTicks
  /\ 0 \in 0..NotNowTicks
BY LivePositionAssumption DEF NoUndo, IdleTick, IdleEdit, UndoType, TickType, EditType,
   SectionOrNone

(* The rows of an outline are sections, and the parent of a row is one.     *)
LEMMA RowsAreSections ==
  ASSUME NEW o \in Outlines
  PROVE  /\ Rows(o) \subseteq Sections
         /\ \A s \in Rows(o) : Top(o, s) \in Sections
         /\ o.parent \in [Sections -> Sections \cup {None}]
<1>1. o \in OutlineType
  BY OutlineAssumption
<1>2. Rows(o) \subseteq Sections
  BY <1>1 DEF OutlineType, Rows
<1>3. \A s \in Rows(o) : Top(o, s) \in Sections
  BY <1>1, <1>2 DEF OutlineType, Top, IsTop
<1>4. QED
  BY <1>1, <1>2, <1>3 DEF OutlineType

(* Covering rows keeps the map well typed and makes no row live.            *)
LEMMA CoverFacts ==
  ASSUME NEW st \in StatusMap, NEW S
  PROVE  /\ Cover(st, S) \in StatusMap
         /\ \A s \in Sections : Cover(st, S)[s] = "live" <=> st[s] = "live"
BY DEF StatusMap, SectionStatus, Cover

LEMMA MarkFacts ==
  ASSUME NEW st \in StatusMap, NEW o, NEW sub
  PROVE  /\ MarkSubpointsThrough(o, st, sub) \in StatusMap
         /\ \A s \in Sections :
              MarkSubpointsThrough(o, st, sub)[s] = "live" <=> st[s] = "live"
BY CoverFacts DEF MarkSubpointsThrough

LEMMA CloseFacts ==
  ASSUME NEW st \in StatusMap, NEW o, NEW p
  PROVE  /\ CloseChildren(o, st, p) \in StatusMap
         /\ \A s \in Sections : CloseChildren(o, st, p)[s] = "live" <=> st[s] = "live"
BY CoverFacts DEF CloseChildren

LEMMA SkipFacts ==
  ASSUME NEW st \in StatusMap, NEW o, NEW skip
  PROVE  /\ ApplySkipRules(o, st, skip) \in StatusMap
         /\ \A s \in Sections : ApplySkipRules(o, st, skip)[s] = "live" <=> st[s] = "live"
BY DEF StatusMap, SectionStatus, ApplySkipRules

LEMMA RefitFacts ==
  ASSUME NEW st \in StatusMap, NEW o
  PROVE  /\ Refit(o, st) \in StatusMap
         /\ \A s \in Sections : Refit(o, st)[s] = "live" => st[s] = "live"
BY DEF StatusMap, SectionStatus, Refit

(* Leaving the live row leaves no row live.                                 *)
LEMMA LeaveFacts ==
  ASSUME NEW o \in Outlines, NEW st \in StatusMap, NEW cur \in Rows(o), NEW t,
         \A s \in Sections : st[s] = "live" => s = cur
  PROVE  /\ Leave(o, st, cur, t, "done") \in StatusMap
         /\ \A s \in Sections : Leave(o, st, cur, t, "done")[s] # "live"
<1>0. cur \in Sections /\ Top(o, cur) \in Sections
  BY RowsAreSections
<1>1. LeaveBackward(o, st, cur, t) \in StatusMap
      /\ \A s \in Sections : LeaveBackward(o, st, cur, t)[s] # "live"
  BY <1>0 DEF LeaveBackward, StatusMap, SectionStatus
<1>2. [st EXCEPT ![cur] = "pending"] \in StatusMap
      /\ \A s \in Sections : [st EXCEPT ![cur] = "pending"][s] # "live"
  BY <1>0 DEF StatusMap, SectionStatus
<1>3. LeaveForward(o, st, cur, t, "done") \in StatusMap
      /\ \A s \in Sections : LeaveForward(o, st, cur, t, "done")[s] # "live"
  <2> DEFINE closed == [st EXCEPT ![cur] = "done"]
             swept == MarkSubpointsThrough(o, closed, cur)
             top == [swept EXCEPT ![Top(o, cur)] =
                       IF @ \in {"pending", "live"} THEN "done" ELSE @]
  <2>1. closed \in StatusMap /\ \A s \in Sections : closed[s] # "live"
    BY <1>0 DEF StatusMap, SectionStatus
  <2> HIDE DEF closed
  <2>2. swept \in StatusMap /\ \A s \in Sections : swept[s] # "live"
    BY <2>1, MarkFacts
  <2> HIDE DEF swept
  <2>3. top \in StatusMap /\ \A s \in Sections : top[s] # "live"
    BY <2>2, <1>0 DEF StatusMap, SectionStatus
  <2> HIDE DEF top
  <2>4. CASE IsTop(o, cur)
    <3>1. LeaveForward(o, st, cur, t, "done") = CloseChildren(o, closed, cur)
      BY <2>4 DEF LeaveForward, closed
    <3>2. QED
      BY <3>1, <2>1, CloseFacts
  <2>5. CASE ~IsTop(o, cur) /\ Top(o, t) = Top(o, cur)
    <3>1. LeaveForward(o, st, cur, t, "done") = swept
      BY <2>5 DEF LeaveForward, closed, swept
    <3>2. QED
      BY <3>1, <2>2
  <2>6. CASE ~IsTop(o, cur) /\ Top(o, t) # Top(o, cur)
    <3>1. LeaveForward(o, st, cur, t, "done") = CloseChildren(o, top, Top(o, cur))
      BY <2>6 DEF LeaveForward, closed, swept, top
    <3>2. QED
      BY <3>1, <2>3, CloseFacts
  <2>7. QED
    BY <2>4, <2>5, <2>6
<1>4. QED
  BY <1>1, <1>2, <1>3 DEF Leave

(* A move leaves exactly the row it enters live.                            *)
LEMMA MovedFacts ==
  ASSUME NEW o \in Outlines, NEW st \in StatusMap, NEW cur, NEW t \in Rows(o),
         cur = None \/ cur \in Rows(o),
         \A s \in Sections : st[s] = "live" => s = cur
  PROVE  /\ Moved(o, st, cur, t, "done") \in StatusMap
         /\ \A s \in Sections : Moved(o, st, cur, t, "done")[s] = "live" => s = t
<1> DEFINE left == IF cur = None THEN st ELSE Leave(o, st, cur, t, "done")
<1>1. None \notin Sections /\ t \in Sections /\ Top(o, t) \in Sections
  BY OutlineAssumption, RowsAreSections
<1>2. left \in StatusMap /\ \A s \in Sections : left[s] # "live"
  BY <1>1, LeaveFacts
<1>3. Enter(o, left, t) \in StatusMap
      /\ \A s \in Sections : Enter(o, left, t)[s] = "live" => s = t
  BY <1>1, <1>2 DEF Enter, StatusMap, SectionStatus
<1>4. QED
  BY <1>3 DEF Moved

(* Later is irreflexive on the rows of an outline.                          *)
LEMMA LaterIrreflexive ==
  ASSUME NEW o \in Outlines, NEW s \in Rows(o)
  PROVE  ~Later(o, s, s)
<1>1. \E i \in 1..Len(o.flat) : o.flat[i] = s
  BY DEF Rows
<1>2. Len(o.flat) \in Nat
  BY OutlineAssumption DEF OutlineType
<1>3. Index(o, s) \in 1..Len(o.flat)
  BY <1>1 DEF Index
<1>4. QED
  BY <1>2, <1>3 DEF Later

LEMMA InitInvariant == Init => IInv
<1> SUFFICES ASSUME Init PROVE IInv
  OBVIOUS
<1>1. PICK skip \in SUBSET SkipKinds :
        status = ApplySkipRules(FirstOutline,
                   Refit(FirstOutline, [s \in Sections |-> "none"]), skip)
  BY DEF Init
<1> DEFINE none == [s \in Sections |-> "none"]
           fresh == Refit(FirstOutline, none)
<1>2. none \in StatusMap /\ \A s \in Sections : none[s] # "live"
  BY DEF StatusMap, SectionStatus
<1>3. fresh \in StatusMap /\ \A s \in Sections : fresh[s] # "live"
  <2> HIDE DEF none
  <2> QED
    BY <1>2, RefitFacts
<1>4. status \in StatusMap /\ \A s \in Sections : status[s] # "live"
  <2> HIDE DEF fresh
  <2> QED
    BY <1>1, <1>3, SkipFacts DEF fresh
<1>5. TypeOK
  <2>1. notnow \in [Sections -> 0..NotNowTicks]
    BY IdleTypes DEF Init
  <2>2. outline \in Outlines /\ session \in {"setup", "running", "paused", "finalising"}
    BY LivePositionAssumption DEF Init
  <2>3. QED
    BY <1>4, <2>1, <2>2, IdleTypes DEF Init, TypeOK, StatusMap, UndoType, TickType, EditType,
       SectionOrNone
<1>6. QED
  BY <1>4, <1>5 DEF Init, IInv, Shape, OneLive, LiveInOutline, UndoMatchesLive,
     ProposalIsElsewhere, TimerFollowsSession, Active, NoUndo, IdleTick

(* What a move does to the invariant's parts, whoever makes it.             *)
LEMMA MoveToFacts ==
  ASSUME IInv, Active, NEW t \in Rows(outline), MoveTo(t)
  PROVE  /\ status' \in StatusMap
         /\ \A s \in Sections : status'[s] = "live" => s = t
         /\ t \in Sections
         /\ live' = t
         /\ timing' = (session = "running")
         /\ proposal' = None
         /\ UNCHANGED <<session, outline, notnow>>
         /\ live # t
<1>1. live \in Rows(outline)
  BY DEF IInv, Shape, LiveInOutline
<1>2. outline \in Outlines /\ status \in StatusMap
  BY DEF IInv, TypeOK, StatusMap
<1>3. \A s \in Sections : status[s] = "live" => s = live
  BY DEF IInv, OneLive
<1>4. t \in Sections
  BY <1>2, RowsAreSections
<1>5. /\ Moved(outline, status, live, t, "done") \in StatusMap
      /\ \A s \in Sections : Moved(outline, status, live, t, "done")[s] = "live" => s = t
  BY <1>1, <1>2, <1>3, MovedFacts
<1>6. QED
  BY <1>4, <1>5 DEF MoveTo

LEMMA ChairStep ==
  ASSUME IInv, Active, NEW t \in Rows(outline), MoveTo(t), ByChair, UNCHANGED edit
  PROVE  IInv'
<1>1. /\ status' \in StatusMap
      /\ \A s \in Sections : status'[s] = "live" => s = t
      /\ t \in Sections /\ live' = t /\ timing' = (session = "running")
      /\ proposal' = None /\ UNCHANGED <<session, outline, notnow>> /\ live # t
  BY MoveToFacts
<1>2. None \notin Sections
  BY OutlineAssumption
<1>3. TypeOK'
  <2>1. tick' \in TickType
    BY Zenon DEF IInv, TypeOK, ByChair, TickType
  <2>2. undo' \in UndoType /\ suppressed' \in 0..SuppressTicks /\ sinceChair' \in 0..SuppressTicks
    BY IdleTypes DEF ByChair
  <2>3. timing' \in BOOLEAN
    BY <1>1
  <2>4. QED
    BY <1>1, <2>1, <2>2, <2>3 DEF IInv, TypeOK, StatusMap, SectionOrNone, UndoType, TickType
<1>4. Shape'
  BY <1>1, <1>2 DEF IInv, TypeOK, Shape, Active, ByChair
<1>5. QED
  BY <1>1, <1>2, <1>3, <1>4 DEF IInv, OneLive, LiveInOutline, UndoMatchesLive,
     ProposalIsElsewhere, TimerFollowsSession, Active, ByChair, NoUndo

LEMMA AIStep ==
  ASSUME IInv, Active, NEW t \in Rows(outline), MoveTo(t), ByAI(t),
         tick' \in {tick, IdleTick}, UNCHANGED edit
  PROVE  IInv'
<1>1. /\ status' \in StatusMap
      /\ \A s \in Sections : status'[s] = "live" => s = t
      /\ t \in Sections /\ live' = t /\ timing' = (session = "running")
      /\ proposal' = None /\ UNCHANGED <<session, outline, notnow>> /\ live # t
  BY MoveToFacts
<1>2. None \notin Sections
  BY OutlineAssumption
<1>3. TypeOK'
  <2>1. tick' \in TickType
    BY IdleTypes DEF IInv, TypeOK, TickType
  <2>2. undo' \in UndoType
    BY <1>1, LivePositionAssumption DEF IInv, TypeOK, ByAI, UndoType, SectionOrNone
  <2>3. timing' \in BOOLEAN
    BY <1>1
  <2>4. QED
    BY <1>1, <2>1, <2>2, <2>3 DEF IInv, TypeOK, ByAI, StatusMap, SectionOrNone, UndoType, TickType
<1>4. Shape'
  BY <1>1, <1>2 DEF IInv, Shape, Active, IdleTick
<1>5. QED
  BY <1>1, <1>2, <1>3, <1>4 DEF IInv, OneLive, LiveInOutline, UndoMatchesLive,
     ProposalIsElsewhere, TimerFollowsSession, Active, ByAI, NoUndo

(* A step that moves nothing and makes no row live keeps the invariant as   *)
(* long as it keeps the live row in the outline and types.                  *)
LEMMA QuietStep ==
  ASSUME IInv, TypeOK', Shape',
         UNCHANGED <<session, live, timing, undo, proposal>>,
         \A s \in Sections : status'[s] = "live" => status[s] = "live",
         live # None => live \in Rows(outline')
  PROVE  IInv'
BY DEF IInv, TypeOK, OneLive, LiveInOutline, UndoMatchesLive, ProposalIsElsewhere,
   TimerFollowsSession, Shape, Active, SectionOrNone

(* Every step keeps the invariant.                                          *)
LEMMA StepInvariant == IInv /\ [Next]_vars => IInv'
<1> SUFFICES ASSUME IInv, [Next]_vars PROVE IInv'
  OBVIOUS
<1>0. /\ outline \in Outlines /\ status \in StatusMap /\ None \notin Sections
      /\ Rows(outline) \subseteq Sections
  BY OutlineAssumption, RowsAreSections DEF IInv, TypeOK, StatusMap
<1>1. CASE ChairMove
  BY <1>1, ChairStep DEF ChairMove
<1>2. CASE ChairNext
  BY <1>2, ChairStep DEF ChairNext
<1>3. CASE ChairBack
  BY <1>3, ChairStep DEF ChairBack
<1>4. CASE SpokenMove
  <2>1. PICK t \in Nav(outline, status) : MoveTo(t) /\ ByAI(t)
    BY <1>4 DEF SpokenMove
  <2>2. t \in Rows(outline)
    BY DEF Nav
  <2>3. QED
    BY <1>4, <2>1, <2>2, AIStep DEF SpokenMove
<1>5. CASE Undo
  <2>1. CASE undo.from \in Rows(outline) /\ live = undo.to
    <3>1. Active
      BY <1>5 DEF Undo, IInv, UndoMatchesLive
    <3>2. QED
      BY <1>5, <2>1, <3>1, ChairStep DEF Undo
  <2>2. CASE ~(undo.from \in Rows(outline) /\ live = undo.to)
    <3>1. undo' = NoUndo /\ UNCHANGED <<session, outline, status, live, timing,
            proposal, suppressed, notnow, tick, edit, sinceChair>>
      BY <1>5, <2>2 DEF Undo
    <3>2. QED
      BY <3>1, <1>0, LivePositionAssumption DEF IInv, TypeOK, Shape, OneLive, LiveInOutline, UndoMatchesLive,
         ProposalIsElsewhere, TimerFollowsSession, Active, NoUndo, SectionOrNone
  <2>3. QED
    BY <2>1, <2>2
<1>6. CASE AcceptProposal
  BY <1>6, ChairStep DEF AcceptProposal
<1>7. CASE DeclineProposal
  BY <1>7, LivePositionAssumption DEF DeclineProposal, IInv, TypeOK, Shape, OneLive, LiveInOutline,
     UndoMatchesLive, ProposalIsElsewhere, TimerFollowsSession, Active, SectionOrNone
<1>8. CASE ReplaceAgenda
  <2>1. PICK o2 \in Outlines, skip \in SUBSET SkipKinds :
          /\ KeepsLive(o2) /\ outline' = o2
          /\ status' = ApplySkipRules(o2, Refit(o2, status), skip)
    BY <1>8 DEF ReplaceAgenda
  <2>2. status' \in StatusMap /\ \A s \in Sections : status'[s] = "live" => status[s] = "live"
    BY <1>0, <2>1, RefitFacts, SkipFacts
  <2>3. TypeOK' /\ Shape'
    BY <1>8, <2>1, <2>2 DEF ReplaceAgenda, IInv, TypeOK, Shape, Active, StatusMap
  <2>4. QED
    BY <1>8, <2>1, <2>2, <2>3, QuietStep DEF ReplaceAgenda, KeepsLive
<1>9. CASE EditRead
  <2>1. TypeOK' /\ Shape'
    BY <1>9 DEF EditRead, IInv, TypeOK, Shape, Active
  <2>2. QED
    BY <1>9, <2>1, QuietStep DEF EditRead, IInv, LiveInOutline
<1>10. CASE EditStatus
  <2>1. PICK s \in Rows(outline) \ {edit.live}, v \in {"done", "deferred"} :
          status' = IF IsTop(outline, s)
                    THEN CloseChildren(outline, [status EXCEPT ![s] = v], s)
                    ELSE [status EXCEPT ![s] = v]
    BY <1>10 DEF EditStatus
  <2> DEFINE st == [status EXCEPT ![s] = v]
  <2>2. st \in StatusMap /\ \A r \in Sections : st[r] = "live" => status[r] = "live"
    BY <1>0, <2>1 DEF StatusMap, SectionStatus
  <2>3. status' \in {st, CloseChildren(outline, st, s)}
    BY <2>1
  <2>4. status' \in StatusMap /\ \A r \in Sections : status'[r] = "live" => status[r] = "live"
    <3> HIDE DEF st
    <3> QED
      BY <2>2, <2>3, CloseFacts
  <2>5. TypeOK' /\ Shape'
    <3>1. edit' \in EditType /\ UNCHANGED <<session, outline, live, timing, undo, proposal,
            suppressed, notnow, tick, sinceChair>>
      BY <1>10, IdleTypes DEF EditStatus
    <3>2. QED
      BY <2>4, <3>1 DEF IInv, TypeOK, Shape, Active, StatusMap, EditType
  <2>6. QED
    BY <1>10, <2>4, <2>5, QuietStep DEF EditStatus, IInv, LiveInOutline
<1>11. CASE EditAdd
  <2>1. PICK o2 \in Outlines, skip \in SUBSET SkipKinds :
          MayGrowTo(o2) /\ outline' = o2 /\ status' = GrownStatus(o2, skip)
    BY <1>11 DEF EditAdd
  <2>2. status' \in StatusMap /\ \A s \in Sections : status'[s] = "live" => status[s] = "live"
    BY <1>0, <2>1, RefitFacts, SkipFacts DEF GrownStatus
  <2>3. TypeOK' /\ Shape'
    BY <1>0, <1>11, <2>1, <2>2 DEF EditAdd, IInv, TypeOK, Shape, Active, StatusMap, IdleEdit,
       SectionOrNone
  <2>4. Rows(outline) \subseteq Rows(outline')
    BY <2>1 DEF MayGrowTo, AddsOne
  <2>5. QED
    BY <1>11, <2>2, <2>3, <2>4, QuietStep DEF EditAdd, IInv, LiveInOutline
<1>12. CASE Start
  <2>1. PICK skip \in SUBSET SkipKinds, t \in Rows(outline) :
          /\ status' = [ApplySkipRules(outline, status, skip) EXCEPT ![t] = "live"]
          /\ live' = t
    BY <1>12 DEF Start
  <2>2. \A s \in Sections : status[s] # "live"
    BY <1>12 DEF Start, IInv, OneLive, Active
  <2>3. status' \in StatusMap /\ \A s \in Sections : status'[s] = "live" => s = t
    <3> DEFINE st == ApplySkipRules(outline, status, skip)
    <3>1. st \in StatusMap /\ \A s \in Sections : st[s] # "live"
      BY <1>0, <2>2, SkipFacts
    <3>2. status' = [st EXCEPT ![t] = "live"]
      BY <2>1
    <3> HIDE DEF st
    <3>3. QED
      BY <1>0, <3>1, <3>2 DEF StatusMap, SectionStatus
  <2>4. t \in Sections
    BY <1>0
  <2>5. undo = NoUndo /\ proposal = None
    BY <1>12 DEF Start, IInv, UndoMatchesLive, ProposalIsElsewhere, Active
  <2>6. tick' = tick /\ session' = "running" /\ timing' = TRUE /\ outline' = outline
        /\ UNCHANGED <<undo, proposal, suppressed, notnow, edit, sinceChair>>
    BY <1>12 DEF Start
  <2>7. TypeOK' /\ Shape'
    BY <1>0, <2>1, <2>3, <2>4, <2>6 DEF IInv, TypeOK, Shape, Active, StatusMap, SectionOrNone
  <2>8. QED
    BY <1>0, <2>1, <2>3, <2>4, <2>5, <2>6, <2>7 DEF IInv, OneLive, LiveInOutline, UndoMatchesLive,
       ProposalIsElsewhere, TimerFollowsSession, Active, NoUndo
<1>13. CASE Pause
  BY <1>13 DEF Pause, IInv, TypeOK, Shape, OneLive, LiveInOutline, UndoMatchesLive,
     ProposalIsElsewhere, TimerFollowsSession, Active
<1>14. CASE Resume
  BY <1>14 DEF Resume, IInv, TypeOK, Shape, OneLive, LiveInOutline, UndoMatchesLive,
     ProposalIsElsewhere, TimerFollowsSession, Active
<1>15. CASE End
  <2>1. live \in Rows(outline) /\ live \in Sections /\ Top(outline, live) \in Sections
    BY <1>0, <1>15, RowsAreSections DEF End, IInv, Shape, LiveInOutline
  <2> DEFINE closed == [status EXCEPT ![live] = "done"]
             top == [closed EXCEPT ![Top(outline, live)] =
                       IF @ \in {"pending", "live"} THEN "done" ELSE @]
  <2>2. closed \in StatusMap /\ \A s \in Sections : closed[s] # "live"
    BY <1>0, <2>1 DEF IInv, OneLive, StatusMap, SectionStatus
  <2>3. top \in StatusMap /\ \A s \in Sections : top[s] # "live"
    <3> HIDE DEF closed
    <3> QED
      BY <2>1, <2>2 DEF StatusMap, SectionStatus
  <2>4. status' = CloseChildren(outline, top, Top(outline, live))
    BY <1>15 DEF End, ClosedLive
  <2>5. status' \in StatusMap /\ \A s \in Sections : status'[s] # "live"
    <3> HIDE DEF top
    <3> QED
      BY <2>3, <2>4, CloseFacts
  <2>6. TypeOK' /\ Shape'
    BY <1>15, <2>5, LivePositionAssumption DEF End, IInv, TypeOK, Shape, Active, StatusMap, NoUndo,
       SectionOrNone
  <2>7. QED
    BY <1>15, <2>5, <2>6 DEF End, IInv, OneLive, LiveInOutline, UndoMatchesLive,
       ProposalIsElsewhere, TimerFollowsSession, Active, NoUndo
<1>16. CASE TickRead
  <2>1. TypeOK' /\ Shape'
    BY <1>16 DEF TickRead, IInv, TypeOK, Shape, Active, IdleTick, SectionOrNone
  <2>2. QED
    BY <1>16, <2>1, QuietStep DEF TickRead, IInv, LiveInOutline
<1>17. CASE TickDropped
  <2>1. TypeOK' /\ Shape'
    BY <1>17 DEF TickDropped, IInv, TypeOK, Shape, Active, IdleTick, SectionOrNone
  <2>2. QED
    BY <1>17, <2>1, QuietStep DEF TickDropped, IInv, LiveInOutline
<1>18. CASE TickReply
  <2>1. PICK o2 \in Outlines, skip \in SUBSET SkipKinds, sub \in Rows(outline) :
          /\ MayGrowTo(o2) /\ outline' = o2
          /\ status' = MarkSubpointsThrough(o2, GrownStatus(o2, skip), sub)
          /\ \/ tick' = IdleTick
             \/ /\ live = tick.live
                /\ \E t \in {s \in Nav(o2, status') : Later(o2, s, Top(o2, live))},
                      auto \in BOOLEAN :
                     tick' = [tick EXCEPT !.phase = "deciding", !.to = t, !.auto = auto]
    BY <1>18 DEF TickReply
  <2>2. GrownStatus(o2, skip) \in StatusMap
        /\ \A s \in Sections : GrownStatus(o2, skip)[s] = "live" => status[s] = "live"
    BY <1>0, RefitFacts, SkipFacts DEF GrownStatus
  <2>3. status' \in StatusMap /\ \A s \in Sections : status'[s] = "live" => status[s] = "live"
    <3> DEFINE st == GrownStatus(o2, skip)
    <3>1. status' = MarkSubpointsThrough(o2, st, sub)
      BY <2>1
    <3>2. st \in StatusMap /\ \A s \in Sections : st[s] = "live" => status[s] = "live"
      BY <2>2
    <3> HIDE DEF st
    <3>3. QED
      BY <3>1, <3>2, MarkFacts
  <2>4. Rows(outline) \subseteq Rows(outline')
    BY <2>1 DEF MayGrowTo, AddsOne
  <2>5. tick' = IdleTick \/
        \E t \in Sections, auto \in BOOLEAN :
          t # tick.live /\ tick' = [tick EXCEPT !.phase = "deciding", !.to = t, !.auto = auto]
    <3>1. ASSUME live = tick.live, NEW t \in Nav(o2, status'), Later(o2, t, Top(o2, live))
          PROVE  t \in Sections /\ t # tick.live
      <4>1. t \in Rows(o2) /\ IsTop(o2, t) /\ t \in Sections
        BY RowsAreSections DEF Nav
      <4>2. ASSUME t = live PROVE FALSE
        BY <4>1, <4>2, <3>1, LaterIrreflexive DEF Top
      <4>3. QED
        BY <3>1, <4>1, <4>2
    <3>2. QED
      BY <2>1, <3>1
  <2>6. TypeOK'
    <3>1. tick' \in TickType
      <4>1. tick \in TickType
        BY DEF IInv, TypeOK, TickType
      <4>2. QED
        BY <2>5, <4>1, IdleTypes DEF TickType, SectionOrNone
    <3>2. outline' \in Outlines
      BY <2>1
    <3>3. UNCHANGED <<session, live, timing, undo, proposal, suppressed, notnow, edit, sinceChair>>
      BY <1>18 DEF TickReply
    <3>4. QED
      BY <2>3, <3>1, <3>2, <3>3 DEF IInv, TypeOK, StatusMap, TickType
  <2>7. Shape'
    <3>1. UNCHANGED <<session, live>>
      BY <1>18 DEF TickReply
    <3>2. tick'.phase = "deciding" => tick'.to # tick'.live /\ tick'.to # None
      <4>1. CASE tick' = IdleTick
        BY <4>1 DEF IdleTick
      <4>2. ASSUME NEW t \in Sections, NEW auto \in BOOLEAN, t # tick.live,
                   tick' = [tick EXCEPT !.phase = "deciding", !.to = t, !.auto = auto]
            PROVE  tick'.to # tick'.live /\ tick'.to # None
        <5>1. tick \in TickType
          BY DEF IInv, TypeOK, TickType
        <5>2. tick'.to = t /\ tick'.live = tick.live
          BY Zenon, <4>2, <5>1 DEF TickType
        <5>3. QED
          BY <1>0, <4>2, <5>2
      <4>3. QED
        BY <2>5, <4>1, <4>2
    <3>3. QED
      BY <3>1, <3>2 DEF IInv, Shape, Active
  <2>8. QED
    BY <1>18, <2>3, <2>4, <2>6, <2>7, QuietStep DEF TickReply, IInv, LiveInOutline
<1>19. CASE TickMove
  <2>1. Active /\ tick.to \in Rows(outline) /\ MoveTo(tick.to) /\ ByAI(tick.to)
        /\ tick' = IdleTick /\ UNCHANGED edit
    BY <1>19 DEF TickMove, MayAdvance, Active
  <2>2. QED
    BY <2>1, AIStep
<1>20. CASE TickPropose
  <2>1. tick.to \in Sections /\ tick.to # live /\ Active
    BY <1>0, <1>20 DEF TickPropose, MayAdvance, IInv, Shape, Active
  <2>2. TypeOK' /\ Shape'
    BY <1>20, <2>1 DEF TickPropose, IInv, TypeOK, Shape, Active, IdleTick, SectionOrNone
  <2>3. QED
    BY <1>20, <2>1, <2>2 DEF TickPropose, IInv, OneLive, LiveInOutline, UndoMatchesLive,
       ProposalIsElsewhere, TimerFollowsSession, Active
<1>21. CASE TickNoMove
  <2>1. TypeOK' /\ Shape'
    BY <1>21 DEF TickNoMove, IInv, TypeOK, Shape, Active, IdleTick, SectionOrNone
  <2>2. QED
    BY <1>21, <2>1, QuietStep DEF TickNoMove, IInv, LiveInOutline
<1>22. CASE TimePasses
  <2>1. undo' \in {undo, NoUndo} \/ undo' = [undo EXCEPT !.left = @ - 1]
    BY <1>22 DEF TimePasses
  <2>2. undo' \in [from : SectionOrNone, to : SectionOrNone, left : 0..UndoTicks]
    BY <1>22, LivePositionAssumption DEF TimePasses, IInv, TypeOK, NoUndo, SectionOrNone
  <2>3. /\ suppressed' \in 0..SuppressTicks
        /\ notnow' \in [Sections -> 0..NotNowTicks]
        /\ sinceChair' \in 0..SuppressTicks
    BY <1>22, LivePositionAssumption DEF TimePasses, IInv, TypeOK, Down
  <2>4. TypeOK' /\ Shape'
    BY <1>22, <2>2, <2>3 DEF TimePasses, IInv, TypeOK, Shape, Active
  <2>5. UndoMatchesLive'
    BY <1>22 DEF TimePasses, IInv, TypeOK, UndoMatchesLive, NoUndo, Active
  <2>6. QED
    BY <1>22, <2>4, <2>5 DEF TimePasses, IInv, OneLive, LiveInOutline,
       ProposalIsElsewhere, TimerFollowsSession, Active
<1>23. CASE UNCHANGED vars
  BY <1>23 DEF vars, IInv, TypeOK, Shape, OneLive, LiveInOutline, UndoMatchesLive,
     ProposalIsElsewhere, TimerFollowsSession, Active
<1>24. QED
  BY <1>1, <1>2, <1>3, <1>4, <1>5, <1>6, <1>7, <1>8, <1>9, <1>10, <1>11, <1>12, <1>13,
     <1>14, <1>15, <1>16, <1>17, <1>18, <1>19, <1>20, <1>21, <1>22, <1>23 DEF Next

(* The invariant holds in every reachable state.                            *)
THEOREM InvariantHolds == Spec => []IInv
<1>1. QED
  BY InitInvariant, StepInvariant, PTL DEF Spec

(* The state is well typed, whatever the outlines and the time limits are.  *)
THEOREM TypeCorrect == Spec => []TypeOK
<1>1. IInv => TypeOK
  BY DEF IInv
<1>2. QED
  BY <1>1, InvariantHolds, PTL

(* No interleaving of chair, spoken commands, edits and ticks opens two rows *)
(* (outline.move), takes the live one out of the outline (replace_agenda) or *)
(* lets its timer disagree with the session.                                 *)
THEOREM OnePlaceHolds == Spec => []OnePlace
<1>1. IInv => OnePlace
  BY DEF IInv, OnePlace
<1>2. QED
  BY <1>1, InvariantHolds, PTL

(* What undo would take back is the move that opened the live row, and an   *)
(* open proposal names another row than it.                                 *)
THEOREM OffersFitHolds == Spec => []OffersFit
<1>1. IInv => OffersFit
  BY DEF IInv, OffersFit
<1>2. QED
  BY <1>1, InvariantHolds, PTL

-----------------------------------------------------------------------------
(* What the suppression timer says of the time since the chair's last move. *)
Floor == suppressed + sinceChair >= SuppressTicks

LEMMA FloorHolds == Spec => []Floor
<1>1. Init => Floor
  BY LivePositionAssumption DEF Init, Floor
<1>2. IInv /\ Floor /\ [Next]_vars => Floor'
  <2> SUFFICES ASSUME IInv, Floor, [Next]_vars PROVE Floor'
    OBVIOUS
  <2>1. SuppressTicks \in Nat /\ suppressed \in 0..SuppressTicks /\ sinceChair \in 0..SuppressTicks
    BY LivePositionAssumption DEF IInv, TypeOK
  <2>2. CASE suppressed' = SuppressTicks /\ sinceChair' = 0
    BY <2>1, <2>2 DEF Floor
  <2>3. CASE UNCHANGED <<suppressed, sinceChair>>
    BY <2>3 DEF Floor
  <2>4. CASE TimePasses
    BY <2>1, <2>4 DEF TimePasses, Down, Floor
  <2>5. QED
    BY <2>2, <2>3, <2>4, Zenon DEF Next, vars, ChairMove, ChairNext, ChairBack, SpokenMove, Undo,
       AcceptProposal, DeclineProposal, ReplaceAgenda, EditRead, EditStatus, EditAdd,
       Start, Pause, Resume, End, TickRead, TickDropped, TickReply, TickMove, TickPropose,
       TickNoMove, ByChair, ByAI
<1>3. QED
  BY <1>1, <1>2, InvariantHolds, PTL DEF Spec

(* Only TickMove carries out a decision a tick has taken.                   *)
LEMMA OnlyTickMoveMoves ==
  ASSUME IInv, [Next]_vars, TickMoves
  PROVE  TickMove
<1>1. CASE live' = live
  BY <1>1 DEF TickMoves
<1>2. CASE tick' = tick \/ tick' = [tick EXCEPT !.moved = (tick.phase # "idle")]
  <2>1. tick \in TickType
    BY DEF IInv, TypeOK, TickType
  <2>2. tick'.phase = tick.phase
    BY Zenon, <1>2, <2>1 DEF TickType
  <2>3. QED
    BY <2>2 DEF TickMoves
<1>3. QED
  BY <1>1, <1>2, Zenon DEF Next, vars, ChairMove, ChairNext, ChairBack, SpokenMove, Undo,
     AcceptProposal, DeclineProposal, ReplaceAgenda, EditRead, EditStatus, EditAdd,
     Start, Pause, Resume, End, TickRead, TickDropped, TickReply, TickPropose,
     TickNoMove, TimePasses, ByChair

(* While the chair has the floor, no tick moves the meeting                 *)
(* (ai_moves_suppressed, read again in _handle_advance); and a tick moves it*)
(* only away from the row of its prompt.                                    *)
THEOREM TickDefersHolds == Spec => TickDefers
<1>1. IInv /\ Floor /\ [Next]_vars
        => [TickMoves => sinceChair = SuppressTicks /\ live = tick.live]_vars
  <2> SUFFICES ASSUME IInv, Floor, [Next]_vars, TickMoves
               PROVE  sinceChair = SuppressTicks /\ live = tick.live
    OBVIOUS
  <2>1. suppressed = 0 /\ live = tick.live
    BY OnlyTickMoveMoves DEF TickMove, MayAdvance
  <2>2. QED
    BY <2>1, LivePositionAssumption DEF IInv, TypeOK, Floor
<1>2. QED
  BY <1>1, InvariantHolds, FloorHolds, PTL DEF Spec, TickDefers

-----------------------------------------------------------------------------
(* The point a row is of is at the top, and so under none.                  *)
LEMMA TopIsTop ==
  ASSUME NEW o \in Outlines, NEW s \in Rows(o)
  PROVE  Top(o, s) \in Rows(o) /\ o.parent[Top(o, s)] = None
BY OutlineAssumption DEF Top, IsTop

(* Leaving a point forward leaves neither it nor any of its sub-points      *)
(* pending.                                                                 *)
LEMMA LeaveClosesPoint ==
  ASSUME NEW o \in Outlines, NEW st \in StatusMap, NEW cur \in Rows(o), NEW t,
         Top(o, t) # Top(o, cur)
  PROVE  /\ LeaveForward(o, st, cur, t, "done") \in StatusMap
         /\ \A s \in {Top(o, cur)} \cup Children(o, Top(o, cur)) :
              LeaveForward(o, st, cur, t, "done")[s] # "pending"
<1>0. cur \in Sections /\ Top(o, cur) \in Sections /\ Children(o, Top(o, cur)) \subseteq Sections
  BY RowsAreSections DEF Children
<1>1. ASSUME NEW st1 \in StatusMap, st1[Top(o, cur)] # "pending"
      PROVE  /\ CloseChildren(o, st1, Top(o, cur)) \in StatusMap
             /\ \A s \in {Top(o, cur)} \cup Children(o, Top(o, cur)) :
                  CloseChildren(o, st1, Top(o, cur))[s] # "pending"
  <2>1. CloseChildren(o, st1, Top(o, cur)) \in StatusMap
    BY CloseFacts
  <2>2. \A s \in {Top(o, cur)} \cup Children(o, Top(o, cur)) :
          CloseChildren(o, st1, Top(o, cur))[s] # "pending"
    BY <1>0, <1>1 DEF CloseChildren, Cover
  <2> QED
    BY <2>1, <2>2
<1> DEFINE closed == [st EXCEPT ![cur] = "done"]
           swept == MarkSubpointsThrough(o, closed, cur)
           top == [swept EXCEPT ![Top(o, cur)] = IF @ \in {"pending", "live"} THEN "done" ELSE @]
<1>2. closed \in StatusMap /\ closed[cur] = "done"
  BY <1>0 DEF StatusMap, SectionStatus
<1>3. CASE IsTop(o, cur)
  <2>1. LeaveForward(o, st, cur, t, "done") = CloseChildren(o, closed, Top(o, cur)) /\ Top(o, cur) = cur
    BY <1>3 DEF LeaveForward, Top
  <2> HIDE DEF closed
  <2> QED
    BY <1>1, <1>2, <2>1
<1>4. CASE ~IsTop(o, cur)
  <2>1. LeaveForward(o, st, cur, t, "done") = CloseChildren(o, top, Top(o, cur))
    BY <1>4 DEF LeaveForward
  <2> HIDE DEF closed
  <2>2. swept \in StatusMap
    BY <1>2, MarkFacts
  <2> HIDE DEF swept
  <2>3. top \in StatusMap /\ top[Top(o, cur)] # "pending"
    BY <1>0, <2>2 DEF StatusMap, SectionStatus
  <2> HIDE DEF top
  <2> QED
    BY <1>1, <2>1, <2>3
<1> QED
  BY <1>3, <1>4

(* A move to a later point leaves the point it comes from closed: entering  *)
(* reopens only the point that is entered.                                  *)
LEMMA MoveClosesPoint ==
  ASSUME NEW o \in Outlines, NEW st \in StatusMap, NEW cur \in Rows(o), NEW t \in Rows(o),
         Later(o, t, cur), Top(o, t) # Top(o, cur)
  PROVE  \A s \in {Top(o, cur)} \cup Children(o, Top(o, cur)) :
           Moved(o, st, cur, t, "done")[s] # "pending"
<1>0. /\ None \notin Sections /\ Rows(o) \subseteq Sections /\ cur # None
      /\ Top(o, t) \in Rows(o) /\ o.parent[Top(o, t)] = None
      /\ Top(o, cur) \in Rows(o) /\ o.parent[Top(o, cur)] = None
  BY OutlineAssumption, RowsAreSections, TopIsTop
<1>1. o.parent[t] # cur
  <2>1. SUFFICES ASSUME o.parent[t] = cur PROVE FALSE
    OBVIOUS
  <2>2. Top(o, t) = cur
    BY <1>0, <2>1 DEF Top, IsTop
  <2>3. Top(o, cur) = cur
    BY <1>0, <2>2 DEF Top, IsTop
  <2> QED
    BY <2>2, <2>3
<1> DEFINE left == LeaveForward(o, st, cur, t, "done")
<1>2. Leave(o, st, cur, t, "done") = left
  BY <1>1 DEF Leave
<1>3. left \in StatusMap /\ \A s \in {Top(o, cur)} \cup Children(o, Top(o, cur)) : left[s] # "pending"
  BY LeaveClosesPoint
<1>4. Moved(o, st, cur, t, "done") = Enter(o, left, t)
  BY <1>0, <1>2 DEF Moved
<1> HIDE DEF left
<1>5. Top(o, t) \notin {Top(o, cur)} \cup Children(o, Top(o, cur))
  BY <1>0 DEF Children
<1>6. {Top(o, cur)} \cup Children(o, Top(o, cur)) \subseteq Sections
  BY <1>0 DEF Children
<1>7. \A s \in {Top(o, cur)} \cup Children(o, Top(o, cur)) : Enter(o, left, t)[s] # "pending"
  BY <1>0, <1>3, <1>5, <1>6 DEF Enter, StatusMap
<1> QED
  BY <1>4, <1>7

(* Once the session has a live row, only a move changes it.                 *)
LEMMA OnlyMovesMove ==
  ASSUME IInv, [Next]_vars, live # None, live' # live
  PROVE  live' \in Rows(outline) /\ MoveTo(live')
<1>1. \A t : MoveTo(t) => live' = t
  BY DEF MoveTo
<1>2. CASE ChairMove
  BY <1>1, <1>2 DEF ChairMove
<1>3. CASE ChairNext
  BY <1>1, <1>3 DEF ChairNext
<1>4. CASE ChairBack
  BY <1>1, <1>4 DEF ChairBack
<1>5. CASE SpokenMove
  BY <1>1, <1>5 DEF SpokenMove, Nav
<1>6. CASE Undo
  BY <1>1, <1>6 DEF Undo
<1>7. CASE AcceptProposal
  BY <1>1, <1>7 DEF AcceptProposal
<1>8. CASE TickMove
  BY <1>1, <1>8 DEF TickMove, MayAdvance
<1>9. CASE Start
  BY <1>9 DEF Start, IInv, Shape
<1> QED
  BY <1>2, <1>3, <1>4, <1>5, <1>6, <1>7, <1>8, <1>9, Zenon DEF Next, vars, DeclineProposal,
     ReplaceAgenda, EditRead, EditStatus, EditAdd, Pause, Resume, End, TickRead, TickDropped,
     TickReply, TickPropose, TickNoMove, TimePasses

(* Whoever moves the meeting on from a point, it is left with nothing of it *)
(* pending (outline.move, _close_children): not the point, not a sub-point  *)
(* that nobody opened.                                                      *)
THEOREM PointClosedWholeHolds == Spec => PointClosedWhole
<1>1. IInv /\ [Next]_vars
        => [LeavesPointForward =>
              \A s \in {Top(outline, live)} \cup Children(outline, Top(outline, live)) :
                status'[s] # "pending"]_vars
  <2> SUFFICES ASSUME IInv, [Next]_vars, LeavesPointForward
               PROVE  \A s \in {Top(outline, live)} \cup Children(outline, Top(outline, live)) :
                        status'[s] # "pending"
    OBVIOUS
  <2>1. /\ live # None /\ live' # live
        /\ Top(outline, live') # Top(outline, live) /\ Later(outline, live', live)
    BY DEF LeavesPointForward
  <2>2. live' \in Rows(outline) /\ status' = Moved(outline, status, live, live', "done")
    BY <2>1, OnlyMovesMove DEF MoveTo
  <2>3. outline \in Outlines /\ status \in StatusMap /\ live \in Rows(outline)
    BY <2>1 DEF IInv, TypeOK, StatusMap, LiveInOutline
  <2> QED
    BY <2>1, <2>2, <2>3, MoveClosesPoint
<1>2. QED
  BY <1>1, InvariantHolds, PTL DEF Spec, PointClosedWhole
=============================================================================
