---------------------------- MODULE LivePosition ----------------------------
(***************************************************************************)
(* The live position of a Meet++ session: which outline row the meeting is *)
(* at, and who may move it.  The chair moves it from the board, the chair  *)
(* or a co-host by a spoken command, the interpretation tick by itself.    *)
(* A tick reads the position, waits for the model, applies the reply in    *)
(* one transaction, waits for the broadcast, and only then moves; an edit  *)
(* request reads the session in a worker thread and is applied later.      *)
(* Everything else runs to its commit without a suspension, and is one     *)
(* action here.                                                            *)
(***************************************************************************)
EXTENDS Outline

CONSTANTS
  FirstOutline,  \* the outline the session is created with
  UndoTicks,     \* AI_UNDO_SECONDS, in steps of the clock
  SuppressTicks, \* CHAIR_SUPPRESS_SECONDS
  NotNowTicks    \* NOT_NOW_SECONDS

ASSUME LivePositionAssumption ==
  /\ FirstOutline \in Outlines
  /\ {UndoTicks, SuppressTicks, NotNowTicks} \subseteq Nat \ {0}

VARIABLES
  session,    \* sessions.status
  outline,    \* rows, order and parents
  status,     \* sections.status
  live,       \* sessions.live_section_id
  timing,     \* started_at of the live row is set (no other row's is ever read)
  undo,       \* sessions.undo_json while it is valid, with the time it has left
  proposal,   \* sessions.proposal_json: the row proposed
  suppressed, \* time left of ai_moves_suppressed_until
  notnow,     \* topic_state.notnow: time left per row
  tick,       \* the tick in flight
  edit,       \* the edit request in flight: the live row its session object has
  sinceChair  \* history: time since the last chair or undo move, saturating

vars == <<session, outline, status, live, timing, undo, proposal, suppressed,
          notnow, tick, edit, sinceChair>>

Active == session \in {"running", "paused"}

NoUndo == [from |-> None, to |-> None, left |-> 0]
IdleTick == [phase |-> "idle", live |-> None, to |-> None, auto |-> FALSE]
IdleEdit == [open |-> FALSE, live |-> None]

SectionOrNone == Sections \cup {None}

TypeOK ==
  /\ session \in {"setup", "running", "paused", "finalising"}
  /\ outline \in Outlines
  /\ status \in [Sections -> SectionStatus]
  /\ live \in SectionOrNone
  /\ timing \in BOOLEAN
  /\ undo \in [from : SectionOrNone, to : SectionOrNone, left : 0..UndoTicks]
  /\ proposal \in SectionOrNone
  /\ suppressed \in 0..SuppressTicks
  /\ notnow \in [Sections -> 0..NotNowTicks]
  /\ tick \in [phase : {"idle", "reading", "deciding"}, live : SectionOrNone,
               to : SectionOrNone, auto : BOOLEAN]
  /\ edit \in [open : BOOLEAN, live : SectionOrNone]
  /\ sinceChair \in 0..SuppressTicks

Init ==
  /\ session = "setup"
  /\ outline = FirstOutline
  /\ \E skip \in SUBSET SkipKinds :
       status = ApplySkipRules(FirstOutline,
                  Refit(FirstOutline, [s \in Sections |-> "none"]), skip)
  /\ live = None
  /\ timing = FALSE
  /\ undo = NoUndo
  /\ proposal = None
  /\ suppressed = 0
  /\ notnow = [s \in Sections |-> 0]
  /\ tick = IdleTick
  /\ edit = IdleEdit
  /\ sinceChair = SuppressTicks

-----------------------------------------------------------------------------
(* Moves.  Every move closes what it leaves, starts the timer of what it    *)
(* enters only while the session runs, and withdraws the open proposal.     *)

(* Mutant: the open proposal survives the move.                              *)
MoveKeepsProposal(t) ==
  /\ live # t
  /\ status' = Moved(outline, status, live, t, "done")
  /\ timing' = (session = "running")
  /\ live' = t
  /\ UNCHANGED <<session, outline, notnow, proposal>>

MoveTo(t) ==
  /\ live # t
  /\ status' = Moved(outline, status, live, t, "done")
  /\ timing' = (session = "running")
  /\ live' = t
  /\ proposal' = None
  /\ UNCHANGED <<session, outline, notnow>>

(* Mutant: the AI is not held back. *)
ByChairNoSuppression ==
  /\ undo' = NoUndo
  /\ sinceChair' = 0
  /\ UNCHANGED <<suppressed, tick>>

ByChair ==
  /\ undo' = NoUndo
  /\ suppressed' = SuppressTicks
  /\ sinceChair' = 0
  /\ UNCHANGED tick

ByAI(t) ==
  /\ undo' = [from |-> live, to |-> t, left |-> UndoTicks]
  /\ UNCHANGED <<suppressed, sinceChair>>

(* POST /position: a row of the outline, skipped ones included. *)
ChairMove ==
  /\ Active
  /\ \E t \in Rows(outline) : MoveTo(t) /\ ByChair
  /\ UNCHANGED edit

ChairNext ==
  /\ Active
  /\ \E t \in Rows(outline) :
       IsNextTarget(outline, status, live, t) /\ MoveTo(t) /\ ByChair
  /\ UNCHANGED edit

ChairBack ==
  /\ Active
  /\ \E t \in Rows(outline) :
       IsPrevTarget(outline, status, live, t) /\ MoveTo(t) /\ ByChair
  /\ UNCHANGED edit

(* A spoken "next point" or "go to item n": a move with the AI's undo. *)
SpokenMove ==
  /\ Active
  /\ \E t \in Nav(outline, status) :
       /\ IsNextTarget(outline, status, live, t) \/ t \notin Fixed
       /\ MoveTo(t)
       /\ ByAI(t)
  /\ UNCHANGED <<tick, edit>>

(* POST /position/undo. *)
Undo ==
  /\ undo # NoUndo
  /\ IF undo.from \in Rows(outline) /\ live = undo.to
     THEN MoveTo(undo.from) /\ ByChair
     ELSE /\ undo' = NoUndo
          /\ UNCHANGED <<session, outline, status, live, timing, proposal,
                         suppressed, notnow, tick, sinceChair>>
  /\ UNCHANGED edit

(* POST /proposal: accepting is a chair move, declining silences the row. *)
AcceptProposal ==
  /\ proposal # None
  /\ proposal \in Rows(outline)
  /\ Active
  /\ MoveTo(proposal)
  /\ ByChair
  /\ UNCHANGED edit

DeclineProposal ==
  /\ proposal # None
  /\ notnow' = [notnow EXCEPT ![proposal] = NotNowTicks]
  /\ proposal' = None
  /\ UNCHANGED <<session, outline, status, live, timing, undo, suppressed,
                 tick, edit, sinceChair>>

-----------------------------------------------------------------------------
(* The outline and the lifecycle. *)

(* What adding at most one row makes of the outline; the skip rules run     *)
(* again only for a new top-level point.                                    *)
MayGrowTo(o2) ==
  \/ o2 = outline
  \/ \E s \in Sections : AddsOne(outline, o2, s) /\ status[s] = "none"

GrownStatus(o2, skip) ==
  IF \E s \in Rows(o2) \ Rows(outline) : IsTop(o2, s)
  THEN ApplySkipRules(o2, Refit(o2, status), skip)
  ELSE Refit(o2, status)

(* Mutant: the live row may be removed. *)
KeepsNothing(o2) == TRUE

KeepsLive(o2) == live # None => live \in Rows(o2)

(* PUT /outline, and the agenda imports; the live row cannot be removed. *)
ReplaceAgenda ==
  /\ session \in {"setup", "running", "paused"}
  /\ \E o2 \in Outlines, skip \in SUBSET SkipKinds :
       /\ Replaces(outline, o2, status)
       /\ KeepsLive(o2)
       /\ outline' = o2
       /\ status' = ApplySkipRules(o2, Refit(o2, status), skip)
  /\ UNCHANGED <<session, live, timing, undo, proposal, suppressed, notnow,
                 tick, edit, sinceChair>>

(* POST /ops, step one: a worker thread loads the session. *)
EditRead ==
  /\ ~edit.open
  /\ edit' = [open |-> TRUE, live |-> live]
  /\ UNCHANGED <<session, outline, status, live, timing, undo, proposal,
                 suppressed, notnow, tick, sinceChair>>

(* Step two: section.status on a row that is not the live one the request   *)
(* has seen, section.add, or an operation that leaves the outline alone.    *)
EditStatus ==
  /\ edit.open
  /\ \E s \in Rows(outline) \ {edit.live}, v \in {"done", "deferred"} :
       LET st == [status EXCEPT ![s] = v] IN
       status' = IF IsTop(outline, s) THEN CloseChildren(outline, st, s) ELSE st
  /\ edit' = IdleEdit
  /\ UNCHANGED <<session, outline, live, timing, undo, proposal, suppressed,
                 notnow, tick, sinceChair>>

EditAdd ==
  /\ edit.open
  /\ \E o2 \in Outlines, skip \in SUBSET SkipKinds :
       /\ MayGrowTo(o2)
       /\ outline' = o2
       /\ status' = GrownStatus(o2, skip)
  /\ edit' = IdleEdit
  /\ UNCHANGED <<session, live, timing, undo, proposal, suppressed, notnow,
                 tick, sinceChair>>

Start ==
  /\ session = "setup"
  /\ session' = "running"
  /\ \E skip \in SUBSET SkipKinds, t \in Rows(outline) :
       LET st == ApplySkipRules(outline, status, skip) IN
       /\ IsFirstSection(outline, st, t)
       /\ status' = [st EXCEPT ![t] = "live"]
       /\ live' = t
  /\ timing' = TRUE
  /\ UNCHANGED <<outline, undo, proposal, suppressed, notnow, tick, edit, sinceChair>>

Pause ==
  /\ session = "running"
  /\ session' = "paused"
  /\ timing' = FALSE
  /\ UNCHANGED <<outline, status, live, undo, proposal, suppressed, notnow,
                 tick, edit, sinceChair>>

(* resume_timer restarts only a row that is still live. *)
Resume ==
  /\ session = "paused"
  /\ session' = "running"
  /\ timing' = (timing \/ status[live] = "live")
  /\ UNCHANGED <<outline, status, live, undo, proposal, suppressed, notnow,
                 tick, edit, sinceChair>>

End ==
  /\ Active
  /\ session' = "finalising"
  /\ status' = ClosedLive(outline, status, live)
  /\ undo' = NoUndo
  /\ proposal' = None
  /\ UNCHANGED <<outline, live, timing, suppressed, notnow, tick, edit, sinceChair>>

-----------------------------------------------------------------------------
(* The interpretation tick. *)

TickRead ==
  /\ tick.phase = "idle"
  /\ session = "running"
  /\ tick' = [IdleTick EXCEPT !.phase = "reading", !.live = live]
  /\ UNCHANGED <<session, outline, status, live, timing, undo, proposal,
                 suppressed, notnow, edit, sinceChair>>

(* The LLM failed, its reply was unusable, or the session stopped running. *)
TickDropped ==
  /\ tick.phase = "reading"
  /\ tick' = IdleTick
  /\ UNCHANGED <<session, outline, status, live, timing, undo, proposal,
                 suppressed, notnow, edit, sinceChair>>

(* The reply is applied: operations (at most one new row here), then the    *)
(* sub-points the topic has passed, then the decision to advance, which is  *)
(* dropped when the live row is not the one of the prompt.                  *)
TickReply ==
  /\ tick.phase = "reading"
  /\ session = "running"
  /\ \E o2 \in Outlines, skip \in SUBSET SkipKinds, sub \in Rows(outline) :
       /\ MayGrowTo(o2)
       /\ outline' = o2
       /\ status' = MarkSubpointsThrough(o2, GrownStatus(o2, skip), sub)
       /\ \/ tick' = IdleTick
          \/ /\ live = tick.live
             /\ \E t \in {s \in Nav(o2, status') : Later(o2, s, Top(o2, live))}, auto \in BOOLEAN :
                  tick' = [tick EXCEPT !.phase = "deciding", !.to = t, !.auto = auto]
  /\ UNCHANGED <<session, live, timing, undo, proposal, suppressed, notnow,
                 edit, sinceChair>>

(* After the broadcast: everything is read again (_handle_advance). *)
MayAdvance ==
  /\ session = "running"
  /\ live = tick.live
  /\ tick.to \in Rows(outline)
  /\ notnow[tick.to] = 0
  /\ suppressed = 0

TickMove ==
  /\ tick.phase = "deciding"
  /\ MayAdvance
  /\ tick.auto
  /\ status[tick.to] # "skipped"
  /\ MoveTo(tick.to)
  /\ ByAI(tick.to)
  /\ tick' = IdleTick
  /\ UNCHANGED edit

TickPropose ==
  /\ tick.phase = "deciding"
  /\ MayAdvance
  /\ ~tick.auto
  /\ proposal' = tick.to
  /\ tick' = IdleTick
  /\ UNCHANGED <<session, outline, status, live, timing, undo, suppressed,
                 notnow, edit, sinceChair>>

TickNoMove ==
  /\ tick.phase = "deciding"
  /\ \/ ~MayAdvance
     \/ tick.auto /\ (status[tick.to] = "skipped" \/ live = tick.to)
  /\ tick' = IdleTick
  /\ UNCHANGED <<session, outline, status, live, timing, undo, proposal,
                 suppressed, notnow, edit, sinceChair>>

-----------------------------------------------------------------------------
(* Mutant: a timer that has run out keeps counting. *)
DownPastZero(n) == n - 1

Down(n) == IF n = 0 THEN 0 ELSE n - 1

TimePasses ==
  /\ undo' = IF undo.left <= 1 THEN NoUndo ELSE [undo EXCEPT !.left = @ - 1]
  /\ suppressed' = Down(suppressed)
  /\ notnow' = [s \in Sections |-> Down(notnow[s])]
  /\ sinceChair' = IF sinceChair = SuppressTicks THEN sinceChair ELSE sinceChair + 1
  /\ UNCHANGED <<session, outline, status, live, timing, proposal, tick, edit>>

Next ==
  \/ ChairMove \/ ChairNext \/ ChairBack \/ SpokenMove
  \/ Undo \/ AcceptProposal \/ DeclineProposal
  \/ ReplaceAgenda \/ EditRead \/ EditStatus \/ EditAdd
  \/ Start \/ Pause \/ Resume \/ End
  \/ TickRead \/ TickDropped \/ TickReply
  \/ TickMove \/ TickPropose \/ TickNoMove
  \/ TimePasses

Spec == Init /\ [][Next]_vars

-----------------------------------------------------------------------------
(* No two rows are ever live, and a live row is the one the session points  *)
(* at: the chair, a spoken command, undo and a tick decided earlier never   *)
(* leave a second row open, whatever order they arrive in (outline.move).   *)
OneLive == \A s \in Sections : status[s] = "live" => s = live /\ Active

(* The session never points at a row that is not in the outline: the agenda *)
(* editor and the imports may not take the live row away (replace_agenda).  *)
LiveInOutline == live # None => live \in Rows(outline)

(* Undo can only take back the move that made the current row live: any     *)
(* move after it, the end of the session included, withdraws it.            *)
UndoMatchesLive == undo # NoUndo => undo.to = live /\ undo.from # live /\ Active

(* An open proposal never names the row the meeting is at, and none is open *)
(* once the session has ended.                                              *)
ProposalIsElsewhere == proposal # None => proposal # live /\ Active

(* The timer of the live row runs exactly while the session runs.           *)
TimerFollowsSession ==
  (Active /\ status[live] = "live") => (timing <=> session = "running")

(* The session is at one place: the row it points at is in the outline, no  *)
(* other one is live, and its time runs exactly while the session does.     *)
OnePlace == OneLive /\ LiveInOutline /\ TimerFollowsSession

(* What the chair is offered fits where the meeting is: undo takes back the *)
(* move that brought it there, a proposal leads away from it.               *)
OffersFit == UndoMatchesLive /\ ProposalIsElsewhere

(* What the induction needs besides: a session that is active has a live    *)
(* row, one that was not started has none, and the row a tick decided on is *)
(* not the row of its prompt.                                               *)
Shape ==
  /\ session = "setup" => live = None
  /\ Active => live # None
  /\ tick.phase = "deciding" => tick.to # tick.live /\ tick.to # None

IInv ==
  /\ TypeOK
  /\ Shape
  /\ OneLive
  /\ LiveInOutline
  /\ UndoMatchesLive
  /\ ProposalIsElsewhere
  /\ TimerFollowsSession

TickMoves == tick.phase = "deciding" /\ tick'.phase = "idle" /\ live' # live

(* For CHAIR_SUPPRESS_SECONDS after a move of the chair (undo and accepted  *)
(* proposals count), no tick moves the meeting, whenever it was decided; and*)
(* a tick moves it only from the row its prompt showed as live.             *)
TickDefers == [][TickMoves => sinceChair = SuppressTicks /\ live = tick.live]_vars

(* When the meeting moves on from a point, nothing of it is left pending:   *)
(* the point is closed and so are the sub-points nobody opened, whichever   *)
(* row of the point was live (outline.move, _close_children).               *)
LeavesPointForward ==
  /\ live # None /\ live' # live /\ live' # outline.parent[live]
  /\ Top(outline, live') # Top(outline, live)
  /\ Later(outline, live', live)

PointClosedWhole ==
  [][LeavesPointForward =>
       \A s \in {Top(outline, live)} \cup Children(outline, Top(outline, live)) :
         status'[s] # "pending"]_vars
=============================================================================
