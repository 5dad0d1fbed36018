------------------------------- MODULE Outline -------------------------------
(***************************************************************************)
(* The outline of a session (meetpp/outline.py): its rows in outline order *)
(* and the parent of every sub-point, and the functions that compute the   *)
(* next status of the rows.  A row that is not in the outline yet has      *)
(* status "none", one that was deleted "removed" (ids are never reused).   *)
(* Titles, numbers and timeboxes are left out.                             *)
(***************************************************************************)
EXTENDS Integers, Sequences

CONSTANTS
  Sections,  \* every section id a session may come to have
  None,      \* the null of the code's nullable columns
  Fixed,     \* rows of the template: never removed by the agenda editor
  SkipKinds, \* the fixed rows apply_skip_rules governs (previous actions, AOB)
  Outlines   \* the outlines a session may have (bounds the model)

(* Rows of an outline record. *)
Rows(o) == {o.flat[i] : i \in 1..Len(o.flat)}

OutlineType == [flat : Seq(Sections), parent : [Sections -> Sections \cup {None}]]

(* Every outline has a fixed row (create_fixed_sections), no row twice, and *)
(* the parent of a row is a top-level row of the same outline.              *)
ASSUME OutlineAssumption ==
  /\ None \notin Sections
  /\ SkipKinds \subseteq Fixed
  /\ Fixed \subseteq Sections
  /\ Outlines \subseteq OutlineType
  /\ \A o \in Outlines :
       /\ Len(o.flat) > 0
       /\ Fixed \subseteq Rows(o)
       /\ \A i, j \in 1..Len(o.flat) : o.flat[i] = o.flat[j] => i = j
       /\ \A s \in Rows(o) :
            o.parent[s] # None =>
              o.parent[s] \in Rows(o) /\ o.parent[o.parent[s]] = None

SectionStatus == {"none", "removed", "pending", "live", "done", "deferred", "skipped"}

IsTop(o, s) == o.parent[s] = None
Top(o, s) == IF IsTop(o, s) THEN s ELSE o.parent[s]
Children(o, p) == {c \in Rows(o) : o.parent[c] = p}

Index(o, s) == CHOOSE i \in 1..Len(o.flat) : o.flat[i] = s
Later(o, a, b) == Index(o, a) > Index(o, b)

(* Navigation passes over skipped rows and walks top-level rows only. *)
Nav(o, st) == {s \in Rows(o) : IsTop(o, s) /\ st[s] # "skipped"}

IsEarliest(o, S, t) == t \in S /\ \A u \in S : ~Later(o, t, u)
IsLatest(o, S, t) == t \in S /\ \A u \in S : ~Later(o, u, t)

IsFirstSection(o, st, t) ==
  IF Nav(o, st) = {} THEN t = o.flat[1] ELSE IsEarliest(o, Nav(o, st), t)

IsNextTarget(o, st, cur, t) ==
  IsEarliest(o, {s \in Nav(o, st) : Later(o, s, Top(o, cur))}, t)

(* Back from a sub-point is its own point. *)
IsPrevTarget(o, st, cur, t) ==
  IF IsTop(o, cur) THEN IsLatest(o, {s \in Nav(o, st) : Later(o, cur, s)}, t)
  ELSE t = Top(o, cur)

(* Rows of S that are pending become done. *)
Cover(st, S) == [s \in Sections |-> IF s \in S /\ st[s] = "pending" THEN "done" ELSE st[s]]
(* Mutant: the sub-points of a closing point stay pending. *)
CloseNoChildren(o, st, p) == st

CloseChildren(o, st, p) == Cover(st, Children(o, p))
EarlierSiblings(o, sub) == {c \in Children(o, o.parent[sub]) : Later(o, sub, c)}
MarkSubpointsThrough(o, st, sub) ==
  IF IsTop(o, sub) THEN st ELSE Cover(st, EarlierSiblings(o, sub))

(* `skip` is the set of rows the rules want skipped; only rows that are     *)
(* pending or skipped change.                                              *)
ApplySkipRules(o, st, skip) ==
  [s \in Sections |->
     IF s \in SkipKinds \cap Rows(o) /\ st[s] \in {"pending", "skipped"}
     THEN IF s \in skip THEN "skipped" ELSE "pending"
     ELSE st[s]]

(* New rows of the outline o2 are pending, rows that are not in it any more *)
(* are removed.                                                            *)
Refit(o2, st) ==
  [s \in Sections |->
     IF s \in Rows(o2) THEN IF st[s] = "none" THEN "pending" ELSE st[s]
     ELSE IF st[s] = "none" THEN "none" ELSE "removed"]

(* replace_agenda from o to o2: the fixed rows and the items raised under   *)
(* them stay, a kept row stays a point or a sub-point, no id comes back.    *)
Replaces(o, o2, st) ==
  /\ \A s \in Rows(o2) : st[s] # "removed"
  /\ \A s \in Rows(o) \cap Rows(o2) : IsTop(o, s) <=> IsTop(o2, s)
  /\ \A s \in Rows(o) : o.parent[s] \in Fixed => s \in Rows(o2)
  /\ \A s \in Rows(o2) :
       o2.parent[s] \in Fixed => s \in Rows(o) /\ o.parent[s] = o2.parent[s]

(* o2 is o with the one row s added (add_section never reorders the rest). *)
AddsOne(o, o2, s) ==
  /\ s \notin Rows(o)
  /\ Rows(o2) = Rows(o) \cup {s}
  /\ \A r \in Rows(o) : o2.parent[r] = o.parent[r]
  /\ \A a, b \in Rows(o) : Later(o2, a, b) <=> Later(o, a, b)

(* The rows before a move of the live position from cur to t: what the row *)
(* left behind, its point and its sub-points become.  `close` is the       *)
(* status a row left forward takes.                                        *)
LeaveForward(o, st, cur, t, close) ==
  LET closed == [st EXCEPT ![cur] = close]
      ctop == Top(o, cur)
      swept == MarkSubpointsThrough(o, closed, cur)
      top == [swept EXCEPT ![ctop] = IF @ \in {"pending", "live"} THEN close ELSE @]
  IN IF IsTop(o, cur) THEN CloseChildren(o, closed, cur)
     ELSE IF Top(o, t) = ctop THEN swept
     ELSE CloseChildren(o, top, ctop)

LeaveBackward(o, st, cur, t) ==
  LET left == [st EXCEPT ![cur] = "pending"]
      ctop == Top(o, cur)
  IN IF ~IsTop(o, cur) /\ Top(o, t) # ctop /\ st[ctop] \in {"pending", "live"}
     THEN [left EXCEPT ![ctop] = "pending"]
     ELSE left

Leave(o, st, cur, t, close) ==
  IF ~Later(o, t, cur) THEN LeaveBackward(o, st, cur, t)
  ELSE IF o.parent[t] = cur THEN [st EXCEPT ![cur] = "pending"]
  ELSE LeaveForward(o, st, cur, t, close)

(* Entering t reopens its point when that was closed. *)
Enter(o, st, t) ==
  LET ttop == Top(o, t)
      opened == IF ttop # t /\ st[ttop] \in {"done", "deferred"}
                THEN [st EXCEPT ![ttop] = "pending"] ELSE st
  IN [opened EXCEPT ![t] = "live"]

Moved(o, st, cur, t, close) ==
  Enter(o, IF cur = None THEN st ELSE Leave(o, st, cur, t, close), t)

(* The top-level rows whose minutes a move makes due (MoveResult.closed). *)
ClosedBy(o, cur, t) ==
  IF cur = None \/ ~Later(o, t, cur) \/ o.parent[t] = cur THEN {}
  ELSE IF IsTop(o, cur) \/ Top(o, t) # Top(o, cur) THEN {Top(o, cur)}
  ELSE {}

(* end of the session: the live row, its point and its sub-points close. *)
ClosedLive(o, st, cur) ==
  LET closed == [st EXCEPT ![cur] = "done"]
      ctop == Top(o, cur)
      top == [closed EXCEPT ![ctop] = IF @ \in {"pending", "live"} THEN "done" ELSE @]
  IN CloseChildren(o, top, ctop)
=============================================================================
