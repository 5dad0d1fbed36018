------------------------------- MODULE Board -------------------------------
(***************************************************************************)
(* What the state protocol of a session promises to a browser that follows *)
(* it, whatever becomes of messages and requests: the board it shows has a *)
(* version, never an earlier one than before, and shows every change up to *)
(* that version. It may show some later changes too, early; it never shows *)
(* what was not published.                                                 *)
(***************************************************************************)
EXTENDS Integers, Sequences

CONSTANT Parts   \* the parts of the state: the live position, the rows

VARIABLES
    changes,   \* the parts each version changed, in the order of versions
    at,        \* the version of the board; -1 while nothing is loaded
    shown      \* of each part, the version of the value that is shown

board == <<changes, at, shown>>

(* The board s misses no change up to the version v. *)
Covers(s, v) == \A p \in Parts, u \in 1..v : p \in changes[u] => s[p] >= u

Init ==
    /\ changes = <<>>
    /\ at = -1
    /\ shown = [p \in Parts |-> 0]

Change ==
    /\ \E S \in SUBSET Parts : changes' = Append(changes, S)
    /\ UNCHANGED <<at, shown>>

Show ==
    /\ at' \in at..Len(changes)
    /\ shown' \in [Parts -> 0..Len(changes)]
    /\ Covers(shown', at')
    /\ UNCHANGED changes

Next == Change \/ Show

Spec == Init /\ [][Next]_board
=============================================================================
