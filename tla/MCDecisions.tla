----------------------------- MODULE MCDecisions -----------------------------
(* One decision (decisions meet in the rules and the attendance only); a    *)
(* count that one rule carries and the other does not, which is possible    *)
(* while it is not known who is there and impossible when two are, given as *)
(* a count or as ballots; zeros; ballots that cannot be read; no count.    *)
EXTENDS Decisions

CONSTANT d1

Divided == [for |-> 2, against |-> 1, abstain |-> 0]

Assent == Says("assent")
Hands == Says("counted")

MCVoteData ==
  {Says("none"), Assent, Hands}
  \cup {[v EXCEPT !.count = Divided] : v \in {Assent, Hands}}
  \cup {[Assent EXCEPT !.count = Zero], [Assent EXCEPT !.ballots = "unread"]}
  \cup {[Hands EXCEPT !.ballots = "read", !.cast = Divided]}
=============================================================================
