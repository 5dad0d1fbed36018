------------------------------ MODULE Decisions ------------------------------
(***************************************************************************)
(* The decisions of a session and their votes (ops.py, governance.py).     *)
(* The interpretation adds and updates decisions from what it hears, people*)
(* do so from the board, confirm and remove them and correct their votes;  *)
(* the rules of the series and the attendance change under them.  Every    *)
(* handler changes the decisions of a session without a suspension, and is  *)
(* one action here.                                                        *)
(* Titles, wording, evidence and order are left out: which decision an     *)
(* operation is about, and whether the lines it cites show an agreement,   *)
(* is a choice.                                                            *)
(***************************************************************************)
EXTENDS Integers

CONSTANTS
  Refs,      \* the decisions a session may come to have
  Turnouts,  \* how many voting members there may be, present or represented
  Rules,     \* the majority rules a series may have
  VoteData   \* the votes that people and the model name in their requests

MAJORITY_RULES == {"ordinary", "unanimous", "two_thirds", "four_fifths"}
Statuses == {"pending", "proposed", "adopted", "rejected", "withdrawn"}
Final == {"adopted", "rejected"}

(* Assent and consensus are one method here, the methods that count another.*)
Methods == {"assent", "counted"}

Counts == [for : Nat, against : Nat, abstain : Nat]
NoCount == [for |-> -1, against |-> -1, abstain |-> -1]
Zero == [for |-> 0, against |-> 0, abstain |-> 0]
Tallies == Counts \cup {NoCount}

(* A vote as a request names it: the ballots may be unreadable, and those   *)
(* that were read may count nothing.  The vote of a request without one has *)
(* the method "unvoted".                                                    *)
DataType == [method : Methods \cup {"none"}, count : Tallies,
             ballots : {"none", "unread", "read"}, cast : Tallies]
Says(method) == [method |-> method, count |-> NoCount, ballots |-> "none", cast |-> NoCount]
Unvoted == Says("unvoted")
Voted(data) == data.method # "unvoted"

ASSUME DecisionsAssumption ==
  /\ 0 \in Turnouts /\ Turnouts \subseteq Nat
  /\ Rules \subseteq MAJORITY_RULES /\ Rules # {}
  /\ VoteData \subseteq DataType

VARIABLES
  decision,  \* MeetppDecision; history: whose word its status is, an agreement was heard
  vote,      \* MeetppVote; history: whose count it has
  rule,      \* series.majority_rule
  formal,    \* is_formal: the series is a board's or a general assembly's
  present    \* voting members present or represented

vars == <<decision, vote, rule, formal, present>>

Absent == [status |-> "absent", locked |-> FALSE, by |-> "none", agreed |-> FALSE]
NoVote == [method |-> "none", tally |-> NoCount, rows |-> FALSE, present |-> 0,
           result |-> "none", confirmed |-> FALSE, by |-> "none"]

DecisionType == [status : Statuses \cup {"absent"}, locked : BOOLEAN,
                 by : {"none", "ai", "count", "person", "rules"}, agreed : BOOLEAN]
VoteType == [method : Methods, tally : Tallies, rows : BOOLEAN, present : Turnouts,
             result : Final \cup {"none"}, confirmed : BOOLEAN,
             by : {"none", "ai", "person", "assent"}]

(* Types; and a vote belongs to a decision.                                 *)
TypeOK ==
  /\ decision \in [Refs -> DecisionType]
  /\ vote \in [Refs -> VoteType \cup {NoVote}]
  /\ \A d \in Refs : decision[d].status = "absent" => decision[d] = Absent /\ vote[d] = NoVote
  /\ rule \in Rules /\ formal \in BOOLEAN /\ present \in Turnouts

Init ==
  /\ decision = [d \in Refs |-> Absent]
  /\ vote = [d \in Refs |-> NoVote]
  /\ rule \in Rules /\ formal \in BOOLEAN /\ present = 0

-----------------------------------------------------------------------------
(* Counting (compute_result, apply_vote). *)

Carried(r, t) ==
  \/ r = "ordinary" /\ t.for > t.against
  \/ r = "unanimous" /\ t.against = 0
  \/ r = "two_thirds" /\ 3 * t.for >= 2 * (t.for + t.against)
  \/ r = "four_fifths" /\ 5 * t.for >= 4 * (t.for + t.against)

Result(r, t) ==
  IF t = NoCount THEN "none"
  ELSE IF t.for > 0 /\ Carried(r, t) THEN "adopted" ELSE "rejected"

(* count_exceeds_present: nobody present means that it is not known.        *)
Exceeds(t, n) == n > 0 /\ t # NoCount /\ t.for + t.against + t.abstain > n

Method(v, data) ==
  IF data.method # "none" THEN data.method ELSE IF v.method = "none" THEN "assent" ELSE v.method

(* Assent with no ballots on record: those who are present have agreed.     *)
Assented(v, data) == Method(v, data) = "assent" /\ data.ballots = "none" /\ ~v.rows

(* The count a request makes: the one it names (the model says zeros for    *)
(* assent), that of its ballots, or that of the voters who assent.          *)
Counted(v, data) ==
  IF data.count # NoCount /\ ~(Method(v, data) = "assent" /\ data.count = Zero) THEN data.count
  ELSE IF data.ballots = "read" THEN data.cast
  ELSE IF Assented(v, data) /\ present > 0 THEN [Zero EXCEPT !.for = present]
  ELSE NoCount

(* Mutant: a count no person entered is a person's like any other.          *)
OnlyAtOnce(dec, v, count, who) == who = "ai"

(* Whose count this is: the model's unless a person entered or confirmed it.*)
ModelCount(dec, v, count, who) ==
  who = "ai" \/ (count = NoCount /\ ~dec.locked /\ ~v.confirmed)

(* An impossible count of the model decides nothing; what has no result     *)
(* keeps that of its decision.                                              *)
ResultOf(dec, v, count, who, r) ==
  LET tally == IF count = NoCount THEN v.tally ELSE count
      impossible == ModelCount(dec, v, count, who) /\ Exceeds(tally, present)
      result == IF impossible THEN "none" ELSE Result(r, tally)
  IN IF result = "none" /\ dec.status \in Final THEN dec.status ELSE result

(* apply_vote, for the model, a person, or new rules. *)
ApplyVote(dec, v, data, who, r) ==
  LET count == Counted(v, data)
  IN [method |-> Method(v, data),
      tally |-> IF count = NoCount THEN v.tally ELSE count,
      rows |-> data.ballots = "read" \/ (v.rows /\ data.ballots = "none") \/ Assented(v, data),
      present |-> present,
      result |-> ResultOf(dec, v, count, who, r),
      confirmed |-> v.confirmed,
      by |-> IF count = NoCount THEN v.by ELSE IF who = "rules" THEN "assent" ELSE who]

-----------------------------------------------------------------------------
(* The fields of an operation on a decision (_decision_fields). *)

(* Mutant: only a stated adoption has to have been heard.                   *)
UnheardStatus(dec, who, st, data, heard) ==
  who = "ai" /\ ~heard /\ dec.status # "adopted" /\ st = "adopted"

(* The model adopts only on an agreement in the lines it cites.             *)
Unheard(dec, who, st, data, heard) ==
  who = "ai" /\ ~heard /\ dec.status # "adopted" /\ (st = "adopted" \/ (st = "none" /\ Voted(data)))

Stated(dec, who, st, data, heard) ==
  IF ~Unheard(dec, who, st, data, heard) THEN st
  ELSE IF dec.status \in {"pending", "proposed"} THEN "proposed" ELSE "none"

(* The decision with the status the operation states. *)
WithStatus(dec, st) == IF st = "none" THEN dec ELSE [dec EXCEPT !.status = st]

(* A vote is taken unless it was not heard; what a formal body adopts with  *)
(* no count is taken with the assent of those present.                      *)
VoteAfter(dec, v, who, st, data, heard) ==
  LET stated == WithStatus(dec, Stated(dec, who, st, data, heard))
  IN IF Voted(data) /\ ~Unheard(dec, who, st, data, heard)
     THEN [ApplyVote(stated, v, data, who, rule) EXCEPT !.confirmed = (who = "person")]
     ELSE IF who = "ai" /\ stated.status = "adopted" /\ dec.status # "adopted" /\ formal /\ v = NoVote
     THEN [ApplyVote(stated, v, Says("assent"), who, rule) EXCEPT !.confirmed = FALSE]
     ELSE v

(* The vote v2 decides when the operation does not state a status. *)
Decides(dec, v2, who, st, data, heard) ==
  st = "none" /\ v2.result # "none" /\ Voted(data) /\ ~Unheard(dec, who, st, data, heard)

DecisionAfter(dec, v2, who, st, data, heard) ==
  LET counts == Decides(dec, v2, who, st, data, heard)
      status == IF counts THEN v2.result ELSE WithStatus(dec, Stated(dec, who, st, data, heard)).status
  IN [status |-> status,
      locked |-> dec.locked \/ who = "person",
      by |-> IF status = dec.status THEN dec.by ELSE IF counts /\ who = "ai" THEN "count" ELSE who,
      agreed |-> dec.agreed \/ (who = "ai" /\ heard)]

Fields(d, dec, who, st, data, heard) ==
  /\ vote' = [vote EXCEPT ![d] = VoteAfter(dec, @, who, st, data, heard)]
  /\ decision' = [decision EXCEPT ![d] = DecisionAfter(dec, vote'[d], who, st, data, heard)]
  /\ UNCHANGED <<rule, formal, present>>

-----------------------------------------------------------------------------
(* Operations. *)

Exists(d) == decision[d].status # "absent"
New == [Absent EXCEPT !.status = "proposed"]

(* Mutant: the model may change what a person has locked.                   *)
AnyMayChange(d, who) == TRUE
MayChange(d, who) == who = "person" \/ ~decision[d].locked

(* decision.add: a new decision.  One that was to be taken, or that says    *)
(* the same and has another status, is updated instead: the steps of Update.*)
Add(d, who, st, data, heard) ==
  ~Exists(d) /\ Fields(d, New, who, st, data, heard)

(* decision.update *)
Update(d, who, st, data, heard) ==
  /\ Exists(d) /\ MayChange(d, who)
  /\ Fields(d, decision[d], who, st, data, heard)

Votes == VoteData \cup {Unvoted}

(* The model never says that a decision is to be taken. *)
Tick(d) ==
  \E st \in (Statuses \ {"pending"}) \cup {"none"}, data \in Votes, heard \in BOOLEAN :
    Add(d, "ai", st, data, heard) \/ Update(d, "ai", st, data, heard)

Edit(d) ==
  \E st \in Statuses \cup {"none"}, data \in Votes :
    Add(d, "person", st, data, FALSE) \/ Update(d, "person", st, data, FALSE)

(* decision.confirm *)
Confirm(d) ==
  /\ Exists(d)
  /\ decision' = [decision EXCEPT ![d].locked = TRUE,
                    ![d].status = IF @ = "pending" THEN "proposed" ELSE @]
  /\ UNCHANGED <<vote, rule, formal, present>>

(* Mutant: the vote of a deleted decision stays. *)
DeleteDecisionOnly(d) ==
  /\ decision' = [decision EXCEPT ![d] = Absent]
  /\ UNCHANGED <<vote, rule, formal, present>>

(* delete_decision *)
Delete(d) ==
  /\ decision' = [decision EXCEPT ![d] = Absent]
  /\ vote' = [vote EXCEPT ![d] = NoVote]
  /\ UNCHANGED <<rule, formal, present>>

(* decision.reject *)
Remove(d) == Exists(d) /\ Delete(d)

(* Decisions to take come with an agenda, which replaces those of the last. *)
Prefill(d) ==
  /\ ~Exists(d)
  /\ decision' = [decision EXCEPT ![d] = [Absent EXCEPT !.status = "pending"]]
  /\ UNCHANGED <<vote, rule, formal, present>>

Unfill(d) == decision[d].status = "pending" /\ ~decision[d].locked /\ Delete(d)

(* PUT /vote: an empty list of ballots takes them off the record, and a     *)
(* vote that is confirmed decides.                                          *)
Corrected(d, data, says, emptied) ==
  LET v == ApplyVote(decision[d], vote[d], data, "person", rule)
  IN [v EXCEPT !.rows = @ /\ ~emptied,
               !.confirmed = says = "yes" \/ (says = "unsaid" /\ @)]

(* Mutant: a correction of the vote does not lock its decision.             *)
CorrectedUnlocked(dec, v, says) ==
  IF says # "yes" \/ v.result \in {"none", dec.status} THEN dec
  ELSE [dec EXCEPT !.status = v.result, !.by = "person"]

CorrectedDecision(dec, v, says) ==
  LET locked == [dec EXCEPT !.locked = TRUE]
  IN IF says # "yes" \/ v.result \in {"none", dec.status} THEN locked
     ELSE [locked EXCEPT !.status = v.result, !.by = "person"]

PutVote(d) ==
  /\ Exists(d)
  /\ \E data \in VoteData, says \in {"unsaid", "yes", "no"}, emptied \in BOOLEAN :
       /\ data.method # "none"
       /\ emptied => data.ballots = "none"
       /\ vote' = [vote EXCEPT ![d] = Corrected(d, data, says, emptied)]
       /\ decision' = [decision EXCEPT ![d] = CorrectedDecision(@, vote'[d], says)]
  /\ UNCHANGED <<rule, formal, present>>

-----------------------------------------------------------------------------
(* Rules and attendance. *)

(* Mutant: the votes on record keep the result they have.                   *)
VoteKept(d, r) == vote[d]
VoteUnder(d, r) ==
  IF vote[d] = NoVote THEN NoVote ELSE ApplyVote(decision[d], vote[d], Says("none"), "rules", r)

(* PUT /rules: what was decided follows its count under the new rules.      *)
PutRules ==
  /\ rule' \in Rules /\ formal' \in BOOLEAN
  /\ vote' = [d \in Refs |-> VoteUnder(d, rule')]
  /\ decision' = [d \in Refs |->
       IF decision[d].status \in Final /\ vote'[d].result \in Final \ {decision[d].status}
       THEN [decision[d] EXCEPT !.status = vote'[d].result, !.by = "rules"] ELSE decision[d]]
  /\ UNCHANGED present

Attend ==
  /\ present' \in Turnouts
  /\ UNCHANGED <<decision, vote, rule, formal>>

Next ==
  \/ \E d \in Refs : Tick(d) \/ Edit(d) \/ Confirm(d) \/ Remove(d) \/ Prefill(d) \/ Unfill(d) \/ PutVote(d)
  \/ PutRules \/ Attend

Spec == Init /\ [][Next]_vars

-----------------------------------------------------------------------------
(* "The model may only mark a decision adopted when the transcript lines it *)
(* cites show agreement" (agreement.py): whether it says so, merges it into *)
(* a decision that was to be taken, or gives the count that decides.        *)
AdoptedOnAgreement ==
  \A d \in Refs :
    decision[d].status = "adopted" /\ decision[d].by \in {"ai", "count"} => decision[d].agreed

(* "A person's count is never rewritten" (governance.py): neither the model *)
(* nor new rules replace it, only another person or the removal of its      *)
(* decision; the rules do where assent has no ballots on record any more.   *)
PersonsCountStands ==
  [][\A d \in Refs :
       /\ vote[d].by = "person" /\ vote'[d].by # "person"
       => \/ decision'[d] = Absent
          \/ vote[d].method = "assent" /\ ~vote[d].rows]_vars

(* Every vote on record has the result of its count under the rules of now, *)
(* except a count of more votes than voters that no person entered ("an     *)
(* impossible count from the model decides nothing").                       *)
ResultFollowsRule ==
  \A d \in Refs :
    vote[d].tally # NoCount =>
      \/ vote[d].result = Result(rule, vote[d].tally)
      \/ vote[d].by # "person" /\ Exceeds(vote[d].tally, vote[d].present)

(* And no decision is taken on such a count while nobody has edited it, at  *)
(* once or when the rules change or people leave.                           *)
TakenOnCount(d) ==
  decision'[d].status # decision[d].status /\ decision'[d].by \in {"count", "rules"}

ImpossibleDecidesNothing ==
  [][\A d \in Refs :
       TakenOnCount(d) /\ vote'[d].by = "ai" /\ Exceeds(vote'[d].tally, vote'[d].present)
         => decision[d].locked]_vars
=============================================================================
