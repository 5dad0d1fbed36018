---------------------------- MODULE BackgroundProofs ----------------------------
(***************************************************************************)
(* What is proved of what goes on in a room with nobody asking for it, for *)
(* every value of the bounds.  The minutes of a point (Compose) are never  *)
(* left open, are of all that was said when the final pass has improved    *)
(* the transcript, and give way to nothing once a person has edited them.  *)
(* And the transcript (Transcription) keeps the order of speaking, has     *)
(* nothing after the verdict of the final pass, and keeps its final texts. *)
(***************************************************************************)
EXTENDS Background, Sequences, TLAPS

\* A composition that is new, and none.
LEMMA NoTaskIs ==
  /\ Minutes!NoTask \in Minutes!TaskRecord
  /\ Minutes!NoTask.phase = "none" /\ Minutes!NoTask.tier = "live"
BY BackgroundAssumption DEF Minutes!TaskRecord, Minutes!NoTask

LEMMA NewTaskIs ==
  ASSUME NEW f \in BOOLEAN
  PROVE  /\ Minutes!NewTask(f) \in Minutes!TaskRecord
         /\ Minutes!NewTask(f).phase = "new" /\ Minutes!NewTask(f).tier = "live"
BY NoTaskIs DEF Minutes!NewTask, Minutes!TaskRecord

\* What the answer, or the error, leaves the minutes with.
LEMMA StoredIs ==
  ASSUME Minutes!TypeOK, NEW ok \in BOOLEAN
  PROVE  /\ Minutes!Stored(ok) \in Minutes!MinuteRecord
         /\ s6.locked => Minutes!Stored(ok) = s6
         /\ ~s6.locked => ~Minutes!Stored(ok).locked /\ Minutes!Stored(ok).status \in {"notes", "composed", "failed"}
         /\ ~s6.locked /\ ~Minutes!Active => Minutes!Stored(ok).status \in {"composed", "failed"}
         /\ \/ Minutes!Stored(ok).tier = s6.tier /\ Minutes!Stored(ok).text = s6.text
               /\ Minutes!Stored(ok).status # "composed"
            \/ Minutes!Stored(ok) = s6
            \/ Minutes!Stored(ok).tier = s7.tier /\ Minutes!Stored(ok).text = s7.from
<1> USE DEF Minutes!TypeOK, Minutes!MinuteRecord, Minutes!TaskRecord, Minutes!Stored
<1>1. CASE s6.locked  BY <1>1
<1>2. CASE ~s6.locked /\ ~s7.force /\ s2 = "live" /\ Minutes!Active  BY <1>2
<1>3. CASE ~s6.locked /\ ~(~s7.force /\ s2 = "live" /\ Minutes!Active) /\ ~ok  BY <1>3
<1>4. CASE ~s6.locked /\ ~(~s7.force /\ s2 = "live" /\ Minutes!Active) /\ ok
  <2>1. Minutes!Stored(ok) = [s6 EXCEPT !.status = "composed", !.text = s7.from, !.tier = s7.tier]
    BY <1>4
  <2>2. s7.from \in 0..Minutes!NoText  BY BackgroundAssumption DEF Minutes!NoText
  <2> QED  BY <1>4, <2>1, <2>2
<1> QED  BY <1>1, <1>2, <1>3, <1>4

\* An edit leaves the text a person's, and locked.
LEMMA EditIs ==
  ASSUME Minutes!TypeOK, Minutes!Edit
  PROVE  /\ s6' \in Minutes!MinuteRecord
         /\ s6'.status = "edited" /\ s6'.locked /\ s6'.text = Minutes!Human /\ s6'.tier = s6.tier
<1>1. s6' = [s6 EXCEPT !.status = "edited", !.locked = TRUE, !.text = Minutes!Human]
  BY DEF Minutes!Edit
<1>2. Minutes!Human \in 0..Minutes!NoText  BY BackgroundAssumption DEF Minutes!Human, Minutes!NoText
<1> QED  BY <1>1, <1>2 DEF Minutes!TypeOK, Minutes!MinuteRecord

LEMMA MinutesTyped ==
  ASSUME Minutes!TypeOK, [Minutes!Next]_(Minutes!vars)
  PROVE  Minutes!TypeOK'
<1> USE BackgroundAssumption
<1>0. CASE UNCHANGED Minutes!vars
  BY <1>0 DEF Minutes!TypeOK, Minutes!vars, Minutes!NoText
<1>1. CASE Minutes!Say
  BY <1>1 DEF Minutes!TypeOK, Minutes!Say
<1>2. CASE Minutes!Enter
  BY <1>2 DEF Minutes!TypeOK, Minutes!MinuteRecord, Minutes!TaskRecord, Minutes!NoText, Minutes!Enter, Minutes!Spend, Minutes!Reopened
<1>3. CASE Minutes!Close
  BY <1>3 DEF Minutes!TypeOK, Minutes!Close, Minutes!Ask, Minutes!Askers
<1>4. CASE Minutes!LeaveBack \/ Minutes!PauseResume
  BY <1>4 DEF Minutes!TypeOK, Minutes!LeaveBack, Minutes!PauseResume
<1>5. CASE Minutes!EndSession
  BY <1>5 DEF Minutes!TypeOK, Minutes!EndSession
<1>6. CASE Minutes!Edit
  BY <1>6, EditIs DEF Minutes!TypeOK, Minutes!Edit, Minutes!Spend
<1>7. CASE Minutes!AskAgain \/ Minutes!LiveDraft
  BY <1>7 DEF Minutes!TypeOK, Minutes!AskAgain, Minutes!LiveDraft, Minutes!Ask, Minutes!Askers, Minutes!Spend
<1>8. ASSUME NEW a \in Minutes!Askers, Minutes!Start(a) PROVE Minutes!TypeOK'
  <2>1. s7' \in Minutes!TaskRecord
    <3> DEFINE f == a = "force"
    <3>1. f \in BOOLEAN  OBVIOUS
    <3> HIDE DEF f
    <3>2. Minutes!NewTask(f) \in Minutes!TaskRecord  BY <3>1, NewTaskIs
    <3> QED  BY <1>8, <3>2 DEF Minutes!Start, Minutes!TypeOK, f
  <2>2. s8' \in [Minutes!Askers -> Nat]  BY <1>8 DEF Minutes!TypeOK, Minutes!Start
  <2> QED  BY <1>8, <2>1, <2>2 DEF Minutes!TypeOK, Minutes!Start
<1>9. CASE Minutes!Begin
  <2>1. s7' \in Minutes!TaskRecord
    <3>1. \E p \in {"begun", "stored"} : s7' = [s7 EXCEPT !.phase = p]  BY <1>9 DEF Minutes!Begin
    <3> QED  BY <3>1 DEF Minutes!TypeOK, Minutes!TaskRecord
  <2>2. s6' \in Minutes!MinuteRecord
    <3>1. s6' = s6 \/ s6' = [s6 EXCEPT !.status = "composing", !.locked = FALSE]  BY <1>9 DEF Minutes!Begin
    <3> QED  BY <3>1 DEF Minutes!TypeOK, Minutes!MinuteRecord
  <2>3. UNCHANGED <<s1, s2, s3, s4, s5, s8, s9, s10>>  BY <1>9 DEF Minutes!Begin
  <2> QED  BY <2>1, <2>2, <2>3 DEF Minutes!TypeOK
<1>10. CASE Minutes!ReadTranscript
  <2>1. s7' \in Minutes!TaskRecord  BY <1>10 DEF Minutes!TypeOK, Minutes!TaskRecord, Minutes!ReadTranscript
  <2> QED  BY <1>10, <2>1 DEF Minutes!TypeOK, Minutes!ReadTranscript
<1>11. CASE Minutes!Store
  BY <1>11, StoredIs DEF Minutes!TypeOK, Minutes!Store, Minutes!TaskRecord
<1>12. CASE Minutes!Finish
  BY <1>12, NoTaskIs DEF Minutes!TypeOK, Minutes!Finish
<1>13. CASE Minutes!FinalPass \/ Minutes!ComposeJob \/ Minutes!Review
  BY <1>13 DEF Minutes!TypeOK, Minutes!FinalPass, Minutes!ComposeJob, Minutes!Review
<1>14. CASE Minutes!JobComposes
  BY <1>14, NewTaskIs DEF Minutes!TypeOK, Minutes!JobComposes
<1>15. CASE Minutes!Retry
  BY <1>15 DEF Minutes!TypeOK, Minutes!Retry, Minutes!Spend
<1>16. CASE Minutes!Restart
  BY <1>16, NoTaskIs DEF Minutes!TypeOK, Minutes!Restart, Minutes!Spend
<1> QED
  BY <1>0, <1>1, <1>2, <1>3, <1>4, <1>5, <1>6, <1>7, <1>8, <1>9, <1>10, <1>11, <1>12, <1>13, <1>14, <1>15,
     <1>16 DEF Minutes!Next, Minutes!Meeting, Minutes!Work, Minutes!Finalise
LEMMA MinutesStep ==
  ASSUME Minutes!ComposeHolds, [Minutes!Next]_(Minutes!vars)
  PROVE  Minutes!ComposeHolds'
<1> DEFINE Rest == Minutes!EndHolds /\ Minutes!LockHolds /\ Minutes!TaskHolds /\ Minutes!SettledHolds /\ Minutes!WholeHolds
<1>t. Minutes!TypeOK /\ Minutes!TypeOK' /\ Rest  BY MinutesTyped DEF Minutes!ComposeHolds
<1> SUFFICES Rest'  BY <1>t DEF Minutes!ComposeHolds
<1>0. CASE UNCHANGED Minutes!vars
  BY <1>0, <1>t DEF Minutes!vars, Minutes!ComposeHolds, Minutes!EndHolds, Minutes!LockHolds, Minutes!TaskHolds, Minutes!SettledHolds, Minutes!WholeHolds, Minutes!Active, Minutes!Open
<1> USE <1>t, BackgroundAssumption DEF Minutes!TypeOK, Minutes!MinuteRecord, Minutes!TaskRecord, Minutes!EndHolds, Minutes!LockHolds, Minutes!TaskHolds, Minutes!SettledHolds, Minutes!WholeHolds, Minutes!Active, Minutes!Open, Minutes!Composed
<1>1. CASE Minutes!Say
  BY <1>1 DEF Minutes!Say
<1>2. CASE Minutes!Enter
  BY <1>2 DEF Minutes!Enter, Minutes!Reopened
<1>3. CASE Minutes!Close
  BY <1>3 DEF Minutes!Close
<1>4. CASE Minutes!LeaveBack
  BY <1>4 DEF Minutes!LeaveBack
<1>5. CASE Minutes!PauseResume
  BY <1>5 DEF Minutes!PauseResume
<1>6. CASE Minutes!EndSession
  BY <1>6 DEF Minutes!EndSession
<1>7. CASE Minutes!Edit
  BY <1>7, EditIs DEF Minutes!Edit, Minutes!Human, Minutes!NoText
<1>8. CASE Minutes!AskAgain
  BY <1>8 DEF Minutes!AskAgain
<1>9. CASE Minutes!LiveDraft
  BY <1>9 DEF Minutes!LiveDraft
<1>10. CASE Minutes!Retry
  BY <1>10 DEF Minutes!Retry
<1>11. CASE Minutes!Begin
  <2>1. CASE s6.locked /\ ~s7.force  BY <1>11, <2>1 DEF Minutes!Begin
  <2>2. CASE ~(s6.locked /\ ~s7.force)
    <3>1. s6' = [s6 EXCEPT !.status = "composing", !.locked = FALSE]  BY <1>11, <2>2 DEF Minutes!Begin
    <3>2. /\ s6'.status = "composing" /\ ~s6'.locked
          /\ s6'.tier = s6.tier /\ s6'.text = s6.text
      BY <3>1
    <3>3. s7' = [s7 EXCEPT !.phase = "begun"] /\ s7.phase = "new" /\ UNCHANGED <<s1, s2, s3, s4, s5, s9>>
      BY <1>11, <2>2 DEF Minutes!Begin
    <3> QED  BY <3>2, <3>3
  <2> QED  BY <2>1, <2>2
<1>12. CASE Minutes!ReadTranscript
  BY <1>12 DEF Minutes!ReadTranscript
<1>13. CASE Minutes!Store
  BY <1>13, StoredIs DEF Minutes!Store
<1>14. CASE Minutes!Finish
  BY <1>14, NoTaskIs DEF Minutes!Finish
<1>15. CASE Minutes!FinalPass
  BY <1>15 DEF Minutes!FinalPass
<1>16. CASE Minutes!ComposeJob
  BY <1>16 DEF Minutes!ComposeJob, Minutes!NeedsComposing
<1>17. CASE Minutes!JobComposes
  BY <1>17, NewTaskIs DEF Minutes!JobComposes
<1>18. CASE Minutes!Review
  BY <1>18 DEF Minutes!Review
<1>19. CASE Minutes!Restart
  BY <1>19, NoTaskIs DEF Minutes!Restart
<1>20. ASSUME NEW a \in Minutes!Askers, Minutes!Start(a) PROVE Rest'
  <2>1. s7' = s7 \/ (s7.phase = "none" /\ s7'.phase = "new" /\ s7'.tier = "live")
    <3> DEFINE f == a = "force"
    <3>1. f \in BOOLEAN  OBVIOUS
    <3> HIDE DEF f
    <3>2. Minutes!NewTask(f).phase = "new" /\ Minutes!NewTask(f).tier = "live"  BY <3>1, NewTaskIs
    <3> QED  BY <1>20, <3>2 DEF Minutes!Start, f
  <2> QED  BY <2>1, <1>20 DEF Minutes!Start
<1> QED
  BY <1>0, <1>1, <1>2, <1>3, <1>4, <1>5, <1>6, <1>7, <1>8, <1>9, <1>10, <1>11, <1>12, <1>13, <1>14, <1>15, <1>16, <1>17, <1>18, <1>19, <1>20 DEF Minutes!Next, Minutes!Meeting, Minutes!Work, Minutes!Finalise, Minutes!ComposeHolds

LEMMA MinutesInit == Minutes!Init => Minutes!ComposeHolds
BY NoTaskIs, BackgroundAssumption
   DEF Minutes!Init, Minutes!ComposeHolds, Minutes!TypeOK, Minutes!MinuteRecord, Minutes!NoText, Minutes!Askers,
       Minutes!EndHolds, Minutes!LockHolds, Minutes!TaskHolds, Minutes!SettledHolds, Minutes!WholeHolds,
       Minutes!Active, Minutes!Open

\* Only a composition that the chair asked for unlocks a text, when it begins.
LEMMA OnlyForceUnlocks ==
  ASSUME Minutes!ComposeHolds, [Minutes!Next]_(Minutes!vars)
  PROVE  Minutes!EditGivesWay
<1> USE DEF Minutes!ComposeHolds, Minutes!TypeOK, Minutes!MinuteRecord, Minutes!LockHolds, Minutes!EditGivesWay
<1>1. CASE UNCHANGED s6  BY <1>1
<1>2. CASE Minutes!Enter  BY <1>2 DEF Minutes!Enter, Minutes!Reopened
<1>3. CASE Minutes!Edit
  <2>1. s6'.locked /\ s6'.text = Minutes!Human  BY <1>3, EditIs
  <2> QED  BY <2>1
<1>4. CASE Minutes!Begin  BY <1>4 DEF Minutes!Begin
<1>5. CASE Minutes!Store  BY <1>5, StoredIs DEF Minutes!Store
<1> QED
  BY <1>1, <1>2, <1>3, <1>4, <1>5
  DEF Minutes!vars, Minutes!Next, Minutes!Meeting, Minutes!Work, Minutes!Finalise, Minutes!Say, Minutes!Close,
      Minutes!LeaveBack, Minutes!PauseResume, Minutes!EndSession, Minutes!AskAgain, Minutes!LiveDraft,
      Minutes!Retry, Minutes!Start, Minutes!ReadTranscript, Minutes!Finish, Minutes!FinalPass,
      Minutes!ComposeJob, Minutes!JobComposes, Minutes!Review, Minutes!Restart

-----------------------------------------------------------------------------
(* "Edited by a person while composing: the edit wins" (compose.py _store), *)
(* and in the review every point that was discussed has its minutes, of all *)
(* that was said when the final pass has improved the transcript: whatever  *)
(* compositions were under way, cut off or taken back before the end.       *)
THEOREM MinutesKeptHolds == FairSpec => MinutesKept
<1> DEFINE Inv == part = "minutes" => Minutes!ComposeHolds
<1>s. [Next]_vars => part' = part /\ (part = "minutes" => [Minutes!Next]_(Minutes!vars))
  BY DEF Next, vars, slots, Minutes!vars
<1>1. Init => Inv  BY MinutesInit DEF Init
<1>2. Inv /\ [Next]_vars => Inv'  BY <1>s, MinutesStep
<1>3. Inv => (part = "minutes" => Minutes!NothingLeftOpen)
  <2> SUFFICES ASSUME Minutes!ComposeHolds PROVE Minutes!NothingLeftOpen
    OBVIOUS
  <2>1. Minutes!Quiet => s7.phase = "none" /\ s9 \in {"done", "failed"}
    BY NoTaskIs DEF Minutes!Quiet
  <2> QED
    BY <2>1 DEF Minutes!ComposeHolds, Minutes!NothingLeftOpen, Minutes!FinalCompositionRuns,
       Minutes!SettledHolds, Minutes!WholeHolds, Minutes!Composed
<1>4. Inv /\ [Next]_vars => [part = "minutes" => Minutes!EditGivesWay]_vars
  BY <1>s, OnlyForceUnlocks
<1> QED  BY <1>1, <1>2, <1>3, <1>4, PTL DEF FairSpec, MinutesKept

-----------------------------------------------------------------------------
(* What is said becomes the transcript (Transcription).                     *)

\* An entry is put at the end of the queue.
LEMMA SpeechPut ==
  ASSUME NEW q \in Seq(Speech!Item), NEW x \in Speech!Item
  PROVE  /\ Append(q, x) \in Seq(Speech!Item) /\ Len(Append(q, x)) = Len(q) + 1 /\ Len(q) \in Nat
         /\ \A i \in 1..(Len(q) + 1) : Append(q, x)[i] = IF i <= Len(q) THEN q[i] ELSE x
OBVIOUS

\* The first entries leave the queue.
LEMMA SpeechUnqueue ==
  ASSUME NEW q \in Seq(Speech!Item), NEW n \in 0..Len(q)
  PROVE  /\ SubSeq(q, n + 1, Len(q)) \in Seq(Speech!Item)
         /\ Len(SubSeq(q, n + 1, Len(q))) = Len(q) - n
         /\ \A i \in 1..(Len(q) - n) : SubSeq(q, n + 1, Len(q))[i] = q[i + n]
OBVIOUS

\* Which entries are put there.
LEMMA SpeechItems ==
  /\ \A kind \in Speech!Kinds, u \in 0..N : [kind |-> kind, u |-> u] \in Speech!Item
  /\ {"segments1", "segments2", "refinements", "final", "gaps", "status"} \subseteq Speech!Kinds
  /\ Speech!Utterances \subseteq 0..N /\ 0 \in 0..N /\ N \in 0..N
BY BackgroundAssumption DEF Speech!Item, Speech!Kinds, Speech!Utterances

\* What the server keeps of a batch: utterances it does not have, in the order
\* in which they are in the queue.
LEMMA SpeechIngested ==
  ASSUME Speech!TypeOK, Speech!Arrive
  PROVE  \E n \in Nat : \E f \in [1..n -> 1..s9.items] :
           /\ \A i \in 1..n : s8[f[i]].kind \in Speech!Segments /\ s8[f[i]].u \notin Speech!Range(s11)
           /\ \A i, j \in 1..n : i < j => f[i] < f[j]
           /\ \A i \in 1..s9.items : s8[i].kind \in Speech!Segments =>
                s8[i].u \in Speech!Range(s11) \/ \E m \in 1..n : f[m] = i
           /\ s11' = s11 \o [i \in 1..n |-> s8[f[i]].u]
<1> DEFINE b == SubSeq(s8, 1, s9.items)
<1>1. s8 \in Seq(Speech!Item) /\ s9.items \in 0..Len(s8) /\ Len(s8) \in Nat  BY DEF Speech!TypeOK
<1>2. Len(b) = s9.items /\ DOMAIN b = 1..s9.items /\ \A i \in 1..s9.items : b[i] = s8[i]  BY <1>1
<1>3. Speech!Ingested(b)  BY DEF Speech!Arrive
<1> HIDE DEF b
<1>4. PICK n \in 0..Len(b) : \E f \in [1..n -> Speech!New(b)] :
         /\ Speech!Range(f) = Speech!New(b) /\ \A i, j \in 1..n : i < j => f[i] < f[j]
         /\ s11' = s11 \o [i \in 1..n |-> b[f[i]].u]
  BY <1>3 DEF Speech!Ingested
<1>5. PICK f \in [1..n -> Speech!New(b)] :
         /\ Speech!Range(f) = Speech!New(b) /\ \A i, j \in 1..n : i < j => f[i] < f[j]
         /\ s11' = s11 \o [i \in 1..n |-> b[f[i]].u]
  BY <1>4
<1>6. Speech!New(b) = {i \in 1..s9.items : s8[i].kind \in Speech!Segments /\ s8[i].u \notin Speech!Range(s11)}
  BY <1>2 DEF Speech!New
<1>7. n \in Nat /\ f \in [1..n -> 1..s9.items]  BY <1>1, <1>2, <1>5, <1>6
<1>8. \A i \in 1..n : f[i] \in Speech!New(b) /\ b[f[i]] = s8[f[i]]  BY <1>5, <1>7, <1>2
<1>9. [i \in 1..n |-> b[f[i]].u] = [i \in 1..n |-> s8[f[i]].u]  BY <1>8
<1>10. \A i \in 1..s9.items : s8[i].kind \in Speech!Segments =>
         s8[i].u \in Speech!Range(s11) \/ \E m \in 1..n : f[m] = i
  BY <1>5, <1>6, <1>7 DEF Speech!Range
<1> QED  BY <1>5, <1>6, <1>7, <1>8, <1>9, <1>10

\* The types are kept.
LEMMA SpeechTyped ==
  ASSUME Speech!TypeOK, Speech!SegmentsHold, [Speech!Next]_(Speech!vars)
  PROVE  Speech!TypeOK'
<1> USE DEF Speech!TypeOK
<1>n. N \in Nat /\ Outages \in Nat /\ Losses \in Nat  BY BackgroundAssumption
<1>0. CASE UNCHANGED Speech!vars
  BY <1>0 DEF Speech!vars
<1>a. Speech!Phase = {"silent", "asking", "waiting", "worker", "refining", "done"}  BY DEF Speech!Phase
<1>b. \A u \in Speech!Utterances, p \in Speech!Phase : [s1 EXCEPT ![u] = p] \in [Speech!Utterances -> Speech!Phase]
  OBVIOUS
<1>c. s8 \in Seq(Speech!Item) /\ s9.items \in 0..Len(s8) /\ Len(s8) \in Nat  OBVIOUS
<1>d. s8' \in Seq(Speech!Item) /\ Len(s8') >= Len(s8) => s8' \in Seq(Speech!Item) /\ s9 \in [items : 0..Len(s8'), arrived : BOOLEAN]
  BY <1>c
<1>e. \A u \in Speech!Utterances, kind \in Speech!Kinds :
        Speech!Put(kind, u) => s8' \in Seq(Speech!Item) /\ s9 \in [items : 0..Len(s8'), arrived : BOOLEAN]
  BY <1>c, <1>d, SpeechPut, SpeechItems DEF Speech!Put
<1> DEFINE Left == [outages : 0..Outages, losses : 0..Losses]
           Final == [at : {"off", "drain", "pass", "ended"}, todo : SUBSET Speech!Utterances, ok : BOOLEAN, cut : BOOLEAN]
<1>f. /\ s14.outages > 0 => [s14 EXCEPT !.outages = s14.outages - 1] \in Left
      /\ s14.losses > 0 => [s14 EXCEPT !.losses = s14.losses - 1] \in Left
  <2>1. s14 \in Left  OBVIOUS
  <2> HIDE DEF Speech!TypeOK
  <2> QED  BY <2>1, <1>n
<1>g. \A u \in Speech!Utterances : Speech!ToDecoder(u) =>
        /\ s1' \in [Speech!Utterances -> Speech!Phase] /\ s6' \in Seq(Speech!Utterances)
        /\ s4' \in [asked : SUBSET Speech!Utterances, decoded : SUBSET Speech!Utterances]
  <2> SUFFICES ASSUME NEW u \in Speech!Utterances, Speech!ToDecoder(u)
               PROVE  /\ s1' \in [Speech!Utterances -> Speech!Phase] /\ s6' \in Seq(Speech!Utterances)
                      /\ s4' \in [asked : SUBSET Speech!Utterances, decoded : SUBSET Speech!Utterances]
    OBVIOUS
  <2>1. s1' \in [Speech!Utterances -> Speech!Phase]  BY <1>a, <1>b DEF Speech!ToDecoder, Speech!Enter
  <2>2. s6' \in Seq(Speech!Utterances)  BY DEF Speech!ToDecoder
  <2>3. s4' \in [asked : SUBSET Speech!Utterances, decoded : SUBSET Speech!Utterances]  BY DEF Speech!ToDecoder
  <2> QED  BY <2>1, <2>2, <2>3
<1>1. ASSUME NEW u \in Speech!Utterances, Speech!Speak(u)  PROVE Speech!TypeOK'
  <2>1. CASE Speech!ToDecoder(u) /\ UNCHANGED <<s2, s3>>
    BY <2>1, <1>1, <1>g DEF Speech!Speak, Speech!server
  <2>2. CASE /\ Speech!Enter(u, "asking") /\ s2' = [s2 EXCEPT ![u] = s3] /\ s3' = u
             /\ s4' = [s4 EXCEPT !.asked = s4.asked \cup {u}] /\ UNCHANGED s6
    <3>1. s1' \in [Speech!Utterances -> Speech!Phase]  BY <2>2, <1>a, <1>b DEF Speech!Enter
    <3>2. s2' \in [Speech!Utterances -> 0..N] /\ s3' \in 0..N  BY <2>2, <1>n DEF Speech!Utterances
    <3>3. s4' \in [asked : SUBSET Speech!Utterances, decoded : SUBSET Speech!Utterances]  BY <2>2
    <3> QED  BY <3>1, <3>2, <3>3, <2>2, <1>1 DEF Speech!Speak, Speech!server
  <2> QED  BY <1>1, <2>1, <2>2 DEF Speech!Speak
<1>2. ASSUME NEW u \in Speech!Utterances, Speech!Answer(u)  PROVE Speech!TypeOK'
  BY <1>2, <1>a, <1>b DEF Speech!Answer, Speech!Enter, Speech!server
<1>3. ASSUME NEW u \in Speech!Utterances, Speech!Fallback(u)  PROVE Speech!TypeOK'
  <2>1. s10' \in [at : {"off", "drain", "pass", "ended"}, todo : SUBSET Speech!Utterances, ok : BOOLEAN, cut : BOOLEAN]
    BY <1>3 DEF Speech!Fallback
  <2>2. s7' \subseteq Speech!Utterances /\ s5' \subseteq Speech!Utterances  BY <1>3 DEF Speech!Fallback
  <2> QED  BY <1>3, <2>1, <2>2, <1>g DEF Speech!Fallback, Speech!server
<1>4. ASSUME NEW u \in Speech!Utterances, Speech!PostAnswer(u)  PROVE Speech!TypeOK'
  BY <1>4, <1>a, <1>b, <1>e, SpeechItems DEF Speech!PostAnswer, Speech!Enter, Speech!server
<1>5. ASSUME NEW u \in Speech!Utterances, Speech!Decode(u)  PROVE Speech!TypeOK'
  <2>1. s10' \in Final
    <3>1. s10' = s10 \/ s10' = [s10 EXCEPT !.ok = FALSE]  BY <1>5 DEF Speech!Decode
    <3> QED  BY <3>1
  <2>2. s6' \in Seq(Speech!Utterances)  BY <1>5 DEF Speech!Decode, Speech!Decoded
  <2>3. s8' \in Seq(Speech!Item) /\ s9 \in [items : 0..Len(s8'), arrived : BOOLEAN]
    BY <1>5, <1>e, SpeechItems DEF Speech!Decode
  <2>4. s1' \in [Speech!Utterances -> Speech!Phase] /\ s7' \subseteq Speech!Utterances
    <3>1. \E p \in {"done", "refining"} : Speech!Enter(u, p)  BY <1>5 DEF Speech!Decode
    <3>2. s7' = s7 \/ s7' = s7 \cup {u}  BY <1>5 DEF Speech!Decode
    <3> QED  BY <3>1, <3>2, <1>a, <1>b DEF Speech!Enter
  <2> QED  BY <1>5, <2>1, <2>2, <2>3, <2>4 DEF Speech!Decode, Speech!server
<1>6. ASSUME NEW u \in Speech!Utterances, Speech!Drop(u)  PROVE Speech!TypeOK'
  <2>1. s6' \in Seq(Speech!Utterances)  BY <1>6 DEF Speech!Drop, Speech!Decoded
  <2> QED  BY <1>6, <2>1, <1>a, <1>b, <1>e, SpeechItems DEF Speech!Drop, Speech!Enter, Speech!server
<1>7. ASSUME NEW u \in Speech!Utterances, Speech!Refine(u)  PROVE Speech!TypeOK'
  BY <1>7, <1>a, <1>b, <1>e, SpeechItems DEF Speech!Refine, Speech!Enter, Speech!server
<1>8. ASSUME NEW u \in Speech!Utterances, Speech!PassOver(u)  PROVE Speech!TypeOK'
  <2>1. s8' = s8 \/ Speech!Put("final", u)  BY <1>8 DEF Speech!PassOver
  <2>2. s8' \in Seq(Speech!Item) /\ s9 \in [items : 0..Len(s8'), arrived : BOOLEAN]  BY <2>1, <1>e, SpeechItems
  <2>3. s10' \in Final
    <3>1. CASE s10' = [s10 EXCEPT !.todo = s10.todo \ {u}]  BY <3>1
    <3>2. ASSUME NEW ok \in BOOLEAN, s10' = [s10 EXCEPT !.todo = s10.todo \ {u}, !.ok = ok]  PROVE s10' \in Final
      BY <3>2
    <3> QED  BY <1>8, <3>1, <3>2 DEF Speech!PassOver
  <2> QED  BY <1>8, <2>2, <2>3 DEF Speech!PassOver, Speech!agent, Speech!server
<1>9. CASE Speech!Finalize \/ Speech!StartPass
  <2>1. s10' \in Final
    <3>1. CASE s10' = [s10 EXCEPT !.at = "drain"]  BY <3>1
    <3>2. ASSUME NEW cut \in BOOLEAN, s10' = [s10 EXCEPT !.at = "pass", !.todo = s7, !.cut = cut]  PROVE s10' \in Final
      BY <3>2
    <3> QED  BY <1>9, <3>1, <3>2 DEF Speech!Finalize, Speech!StartPass
  <2>2. UNCHANGED <<Speech!agent, s8, s9, Speech!server, s14>>  BY <1>9 DEF Speech!Finalize, Speech!StartPass
  <2> QED  BY <2>1, <2>2 DEF Speech!agent, Speech!server
<1>10. CASE Speech!Verdict
  <2>1. s8' \in Seq(Speech!Item) /\ s9 \in [items : 0..Len(s8'), arrived : BOOLEAN]
    <3>1. \E k \in 0..N : s8' = Append(s8, [kind |-> "status", u |-> k])
      BY <1>10, SpeechItems DEF Speech!Verdict, Speech!Put
    <3> QED  BY <3>1, <1>c, <1>d, SpeechPut, SpeechItems
  <2>2. s10' \in Final
    <3>1. \E ok \in BOOLEAN : s10' = [s10 EXCEPT !.at = "ended", !.todo = {}, !.ok = ok]
      BY <1>10 DEF Speech!Verdict
    <3> QED  BY <3>1
  <2> QED  BY <1>10, <2>1, <2>2 DEF Speech!Verdict, Speech!agent, Speech!server
<1>11. CASE Speech!Send
  BY <1>11, <1>c DEF Speech!Send, Speech!agent, Speech!server
<1>12. CASE Speech!Arrive
  <2>1. PICK n \in Nat : \E f \in [1..n -> 1..s9.items] :
          (\A i \in 1..n : s8[f[i]].kind \in Speech!Segments) /\ s11' = s11 \o [i \in 1..n |-> s8[f[i]].u]
    <3> HIDE DEF Speech!TypeOK
    <3> QED  BY <1>12, SpeechIngested
  <2>2. PICK f \in [1..n -> 1..s9.items] :
          (\A i \in 1..n : s8[f[i]].kind \in Speech!Segments) /\ s11' = s11 \o [i \in 1..n |-> s8[f[i]].u]
    BY <2>1
  <2>3. ASSUME NEW i \in 1..n  PROVE s8[f[i]].u \in Speech!Utterances
    <3>1. f[i] \in 1..Len(s8)  BY <1>c, <2>2
    <3> QED  BY <2>2, <3>1 DEF Speech!SegmentsHold, Speech!Segment, Speech!Posted
  <2>4. [i \in 1..n |-> s8[f[i]].u] \in Seq(Speech!Utterances)  BY <2>1, <2>3
  <2>5. s11' \in Seq(Speech!Utterances)
    <3> DEFINE g == [i \in 1..n |-> s8[f[i]].u]
    <3>1. s11 \in Seq(Speech!Utterances) /\ s11' = s11 \o g  BY <2>2
    <3> HIDE DEF g, Speech!TypeOK
    <3> QED  BY <3>1, <2>4 DEF g
  <2>6. s12' \in [Speech!Utterances -> {"none", "tier1", "tier2", "final"}]
    BY <1>12 DEF Speech!Arrive, Speech!TextAfter
  <2>7. s13' \in BOOLEAN  BY <1>12 DEF Speech!Arrive
  <2> QED  BY <1>12, <2>5, <2>6, <2>7 DEF Speech!Arrive, Speech!agent
<1>13. ASSUME NEW n \in 0..Len(s8), Speech!Unqueue(n), s9' = Speech!NoFlight, UNCHANGED <<Speech!agent, s10, Speech!server>>,
              s14' \in [outages : 0..Outages, losses : 0..Losses]
      PROVE  Speech!TypeOK'
  BY <1>13, <1>c, SpeechUnqueue DEF Speech!Unqueue, Speech!NoFlight, Speech!agent, Speech!server
<1>14. CASE Speech!Acknowledge
  BY <1>14, <1>13, <1>c DEF Speech!Acknowledge
<1>15. CASE Speech!Refused \/ Speech!Expire
  <2>1. s14' \in [outages : 0..Outages, losses : 0..Losses]
    BY <1>15, <1>f DEF Speech!Refused, Speech!Expire, Speech!GiveUp
  <2>2. PICK n \in 0..Len(s8) : Speech!Unqueue(n)
    <3>1. s8 # <<>> => 1 \in 0..Len(s8)  BY <1>c
    <3>2. Speech!Refused => Speech!Unqueue(s9.items)  BY DEF Speech!Refused, Speech!GiveUp
    <3>3. Speech!Expire => s8 # <<>> /\ Speech!Unqueue(1)  BY DEF Speech!Expire, Speech!GiveUp
    <3> QED  BY <1>15, <1>c, <3>1, <3>2, <3>3
  <2>3. s9' = Speech!NoFlight /\ UNCHANGED <<Speech!agent, s10, Speech!server>>
    BY <1>15 DEF Speech!Refused, Speech!Expire
  <2> QED  BY <1>13, <2>1, <2>2, <2>3
<1>16. CASE Speech!Retry
  <2>1. s14' \in Left  BY <1>16, <1>f DEF Speech!Retry
  <2>2. s9' \in [items : 0..Len(s8), arrived : BOOLEAN]  BY <1>16, <1>c DEF Speech!Retry, Speech!NoFlight
  <2> QED  BY <1>16, <2>1, <2>2 DEF Speech!Retry, Speech!agent, Speech!server
<1> QED
  BY <1>0, <1>1, <1>2, <1>3, <1>4, <1>5, <1>6, <1>7, <1>8, <1>9, <1>10, <1>11, <1>12, <1>14, <1>15, <1>16
  DEF Speech!Next, Speech!Progress

\* Which way the utterances go: one more waits for the decoder ...
LEMMA SpeechQueued ==
  ASSUME NEW w \in Seq(Speech!Utterances), NEW u \in Speech!Utterances
  PROVE  /\ Append(w, u) \in Seq(Speech!Utterances) /\ Len(Append(w, u)) = Len(w) + 1 /\ Len(w) \in Nat
         /\ \A i \in 1..(Len(w) + 1) : Append(w, u)[i] = IF i <= Len(w) THEN w[i] ELSE u
         /\ Speech!Range(Append(w, u)) = Speech!Range(w) \cup {u}
<1>1. /\ Append(w, u) \in Seq(Speech!Utterances) /\ Len(Append(w, u)) = Len(w) + 1 /\ Len(w) \in Nat
      /\ DOMAIN Append(w, u) = 1..(Len(w) + 1) /\ DOMAIN w = 1..Len(w)
      /\ \A i \in 1..(Len(w) + 1) : Append(w, u)[i] = IF i <= Len(w) THEN w[i] ELSE u
  OBVIOUS
<1> QED  BY <1>1 DEF Speech!Range

\* ... and the first in its queue has been decoded.
LEMMA SpeechDequeued ==
  ASSUME NEW w \in Seq(Speech!Utterances), w # <<>>,
         \A i, j \in 1..Len(w) : i < j => w[i] # w[j]
  PROVE  /\ Tail(w) \in Seq(Speech!Utterances) /\ Len(Tail(w)) = Len(w) - 1 /\ Len(w) \in Nat \ {0}
         /\ \A i \in 1..(Len(w) - 1) : Tail(w)[i] = w[i + 1]
         /\ Head(w) = w[1]
         /\ Speech!Range(Tail(w)) = Speech!Range(w) \ {Head(w)} /\ Head(w) \in Speech!Range(w)
<1>1. /\ Tail(w) \in Seq(Speech!Utterances) /\ Len(Tail(w)) = Len(w) - 1 /\ Len(w) \in Nat \ {0}
      /\ \A i \in 1..(Len(w) - 1) : Tail(w)[i] = w[i + 1]
      /\ Head(w) = w[1] /\ DOMAIN w = 1..Len(w) /\ DOMAIN Tail(w) = 1..(Len(w) - 1)
  OBVIOUS
<1>2. Speech!Range(Tail(w)) \subseteq Speech!Range(w) \ {Head(w)}
  BY <1>1 DEF Speech!Range
<1>3. ASSUME NEW i \in 1..Len(w), w[i] # Head(w)  PROVE w[i] \in Speech!Range(Tail(w))
  <2>1. i # 1 /\ i - 1 \in 1..(Len(w) - 1) /\ Tail(w)[i - 1] = w[i]  BY <1>1, <1>3
  <2> QED  BY <2>1, <1>1 DEF Speech!Range
<1>4. Head(w) \in Speech!Range(w)  BY <1>1 DEF Speech!Range
<1> QED  BY <1>1, <1>2, <1>3, <1>4 DEF Speech!Range

\* One more goes to the decoder.
LEMMA SpeechQueuedInOrder ==
  ASSUME Speech!TypeOK, Speech!RoutesHold, NEW u \in Speech!Utterances, u \notin Speech!Range(s6),
         (\A v \in Speech!Range(s6) : v < u) \/ u \in s4.asked
  PROVE  \A i, j \in 1..Len(Append(s6, u)) : i < j =>
           /\ Append(s6, u)[i] # Append(s6, u)[j]
           /\ Append(s6, u)[i] < Append(s6, u)[j] \/ Append(s6, u)[j] \in s4.asked
<1>1. s6 \in Seq(Speech!Utterances) /\ DOMAIN s6 = 1..Len(s6) /\ Len(s6) \in Nat  BY DEF Speech!TypeOK
<1>2. PICK w : w = Append(s6, u)  OBVIOUS
<1>3. Len(w) = Len(s6) + 1 /\ \A i \in 1..(Len(s6) + 1) : w[i] = IF i <= Len(s6) THEN s6[i] ELSE u
  BY <1>1, <1>2, SpeechQueued
<1>4. \A i \in 1..Len(s6) : s6[i] \in Speech!Range(s6)  BY <1>1 DEF Speech!Range
<1>5. ASSUME NEW i \in 1..Len(w), NEW j \in 1..Len(w), i < j
      PROVE  w[i] # w[j] /\ (w[i] < w[j] \/ w[j] \in s4.asked)
  <2>1. CASE j <= Len(s6)
    <3>1. i \in 1..Len(s6) /\ j \in 1..Len(s6) /\ w[i] = s6[i] /\ w[j] = s6[j]  BY <2>1, <1>5, <1>3, <1>1
    <3> QED  BY <3>1, <1>5 DEF Speech!RoutesHold
  <2>2. CASE j > Len(s6)
    <3>1. i \in 1..Len(s6) /\ w[i] = s6[i] /\ w[j] = u  BY <2>2, <1>5, <1>3, <1>1
    <3> QED  BY <3>1, <1>4
  <2> QED  BY <2>1, <2>2, <1>1, <1>3
<1> QED  BY <1>2, <1>5

\* The routes, and the order in the decoder's queue, are kept.
LEMMA RoutesStep ==
  ASSUME Speech!TypeOK, Speech!RoutesHold, [Speech!Next]_(Speech!vars)
  PROVE  Speech!RoutesHold'
<1> USE DEF Speech!Utterances
<1>t. /\ s1 \in [1..N -> Speech!Phase] /\ s2 \in [1..N -> 0..N] /\ s3 \in 0..N /\ N \in Nat
      /\ s4 \in [asked : SUBSET (1..N), decoded : SUBSET (1..N)] /\ s6 \in Seq(1..N)
  BY BackgroundAssumption DEF Speech!TypeOK
<1>0. CASE UNCHANGED <<s1, s2, s3, s4, s6>>
  BY <1>0 DEF Speech!RoutesHold
<1>1. \A u \in 1..N : u \in Speech!Range(s6) <=> s1[u] = "worker"  BY DEF Speech!RoutesHold
<1>2. ASSUME NEW u \in 1..N, s1[u] = "silent", \A v \in 1..(u - 1) : s1[v] # "silent"
      PROVE  \A v \in 1..N : s1[v] # "silent" <=> v < u
  BY <1>t, <1>2 DEF Speech!RoutesHold
<1>3. ASSUME NEW u \in 1..N, s1[u] = "silent" \/ s1[u] = "asking",
             s1[u] = "silent" => \A v \in 1..N : s1[v] # "silent" <=> v < u,
             Speech!ToDecoder(u), UNCHANGED <<s2, s3>>
      PROVE  Speech!RoutesHold'
  <2>1. /\ s1' = [s1 EXCEPT ![u] = "worker"] /\ s6' = Append(s6, u)
        /\ s4' = [s4 EXCEPT !.decoded = s4.decoded \cup {u}]
    BY <1>3 DEF Speech!ToDecoder, Speech!Enter
  <2>2. s4'.asked = s4.asked /\ s4'.decoded = s4.decoded \cup {u}  BY <2>1, <1>t
  <2>3. \A v \in 1..N : s1'[v] = IF v = u THEN "worker" ELSE s1[v]  BY <2>1, <1>t
  <2>4. u \notin Speech!Range(s6) /\ ((\A v \in Speech!Range(s6) : v < u) \/ u \in s4.asked)
    <3>1. u \notin Speech!Range(s6)  BY <1>1, <1>3
    <3>2. CASE s1[u] = "silent"
      <4>1. \A v \in Speech!Range(s6) : v \in s4.decoded /\ v \in 1..N  BY <1>t DEF Speech!RoutesHold
      <4>2. \A v \in Speech!Range(s6) : s1[v] # "silent"  BY <4>1 DEF Speech!RoutesHold
      <4> QED  BY <3>1, <3>2, <1>3, <4>1, <4>2
    <3>3. CASE s1[u] = "asking"
      BY <3>1, <3>3 DEF Speech!RoutesHold
    <3> QED  BY <3>2, <3>3, <1>3
  <2>5. Speech!Range(s6') = Speech!Range(s6) \cup {u}  BY <1>t, <2>1, SpeechQueued
  <2>6. \A i, j \in 1..Len(s6') : i < j => s6'[i] # s6'[j] /\ (s6'[i] < s6'[j] \/ s6'[j] \in s4'.asked)
    BY <2>1, <2>2, <2>4, SpeechQueuedInOrder
  <2>7. ASSUME NEW v \in 1..N
        PROVE  /\ s1'[v] # "silent" <=> v \in s4'.asked \cup s4'.decoded
               /\ s1'[v] \in {"asking", "waiting"} => v \notin s4'.decoded
               /\ s1'[v] = "worker" <=> v \in Speech!Range(s6')
    BY <2>2, <2>3, <2>5, <1>1 DEF Speech!RoutesHold
  <2>8. ASSUME NEW v \in 1..N, NEW x \in 1..(v - 1), s1'[x] = "silent"  PROVE s1'[v] = "silent"
    <3>1. x \in 1..N /\ x # u /\ s1[x] = "silent"  BY <2>8, <2>3, <1>t
    <3>2. s1[v] = "silent"  BY <3>1 DEF Speech!RoutesHold
    <3>3. v # u
      <4> SUFFICES ASSUME v = u  PROVE FALSE
        OBVIOUS
      <4>1. s1[u] = "silent"  BY <3>2
      <4> QED  BY <4>1, <1>3, <3>1, <1>t
    <3> QED  BY <3>2, <3>3, <2>3
  <2>9. ASSUME NEW v \in 1..N, v \in s4'.asked
        PROVE  /\ v <= s3' /\ s2'[v] < v /\ s2'[v] \in {0} \cup s4'.asked
               /\ \A x \in (s2'[v] + 1)..(v - 1) : x \notin s4'.asked
    BY <2>9, <2>2, <1>3 DEF Speech!RoutesHold
  <2>10. s3' \in {0} \cup s4'.asked /\ Speech!Range(s6') \subseteq s4'.decoded
    BY <2>2, <2>5, <1>3 DEF Speech!RoutesHold
  <2> QED  BY <2>6, <2>7, <2>8, <2>9, <2>10 DEF Speech!RoutesHold
<1>4. ASSUME NEW u \in 1..N, Speech!Speak(u)  PROVE Speech!RoutesHold'
  <2>1. s1[u] = "silent" /\ \A v \in 1..N : s1[v] # "silent" <=> v < u  BY <1>2, <1>4 DEF Speech!Speak
  <2>2. \A v \in 1..N : v \in s4.asked \cup s4.decoded <=> v < u  BY <2>1 DEF Speech!RoutesHold
  <2>4. s3 < u /\ \A v \in s4.asked : v <= s3 /\ v \in 1..N  BY <1>t, <2>2 DEF Speech!RoutesHold
  <2>5. CASE Speech!ToDecoder(u) /\ UNCHANGED <<s2, s3>>
    BY <2>5, <2>1, <1>3
  <2>6. CASE /\ Speech!Enter(u, "asking") /\ s2' = [s2 EXCEPT ![u] = s3] /\ s3' = u
             /\ s4' = [s4 EXCEPT !.asked = s4.asked \cup {u}] /\ UNCHANGED s6
    <3>1. s4'.decoded = s4.decoded /\ s4'.asked = s4.asked \cup {u}  BY <2>6, <1>t
    <3>2. \A v \in 1..N : s1'[v] = IF v = u THEN "asking" ELSE s1[v]  BY <2>6, <1>t DEF Speech!Enter
    <3>3. \A v \in 1..N : s2'[v] = IF v = u THEN s3 ELSE s2[v]  BY <2>6, <1>t
    <3>4. ASSUME NEW v \in 1..N
          PROVE  /\ s1'[v] # "silent" <=> v \in s4'.asked \cup s4'.decoded
                 /\ s1'[v] \in {"asking", "waiting"} => v \notin s4'.decoded
                 /\ s1'[v] = "worker" <=> v \in Speech!Range(s6')
      BY <3>1, <3>2, <2>1, <2>2, <2>6, <1>1 DEF Speech!RoutesHold
    <3>5. ASSUME NEW v \in 1..N, NEW x \in 1..(v - 1), s1'[x] = "silent"  PROVE s1'[v] = "silent"
      <4>1. x \in 1..N /\ x # u /\ s1[x] = "silent"  BY <3>5, <3>2, <1>t
      <4>2. ~(x < u) /\ ~(v < u) /\ v # u  BY <4>1, <2>1
      <4> QED  BY <4>2, <2>1, <3>2
    <3>6. ASSUME NEW v \in 1..N, v \in s4'.asked
          PROVE  /\ v <= s3' /\ s2'[v] < v /\ s2'[v] \in {0} \cup s4'.asked
                 /\ \A x \in (s2'[v] + 1)..(v - 1) : x \notin s4'.asked
      <4>1. CASE v = u
        <5>1. s2'[v] = s3 /\ s3' = u  BY <4>1, <3>3, <2>6
        <5>2. s3 \in {0} \cup s4.asked  BY DEF Speech!RoutesHold
        <5>3. \A x \in (s3 + 1)..(u - 1) : x \notin s4.asked /\ x # u  BY <2>4, <1>t
        <5> QED  BY <5>1, <5>2, <5>3, <4>1, <2>4, <3>1
      <4>2. CASE v # u
        <5>1. s2'[v] = s2[v] /\ s3' = u /\ v \in s4.asked /\ v <= s3 /\ s3 < u /\ v < u
          BY <4>2, <3>3, <2>6, <3>1, <3>6, <2>4, <1>t
        <5>2. /\ s2[v] < v /\ s2[v] \in {0} \cup s4.asked
              /\ \A x \in (s2[v] + 1)..(v - 1) : x \notin s4.asked
          BY <5>1 DEF Speech!RoutesHold
        <5>3. \A x \in (s2[v] + 1)..(v - 1) : x # u  BY <5>1, <1>t
        <5> QED  BY <5>1, <5>2, <5>3, <3>1
      <4> QED  BY <4>1, <4>2
    <3>7. s3' \in {0} \cup s4'.asked /\ Speech!Range(s6') \subseteq s4'.decoded
      BY <3>1, <2>6 DEF Speech!RoutesHold
    <3>8. \A i, j \in 1..Len(s6') : i < j => s6'[i] # s6'[j] /\ (s6'[i] < s6'[j] \/ s6'[j] \in s4'.asked)
      BY <3>1, <2>6 DEF Speech!RoutesHold
    <3> QED  BY <3>4, <3>5, <3>6, <3>7, <3>8 DEF Speech!RoutesHold
  <2> QED  BY <1>4, <2>5, <2>6 DEF Speech!Speak
<1>5. ASSUME NEW u \in 1..N, NEW p \in Speech!Phase, Speech!Enter(u, p), UNCHANGED <<s2, s3, s4, s6>>,
             s1[u] \notin {"silent", "worker"}, p \notin {"silent", "worker", "asking"},
             p = "waiting" => s1[u] = "asking"
      PROVE  Speech!RoutesHold'
  <2>1. \A v \in 1..N : s1'[v] = IF v = u THEN p ELSE s1[v]  BY <1>5, <1>t DEF Speech!Enter
  <2>2. ASSUME NEW v \in 1..N
        PROVE  /\ s1'[v] # "silent" <=> v \in s4'.asked \cup s4'.decoded
               /\ s1'[v] \in {"asking", "waiting"} => v \notin s4'.decoded
               /\ s1'[v] = "worker" <=> v \in Speech!Range(s6')
    BY <2>1, <1>1, <1>5 DEF Speech!RoutesHold
  <2>3. ASSUME NEW v \in 1..N, NEW x \in 1..(v - 1), s1'[x] = "silent"  PROVE s1'[v] = "silent"
    <3>1. x \in 1..N /\ s1[x] = "silent"  BY <2>3, <2>1, <1>5, <1>t
    <3>2. s1[v] = "silent"  BY <3>1 DEF Speech!RoutesHold
    <3> QED  BY <3>2, <2>1, <1>5
  <2> QED  BY <2>2, <2>3, <1>5 DEF Speech!RoutesHold
<1>6. ASSUME NEW u \in 1..N, Speech!Decoded(u), NEW p \in {"done", "refining"}, Speech!Enter(u, p), UNCHANGED <<s2, s3, s4>>
      PROVE  Speech!RoutesHold'
  <2>1. s6 # <<>> /\ Head(s6) = u /\ s6' = Tail(s6)  BY <1>6 DEF Speech!Decoded
  <2>2. \A i, j \in 1..Len(s6) : i < j => s6[i] # s6[j]  BY DEF Speech!RoutesHold
  <2>3. /\ Len(s6') = Len(s6) - 1 /\ Len(s6) \in Nat \ {0} /\ \A i \in 1..(Len(s6) - 1) : s6'[i] = s6[i + 1]
        /\ Speech!Range(s6') = Speech!Range(s6) \ {u} /\ u \in Speech!Range(s6)
    BY <1>t, <2>1, <2>2, SpeechDequeued
  <2>4. \A v \in 1..N : s1'[v] = IF v = u THEN p ELSE s1[v]  BY <1>6, <1>t DEF Speech!Enter
  <2>5. s1[u] = "worker"  BY <1>1, <2>3
  <2>6. ASSUME NEW v \in 1..N
        PROVE  /\ s1'[v] # "silent" <=> v \in s4'.asked \cup s4'.decoded
               /\ s1'[v] \in {"asking", "waiting"} => v \notin s4'.decoded
               /\ s1'[v] = "worker" <=> v \in Speech!Range(s6')
    BY <2>3, <2>4, <2>5, <1>1, <1>6 DEF Speech!RoutesHold
  <2>7. ASSUME NEW v \in 1..N, NEW x \in 1..(v - 1), s1'[x] = "silent"  PROVE s1'[v] = "silent"
    <3>1. x \in 1..N /\ s1[x] = "silent"  BY <2>7, <2>4, <1>6, <1>t
    <3>2. s1[v] = "silent"  BY <3>1 DEF Speech!RoutesHold
    <3> QED  BY <3>2, <2>4, <2>5
  <2>8. ASSUME NEW i \in 1..Len(s6'), NEW j \in 1..Len(s6'), i < j
        PROVE  s6'[i] # s6'[j] /\ (s6'[i] < s6'[j] \/ s6'[j] \in s4'.asked)
    <3>1. i + 1 \in 1..Len(s6) /\ j + 1 \in 1..Len(s6) /\ i + 1 < j + 1 /\ s6'[i] = s6[i + 1] /\ s6'[j] = s6[j + 1]
      BY <2>3, <2>8
    <3> QED  BY <3>1, <1>6 DEF Speech!RoutesHold
  <2>9. Speech!Range(s6') \subseteq s4'.decoded  BY <2>3, <1>6 DEF Speech!RoutesHold
  <2> QED  BY <2>6, <2>7, <2>8, <2>9, <1>6 DEF Speech!RoutesHold
<1>7. ASSUME NEW u \in 1..N, Speech!Progress(u)  PROVE Speech!RoutesHold'
  <2>1. CASE Speech!Answer(u) \/ Speech!PostAnswer(u) \/ Speech!Refine(u)
    <3>1. /\ "waiting" \in Speech!Phase /\ "done" \in Speech!Phase  BY DEF Speech!Phase
    <3> QED  BY <2>1, <3>1, <1>5 DEF Speech!Answer, Speech!PostAnswer, Speech!Refine
  <2>2. CASE Speech!Fallback(u)
    BY <2>2, <1>3 DEF Speech!Fallback
  <2>3. CASE Speech!Decode(u) \/ Speech!Drop(u)
    <3>1. Speech!Decoded(u) /\ (\E p \in {"done", "refining"} : Speech!Enter(u, p)) /\ UNCHANGED <<s2, s3, s4>>
      BY <2>3 DEF Speech!Decode, Speech!Drop
    <3> QED  BY <3>1, <1>6
  <2> QED  BY <1>7, <2>1, <2>2, <2>3 DEF Speech!Progress
<1>8. ASSUME Speech!Finalize \/ Speech!StartPass \/ Speech!Verdict \/ Speech!Send \/ Speech!Arrive \/ Speech!Acknowledge
               \/ Speech!Retry \/ Speech!Refused \/ Speech!Expire \/ \E u \in 1..N : Speech!PassOver(u)
      PROVE  Speech!RoutesHold'
  BY <1>8, <1>0 DEF Speech!Finalize, Speech!StartPass, Speech!Verdict, Speech!Send, Speech!Arrive, Speech!Acknowledge,
    Speech!Retry, Speech!Refused, Speech!Expire, Speech!PassOver, Speech!agent
<1>9. CASE UNCHANGED Speech!vars
  BY <1>9, <1>0 DEF Speech!vars
<1> QED  BY <1>4, <1>7, <1>8, <1>9 DEF Speech!Next

\* Who has had its turn has had it, and who went which way went it; one at a
\* time has its turn.
SpeechGrown ==
  /\ Speech!Posted \subseteq Speech!Posted'
  /\ s4.asked \subseteq s4'.asked /\ s4.decoded \subseteq s4'.decoded
  /\ \A x \in Speech!Posted' \ Speech!Posted :
       /\ Speech!Posted' = Speech!Posted \cup {x}
       /\ Speech!PostAnswer(x) \/ Speech!Decode(x) \/ Speech!Drop(x)

\* So it is in every step.
LEMMA SpeechGrows ==
  ASSUME Speech!TypeOK, Speech!RoutesHold, [Speech!Next]_(Speech!vars)
  PROVE  SpeechGrown
<1>t. /\ s1 \in [Speech!Utterances -> Speech!Phase]
      /\ s4 \in [asked : SUBSET Speech!Utterances, decoded : SUBSET Speech!Utterances]
  BY DEF Speech!TypeOK
<1>0. CASE UNCHANGED <<s1, s4>>
  BY <1>0 DEF Speech!Posted, SpeechGrown
<1>1. ASSUME NEW u \in Speech!Utterances, NEW p \in Speech!Phase, Speech!Enter(u, p)
      PROVE  Speech!Posted' = IF p \in {"refining", "done"} THEN Speech!Posted \cup {u} ELSE Speech!Posted \ {u}
  <2>1. \A v \in Speech!Utterances : s1'[v] = IF v = u THEN p ELSE s1[v]  BY <1>1, <1>t DEF Speech!Enter
  <2> QED  BY <2>1 DEF Speech!Posted
<1>2. {"asking", "waiting", "worker", "refining", "done"} \subseteq Speech!Phase  BY DEF Speech!Phase
<1>3. ASSUME NEW u \in Speech!Utterances, s1[u] \notin {"refining", "done"}, NEW p \in {"asking", "waiting", "worker"},
             Speech!Enter(u, p)
      PROVE  Speech!Posted' = Speech!Posted
  <2>1. u \notin Speech!Posted  BY <1>3 DEF Speech!Posted
  <2> QED  BY <2>1, <1>1, <1>2, <1>3
<1>4. ASSUME NEW u \in Speech!Utterances, Speech!ToDecoder(u)
      PROVE  Speech!Enter(u, "worker") /\ s4'.asked = s4.asked /\ s4.decoded \subseteq s4'.decoded
  BY <1>4, <1>t DEF Speech!ToDecoder
<1>5. ASSUME NEW u \in Speech!Utterances, Speech!Speak(u)  PROVE SpeechGrown
  <2>1. (\E p \in {"asking", "worker"} : Speech!Enter(u, p)) /\ s1[u] = "silent"  BY <1>4, <1>5 DEF Speech!Speak
  <2>2. s4.asked \subseteq s4'.asked /\ s4.decoded \subseteq s4'.decoded  BY <1>4, <1>5, <1>t DEF Speech!Speak
  <2> QED  BY <2>1, <2>2, <1>3 DEF SpeechGrown
<1>6. ASSUME NEW u \in Speech!Utterances, Speech!Answer(u) \/ Speech!Fallback(u)  PROVE SpeechGrown
  <2>1. (\E p \in {"waiting", "worker"} : Speech!Enter(u, p)) /\ s1[u] = "asking"
    BY <1>4, <1>6 DEF Speech!Answer, Speech!Fallback
  <2>2. s4.asked \subseteq s4'.asked /\ s4.decoded \subseteq s4'.decoded
    BY <1>4, <1>6 DEF Speech!Answer, Speech!Fallback
  <2> QED  BY <2>1, <2>2, <1>3 DEF SpeechGrown
<1>7. ASSUME NEW u \in Speech!Utterances, Speech!PostAnswer(u) \/ Speech!Decode(u) \/ Speech!Drop(u)  PROVE SpeechGrown
  <2>1. (\E p \in {"refining", "done"} : Speech!Enter(u, p)) /\ s4' = s4
    BY <1>7 DEF Speech!PostAnswer, Speech!Decode, Speech!Drop
  <2>2. Speech!Posted' = Speech!Posted \cup {u}  BY <2>1, <1>1, <1>2
  <2> QED  BY <2>1, <2>2, <1>7 DEF SpeechGrown
<1>8. ASSUME NEW u \in Speech!Utterances, Speech!Refine(u)  PROVE SpeechGrown
  <2>1. Speech!Enter(u, "done") /\ s4' = s4 /\ u \in Speech!Posted  BY <1>8 DEF Speech!Refine, Speech!Posted
  <2>2. Speech!Posted' = Speech!Posted \cup {u}  BY <2>1, <1>1, <1>2
  <2> QED  BY <2>1, <2>2 DEF SpeechGrown
<1>9. ASSUME Speech!Finalize \/ Speech!StartPass \/ Speech!Verdict \/ Speech!Send \/ Speech!Arrive \/ Speech!Acknowledge
               \/ Speech!Retry \/ Speech!Refused \/ Speech!Expire \/ \E u \in Speech!Utterances : Speech!PassOver(u)
      PROVE  SpeechGrown
  BY <1>9, <1>0 DEF Speech!Finalize, Speech!StartPass, Speech!Verdict, Speech!Send, Speech!Arrive, Speech!Acknowledge,
    Speech!Retry, Speech!Refused, Speech!Expire, Speech!PassOver, Speech!agent
<1>10. CASE UNCHANGED Speech!vars
  BY <1>10, <1>0 DEF Speech!vars
<1> QED  BY <1>5, <1>6, <1>7, <1>8, <1>9, <1>10 DEF Speech!Next, Speech!Progress

\* What was in speaking order, or excused by the routes, stays so.
LEMMA SpeechBefore ==
  ASSUME s4.asked \subseteq s4'.asked, s4.decoded \subseteq s4'.decoded, NEW u, NEW v, Speech!Before(u, v)
  PROVE  Speech!Before(u, v)'
BY DEF Speech!Before, Speech!Mixed

\* The turns are had in speaking order, but for those whose routes differ.
LEMMA TurnsStep ==
  ASSUME Speech!TypeOK, Speech!RoutesHold, Speech!TurnsHold, [Speech!Next]_(Speech!vars)
  PROVE  Speech!TurnsHold'
<1> USE DEF Speech!Utterances
<1>t. /\ s1 \in [1..N -> Speech!Phase] /\ s2 \in [1..N -> 0..N] /\ N \in Nat /\ s6 \in Seq(1..N)
      /\ s4 \in [asked : SUBSET (1..N), decoded : SUBSET (1..N)]
  BY BackgroundAssumption DEF Speech!TypeOK
<1>g. /\ Speech!Posted \subseteq Speech!Posted'
      /\ s4.asked \subseteq s4'.asked /\ s4.decoded \subseteq s4'.decoded
      /\ \A x \in Speech!Posted' \ Speech!Posted :
           /\ Speech!Posted' = Speech!Posted \cup {x}
           /\ Speech!PostAnswer(x) \/ Speech!Decode(x) \/ Speech!Drop(x)
  BY SpeechGrows DEF SpeechGrown
<1>1. ASSUME NEW x \in 1..N, NEW v \in 1..N, NEW a \in v..x, NEW d \in v..x, a \in s4.asked, d \in s4.decoded, v < x
      PROVE  Speech!Before(x, v)
  BY <1>1 DEF Speech!Before, Speech!Mixed
<1>2. ASSUME NEW x \in Speech!Posted' \ Speech!Posted, NEW v \in (1..N) \ Speech!Posted, v # x
      PROVE  Speech!Before(x, v)
  <2>1. x \in 1..N  BY <1>2 DEF Speech!Posted
  <2>2. CASE x < v
    BY <2>2 DEF Speech!Before
  <2>3. CASE v < x
    <3>0. v \in v..x /\ x \in v..x  BY <2>1, <2>3
    <3>1. s1[x] # "silent"
      <4>1. x \in Speech!Range(s6) \/ s1[x] = "waiting"
        <5>1. CASE Speech!Decode(x) \/ Speech!Drop(x)
          <6>1. s6 # <<>> /\ Head(s6) = x  BY <5>1 DEF Speech!Decode, Speech!Drop, Speech!Decoded
          <6>2. \A i, j \in 1..Len(s6) : i < j => s6[i] # s6[j]  BY DEF Speech!RoutesHold
          <6> QED  BY <6>1, <6>2, <1>t, SpeechDequeued
        <5>2. CASE Speech!PostAnswer(x)
          BY <5>2 DEF Speech!PostAnswer
        <5> QED  BY <5>1, <5>2, <1>g, <1>2
      <4> QED  BY <4>1, <2>1 DEF Speech!RoutesHold
    <3>2. s1[v] # "silent" /\ v \in s4.asked \cup s4.decoded
      <4>1. v \in 1..(x - 1)  BY <2>1, <2>3
      <4> QED  BY <4>1, <3>1, <2>1 DEF Speech!RoutesHold
    <3>3. s1[v] \in {"asking", "waiting", "worker"}
      <4>1. s1[v] \notin {"refining", "done"}  BY <1>2 DEF Speech!Posted
      <4> QED  BY <4>1, <3>2, <1>t DEF Speech!Phase
    <3>4. CASE Speech!PostAnswer(x)
      <4>1. s1[x] = "waiting" /\ Speech!PrevDone(x)  BY <3>4 DEF Speech!PostAnswer
      <4>2. x \in s4.asked  BY <4>1, <2>1 DEF Speech!RoutesHold
      <4>3. PICK p \in 0..N : p = s2[x]  BY <1>t, <2>1
      <4>4. p < x /\ p \in {0} \cup s4.asked /\ \A y \in (p + 1)..(x - 1) : y \notin s4.asked
        BY <4>2, <4>3, <2>1 DEF Speech!RoutesHold
      <4>5. CASE p < v
        <5>1. v \in (p + 1)..(x - 1)  BY <4>5, <2>1, <2>3
        <5>2. v \in s4.decoded  BY <5>1, <4>4, <3>2
        <5> QED  BY <5>2, <4>2, <3>0, <1>1, <2>1, <2>3
      <4>6. CASE v <= p
        <5>1. p \in 1..N /\ p \in s4.asked /\ p \in v..x  BY <4>4, <4>6, <1>t, <1>2, <2>1
        <5>2. s1[p] \notin {"asking", "waiting", "silent"}
          BY <4>1, <4>3, <5>1 DEF Speech!PrevDone, Speech!RoutesHold
        <5>3. CASE s1[p] = "worker"
          <6>1. p \in s4.decoded  BY <5>3, <5>1 DEF Speech!RoutesHold
          <6> QED  BY <6>1, <4>2, <5>1, <3>0, <1>1, <2>1, <2>3
        <5>4. CASE s1[p] \in {"refining", "done"}
          <6>1. p \in Speech!Posted  BY <5>4, <5>1 DEF Speech!Posted
          <6>2. Speech!Before(p, v)  BY <6>1, <1>2 DEF Speech!TurnsHold
          <6>3. PICK a \in v..p, d \in v..p : a \in s4.asked /\ d \in s4.decoded
            BY <6>2, <4>6, <5>1 DEF Speech!Before, Speech!Mixed
          <6>4. a \in v..x /\ d \in v..x  BY <4>4, <5>1, <2>1, <6>3
          <6> QED  BY <6>3, <6>4, <1>1, <2>1, <2>3
        <5> QED  BY <5>2, <5>3, <5>4, <5>1, <1>t DEF Speech!Phase
      <4> QED  BY <4>5, <4>6
    <3>5. CASE Speech!Decode(x) \/ Speech!Drop(x)
      <4>1. s6 # <<>> /\ Head(s6) = x  BY <3>5 DEF Speech!Decode, Speech!Drop, Speech!Decoded
      <4>2. \A i, j \in 1..Len(s6) : i < j => s6[i] # s6[j]  BY DEF Speech!RoutesHold
      <4>3. x \in Speech!Range(s6) /\ x = s6[1] /\ Len(s6) \in Nat \ {0}  BY <4>1, <4>2, <1>t, SpeechDequeued
      <4>4. x \in s4.decoded  BY <4>3 DEF Speech!RoutesHold
      <4>5. v \in s4.asked
        <5>1. CASE s1[v] \in {"asking", "waiting"}
          BY <5>1, <3>2 DEF Speech!RoutesHold
        <5>2. CASE s1[v] = "worker"
          <6>1. v \in Speech!Range(s6)  BY <5>2 DEF Speech!RoutesHold
          <6>2. PICK j \in 1..Len(s6) : v = s6[j]  BY <6>1, <1>t DEF Speech!Range
          <6>3. 1 < j /\ 1 \in 1..Len(s6)  BY <6>2, <4>3, <1>2
          <6>4. s6[1] < s6[j] \/ s6[j] \in s4.asked  BY <6>3 DEF Speech!RoutesHold
          <6> QED  BY <6>2, <6>4, <4>3, <2>3, <2>1, <1>2
        <5> QED  BY <5>1, <5>2, <3>3
      <4> QED  BY <4>4, <4>5, <3>0, <1>1, <2>1, <2>3
    <3> QED  BY <3>4, <3>5, <1>g, <1>2
  <2> QED  BY <2>1, <2>2, <2>3, <1>2
<1>3. ASSUME NEW u \in Speech!Posted', NEW v \in (1..N) \ Speech!Posted'
      PROVE  Speech!Before(u, v)'
  <2>1. v \notin Speech!Posted /\ v # u  BY <1>3, <1>g
  <2>2. Speech!Before(u, v)
    <3>1. CASE u \in Speech!Posted
      BY <3>1, <2>1 DEF Speech!TurnsHold
    <3>2. CASE u \notin Speech!Posted
      BY <3>2, <1>3, <2>1, <1>2
    <3> QED  BY <3>1, <3>2
  <2> QED  BY <2>2, <1>g, SpeechBefore
<1> QED  BY <1>3 DEF Speech!TurnsHold

\* What is put in the queue: a segment when its utterance has its turn, what
\* tier 2 refined, and what the final pass made and found.
SpeechPutting ==
  /\ UNCHANGED <<s9, s11, s12, s13>>
  /\ s8' = s8 \/ \E kind \in Speech!Kinds, v \in 0..N :
       /\ Speech!Put(kind, v)
       /\ kind \in Speech!Segments => v \in Speech!Posted' \ Speech!Posted
       /\ kind \notin {"final", "status"} => \E u \in Speech!Utterances : s1[u] \in {"waiting", "worker", "refining"}
       /\ kind = "refinements" => \E u \in Speech!Utterances : s1[u] = "refining"
       /\ kind = "final" => s10.at = "pass" /\ s10'.at = "pass"
       /\ kind = "status" => s10.at = "pass" /\ s10'.at = "ended"

\* What leaves the queue: its first entries, and no request is under way then.
SpeechLeaving ==
  /\ \E n \in 0..Len(s8) : Speech!Unqueue(n)
  /\ s9' = Speech!NoFlight
  /\ UNCHANGED <<s1, s2, s3, s4, s5, s6, s7, s10, s11, s12, s13>>

\* Those are the moves of the queue; but for them a request starts, arrives, or
\* is to be sent again.
LEMMA SpeechMoves ==
  ASSUME Speech!TypeOK, Speech!RoutesHold, [Speech!Next]_(Speech!vars)
  PROVE  SpeechPutting \/ SpeechLeaving \/ Speech!Send \/ Speech!Retry \/ Speech!Arrive
<1>t. s1 \in [Speech!Utterances -> Speech!Phase] /\ s6 \in Seq(Speech!Utterances) /\ s8 \in Seq(Speech!Item)
      /\ Len(s8) \in Nat /\ s9.items \in 0..Len(s8) /\ N \in Nat
  BY BackgroundAssumption DEF Speech!TypeOK
<1>k. /\ {"segments1", "segments2", "refinements", "final", "gaps", "status"} \subseteq Speech!Kinds
      /\ Speech!Utterances \subseteq 0..N /\ 0 \in 0..N /\ N \in 0..N
  BY SpeechItems
<1>s. Speech!Segments = {"segments1", "segments2"}  BY DEF Speech!Segments
<1>0. ASSUME UNCHANGED <<s8, s9, Speech!server>>  PROVE SpeechPutting
  BY <1>0 DEF SpeechPutting, Speech!server
<1>1. ASSUME NEW u \in Speech!Utterances, Speech!Speak(u) \/ Speech!Answer(u) \/ Speech!Fallback(u)  PROVE SpeechPutting
  BY <1>0, <1>1 DEF Speech!Speak, Speech!Answer, Speech!Fallback
<1>2. ASSUME NEW u \in Speech!Utterances, NEW p \in {"refining", "done"}, Speech!Enter(u, p), s1[u] \notin {"refining", "done"}
      PROVE  u \in Speech!Posted' \ Speech!Posted
  <2>1. s1'[u] = p  BY <1>2, <1>t DEF Speech!Enter
  <2> QED  BY <2>1, <1>2 DEF Speech!Posted
<1>3. ASSUME NEW u \in Speech!Utterances, Speech!Decoded(u)  PROVE s1[u] = "worker"
  <2>1. \A i, j \in 1..Len(s6) : i < j => s6[i] # s6[j]  BY DEF Speech!RoutesHold
  <2>2. u \in Speech!Range(s6)  BY <1>3, <1>t, <2>1, SpeechDequeued DEF Speech!Decoded
  <2> QED  BY <2>2 DEF Speech!RoutesHold
<1>4. ASSUME NEW u \in Speech!Utterances, Speech!PostAnswer(u)  PROVE SpeechPutting
  <2>1. u \in Speech!Posted' \ Speech!Posted  BY <1>4, <1>2 DEF Speech!PostAnswer
  <2>2. Speech!Put("segments2", u) \/ s8' = s8  BY <1>4 DEF Speech!PostAnswer
  <2>3. UNCHANGED <<s9, s11, s12, s13>> /\ s1[u] = "waiting"  BY <1>4 DEF Speech!PostAnswer, Speech!server
  <2> QED  BY <2>1, <2>2, <2>3, <1>k DEF SpeechPutting
<1>5. ASSUME NEW u \in Speech!Utterances, Speech!Decode(u)  PROVE SpeechPutting
  <2>1. (\E p \in {"refining", "done"} : Speech!Enter(u, p)) /\ Speech!Decoded(u)  BY <1>5 DEF Speech!Decode
  <2>2. u \in Speech!Posted' \ Speech!Posted  BY <2>1, <1>2, <1>3
  <2>3. Speech!Put("segments1", u)  BY <1>5 DEF Speech!Decode
  <2>4. UNCHANGED <<s9, s11, s12, s13>>  BY <1>5 DEF Speech!Decode, Speech!server
  <2> QED  BY <2>1, <2>2, <2>3, <2>4, <1>3, <1>k DEF SpeechPutting
<1>6. ASSUME NEW u \in Speech!Utterances, Speech!Drop(u)  PROVE SpeechPutting
  <2>1. Speech!Put("gaps", u) \/ s8' = s8  BY <1>6 DEF Speech!Drop
  <2>2. UNCHANGED <<s9, s11, s12, s13>> /\ s1[u] = "worker"  BY <1>3, <1>6 DEF Speech!Drop, Speech!server
  <2> QED  BY <2>1, <2>2, <1>k, <1>s DEF SpeechPutting
<1>7. ASSUME NEW u \in Speech!Utterances, Speech!Refine(u)  PROVE SpeechPutting
  <2>1. Speech!Put("refinements", u) \/ s8' = s8  BY <1>7 DEF Speech!Refine
  <2>2. UNCHANGED <<s9, s11, s12, s13>> /\ s1[u] = "refining"  BY <1>7 DEF Speech!Refine, Speech!server
  <2> QED  BY <2>1, <2>2, <1>k, <1>s DEF SpeechPutting
<1>8. ASSUME NEW u \in Speech!Utterances, Speech!PassOver(u)  PROVE SpeechPutting
  <2>1. Speech!Put("final", u) \/ s8' = s8  BY <1>8 DEF Speech!PassOver
  <2>2. UNCHANGED <<s9, s11, s12, s13>> /\ s10.at = "pass"  BY <1>8 DEF Speech!PassOver, Speech!server
  <2>3. s10'.at = "pass"
    <3>1. s10'.at = s10.at  BY <1>8 DEF Speech!PassOver, Speech!TypeOK
    <3> QED  BY <3>1, <2>2
  <2> QED  BY <2>1, <2>2, <2>3, <1>k, <1>s DEF SpeechPutting
<1>9. ASSUME Speech!Verdict  PROVE SpeechPutting
  <2>1. \E v \in {0, N} : Speech!Put("status", v)  BY <1>9 DEF Speech!Verdict
  <2>2. UNCHANGED <<s9, s11, s12, s13>> /\ s10.at = "pass" /\ s10'.at = "ended"
    BY <1>9 DEF Speech!Verdict, Speech!server, Speech!TypeOK
  <2> QED  BY <2>1, <2>2, <1>k, <1>s DEF SpeechPutting
<1>10. ASSUME Speech!Acknowledge \/ Speech!Refused \/ Speech!Expire  PROVE SpeechLeaving
  <2>1. \E n \in 0..Len(s8) : Speech!Unqueue(n)
    <3>1. s8 # <<>> => 1 \in 0..Len(s8)  BY <1>t
    <3>2. (Speech!Refused \/ Speech!Acknowledge) => Speech!Unqueue(s9.items)
      BY DEF Speech!Refused, Speech!Acknowledge, Speech!GiveUp
    <3>3. Speech!Expire => s8 # <<>> /\ Speech!Unqueue(1)  BY DEF Speech!Expire, Speech!GiveUp
    <3> QED  BY <1>10, <1>t, <3>1, <3>2, <3>3
  <2>2. s9' = Speech!NoFlight /\ UNCHANGED <<Speech!agent, s10, Speech!server>>
    BY <1>10 DEF Speech!Acknowledge, Speech!Refused, Speech!Expire
  <2> QED  BY <2>1, <2>2 DEF SpeechLeaving, Speech!agent, Speech!server
<1>11. ASSUME Speech!Finalize \/ Speech!StartPass  PROVE SpeechPutting
  BY <1>0, <1>11 DEF Speech!Finalize, Speech!StartPass
<1>12. CASE UNCHANGED Speech!vars
  BY <1>0, <1>12 DEF Speech!vars, Speech!server
<1> QED
  BY <1>1, <1>4, <1>5, <1>6, <1>7, <1>8, <1>9, <1>10, <1>11, <1>12 DEF Speech!Next, Speech!Progress

\* What is put in the queue is at its end, and what was there is where it was.
LEMMA SpeechAppended ==
  ASSUME Speech!TypeOK, NEW kind \in Speech!Kinds, NEW v \in 0..N, Speech!Put(kind, v)
  PROVE  /\ Len(s8) \in Nat /\ Len(s8') = Len(s8) + 1
         /\ \A i \in 1..Len(s8') : \/ i \in 1..Len(s8) /\ s8'[i] = s8[i]
                                   \/ i = Len(s8') /\ s8'[i].kind = kind /\ s8'[i].u = v /\ s8'[i] = [kind |-> kind, u |-> v]
<1>1. s8 \in Seq(Speech!Item) /\ [kind |-> kind, u |-> v] \in Speech!Item
  BY SpeechItems DEF Speech!TypeOK
<1>2. /\ Len(s8') = Len(s8) + 1 /\ Len(s8) \in Nat
      /\ \A i \in 1..(Len(s8) + 1) : s8'[i] = IF i <= Len(s8) THEN s8[i] ELSE [kind |-> kind, u |-> v]
  BY <1>1, SpeechPut DEF Speech!Put
<1> QED  BY <1>2

\* What leaves the queue is its beginning; the rest moves up.
LEMMA SpeechLeft ==
  ASSUME Speech!TypeOK, SpeechLeaving
  PROVE  \E n \in 0..Len(s8) : /\ Len(s8) \in Nat /\ Len(s8') = Len(s8) - n
                               /\ \A i \in 1..Len(s8') : i + n \in 1..Len(s8) /\ s8'[i] = s8[i + n]
<1>1. s8 \in Seq(Speech!Item) /\ Len(s8) \in Nat  BY DEF Speech!TypeOK
<1>2. PICK n \in 0..Len(s8) : Speech!Unqueue(n)  BY DEF SpeechLeaving
<1>3. Len(s8') = Len(s8) - n /\ \A i \in 1..(Len(s8) - n) : s8'[i] = s8[i + n]
  BY <1>1, <1>2, SpeechUnqueue DEF Speech!Unqueue
<1> QED  BY <1>1, <1>3

\* So what is stored is stored as it was spoken, and what will be is queued so.
LEMMA SegmentsStep ==
  ASSUME Speech!TypeOK, Speech!RoutesHold, Speech!TurnsHold, Speech!StoredAsSpoken, Speech!SegmentsHold,
         [Speech!Next]_(Speech!vars)
  PROVE  Speech!StoredAsSpoken' /\ Speech!SegmentsHold'
<1> DEFINE After(u, v) == u < v \/ (v < u /\ (v..u) \cap s4'.asked # {} /\ (v..u) \cap s4'.decoded # {})
<1>g. /\ Speech!Posted \subseteq Speech!Posted'
      /\ s4.asked \subseteq s4'.asked /\ s4.decoded \subseteq s4'.decoded
  BY SpeechGrows DEF SpeechGrown
<1>b. \A u, v : Speech!Before(u, v) => After(u, v)  BY <1>g DEF Speech!Before, Speech!Mixed
<1>t. s11 \in Seq(Speech!Utterances) /\ Len(s11) \in Nat /\ Len(s8) \in Nat /\ DOMAIN s11 = 1..Len(s11)
      /\ s9.items \in 0..Len(s8)
  BY DEF Speech!TypeOK
<1>o. Speech!StoredAsSpoken <=> \A i, j \in 1..Len(s11) : i < j => Speech!Before(s11[i], s11[j])
  <2>1. \A i \in 1..Len(s11) : s11[i] \in Nat  BY <1>t, BackgroundAssumption DEF Speech!Utterances
  <2> QED  BY <2>1 DEF Speech!StoredAsSpoken, Speech!Before
<1>p. Speech!StoredAsSpoken' <=> \A i, j \in 1..Len(s11') : i < j => After(s11'[i], s11'[j])
  <2>1. Speech!TypeOK'  BY SpeechTyped
  <2>2. \A i \in 1..Len(s11') : s11'[i] \in Nat
    <3>1. s11' \in Seq(Speech!Utterances)  BY <2>1 DEF Speech!TypeOK
    <3> QED  BY <3>1, BackgroundAssumption DEF Speech!Utterances
  <2> QED  BY <2>2 DEF Speech!StoredAsSpoken, Speech!Mixed
<1>q. /\ Speech!Range(s11') \subseteq Speech!Posted'
      /\ \A i \in 1..Len(s8') : s8'[i].kind \in Speech!Segments =>
           /\ s8'[i].u \in Speech!Posted'
           /\ s8'[i].u \notin Speech!Range(s11') => \A k \in 1..Len(s11') : After(s11'[k], s8'[i].u)
      /\ \A i, j \in 1..Len(s8') : i < j /\ s8'[i].kind \in Speech!Segments /\ s8'[j].kind \in Speech!Segments =>
           After(s8'[i].u, s8'[j].u)
      => Speech!SegmentsHold'
  BY DEF Speech!SegmentsHold, Speech!Segment, Speech!Before, Speech!Mixed, Speech!Range, Speech!Segments
<1> HIDE DEF After
<1>s. /\ Speech!Range(s11) \subseteq Speech!Posted
      /\ \A i \in 1..Len(s8) : s8[i].kind \in Speech!Segments =>
           /\ s8[i].u \in Speech!Posted
           /\ s8[i].u \notin Speech!Range(s11) => \A k \in 1..Len(s11) : Speech!Before(s11[k], s8[i].u)
      /\ \A i, j \in 1..Len(s8) : i < j /\ s8[i].kind \in Speech!Segments /\ s8[j].kind \in Speech!Segments =>
           Speech!Before(s8[i].u, s8[j].u)
  BY DEF Speech!SegmentsHold, Speech!Segment
<1>1. ASSUME s11' = s11,
             \A i \in 1..Len(s8') : s8'[i].kind \in Speech!Segments =>
               /\ s8'[i].u \in Speech!Posted'
               /\ s8'[i].u \notin Speech!Range(s11) => \A k \in 1..Len(s11) : Speech!Before(s11[k], s8'[i].u)
             ,
             \A i, j \in 1..Len(s8') : i < j /\ s8'[i].kind \in Speech!Segments /\ s8'[j].kind \in Speech!Segments =>
               Speech!Before(s8'[i].u, s8'[j].u)
      PROVE  Speech!StoredAsSpoken' /\ Speech!SegmentsHold'
  <2>1. Speech!StoredAsSpoken'  BY <1>1, <1>o, <1>p, <1>b
  <2>2. Speech!SegmentsHold'
    <3>1. Speech!Range(s11') \subseteq Speech!Posted'  BY <1>1, <1>s, <1>g
    <3>2. \A i \in 1..Len(s8') : s8'[i].kind \in Speech!Segments =>
            /\ s8'[i].u \in Speech!Posted'
            /\ s8'[i].u \notin Speech!Range(s11') => \A k \in 1..Len(s11') : After(s11'[k], s8'[i].u)
      BY <1>1, <1>b
    <3>3. \A i, j \in 1..Len(s8') : i < j /\ s8'[i].kind \in Speech!Segments /\ s8'[j].kind \in Speech!Segments =>
            After(s8'[i].u, s8'[j].u)
      BY <1>1, <1>b
    <3> QED  BY <3>1, <3>2, <3>3, <1>q
  <2> QED  BY <2>1, <2>2
<1>2. ASSUME SpeechPutting  PROVE Speech!StoredAsSpoken' /\ Speech!SegmentsHold'
  <2>1. s11' = s11  BY <1>2 DEF SpeechPutting
  <2>2. CASE s8' = s8
    BY <2>1, <2>2, <1>1, <1>s, <1>g
  <2>3. ASSUME NEW kind \in Speech!Kinds, NEW v \in 0..N, Speech!Put(kind, v),
               kind \in Speech!Segments => v \in Speech!Posted' \ Speech!Posted
        PROVE  Speech!StoredAsSpoken' /\ Speech!SegmentsHold'
    <3>1. /\ Len(s8') = Len(s8) + 1
          /\ \A i \in 1..Len(s8') : \/ i \in 1..Len(s8) /\ s8'[i] = s8[i]
                                    \/ i = Len(s8') /\ s8'[i].kind = kind /\ s8'[i].u = v
      <4>1. /\ Len(s8') = Len(s8) + 1
            /\ \A i \in 1..Len(s8') : \/ i \in 1..Len(s8) /\ s8'[i] = s8[i]
                                      \/ i = Len(s8') /\ s8'[i].kind = kind /\ s8'[i].u = v /\ s8'[i] = [kind |-> kind, u |-> v]
        BY <2>3, SpeechAppended
      <4> QED  BY <4>1
    <3>2. kind \in Speech!Segments => \A u \in Speech!Posted : Speech!Before(u, v)
      <4>1. Speech!Posted' \subseteq Speech!Utterances  BY DEF Speech!Posted, Speech!Utterances
      <4> QED  BY <2>3, <4>1 DEF Speech!TurnsHold
    <3>3. \A k \in 1..Len(s11) : s11[k] \in Speech!Posted  BY <1>s, <1>t DEF Speech!Range
    <3>4. ASSUME NEW i \in 1..Len(s8'), s8'[i].kind \in Speech!Segments
          PROVE  /\ s8'[i].u \in Speech!Posted'
                 /\ s8'[i].u \notin Speech!Range(s11) => \A k \in 1..Len(s11) : Speech!Before(s11[k], s8'[i].u)
      <4>1. CASE i \in 1..Len(s8) /\ s8'[i] = s8[i]
        BY <4>1, <3>4, <1>s, <1>g
      <4>2. CASE s8'[i].kind = kind /\ s8'[i].u = v
        BY <4>2, <3>4, <3>2, <3>3, <2>3
      <4> QED  BY <4>1, <4>2, <3>1
    <3>5. ASSUME NEW i \in 1..Len(s8'), NEW j \in 1..Len(s8'), i < j,
                 s8'[i].kind \in Speech!Segments, s8'[j].kind \in Speech!Segments
          PROVE  Speech!Before(s8'[i].u, s8'[j].u)
      <4>1. i \in 1..Len(s8) /\ s8'[i] = s8[i]  BY <3>5, <3>1, <1>t
      <4>2. CASE j \in 1..Len(s8) /\ s8'[j] = s8[j]
        BY <4>1, <4>2, <3>5, <1>s
      <4>3. CASE s8'[j].kind = kind /\ s8'[j].u = v
        BY <4>1, <4>3, <3>5, <3>2, <1>s
      <4> QED  BY <4>2, <4>3, <3>1
    <3> QED  BY <2>1, <3>4, <3>5, <1>1
  <2> QED  BY <1>2, <2>2, <2>3 DEF SpeechPutting
<1>3. ASSUME SpeechLeaving  PROVE Speech!StoredAsSpoken' /\ Speech!SegmentsHold'
  <2>1. s11' = s11  BY <1>3 DEF SpeechLeaving
  <2>2. PICK n \in 0..Len(s8) : /\ Len(s8') = Len(s8) - n
                                /\ \A i \in 1..Len(s8') : i + n \in 1..Len(s8) /\ s8'[i] = s8[i + n]
    BY <1>3, SpeechLeft
  <2>3. \A i \in 1..Len(s8') : s8'[i].kind \in Speech!Segments =>
          /\ s8'[i].u \in Speech!Posted'
          /\ s8'[i].u \notin Speech!Range(s11) => \A k \in 1..Len(s11) : Speech!Before(s11[k], s8'[i].u)
    BY <2>2, <1>s, <1>g
  <2>4. ASSUME NEW i \in 1..Len(s8'), NEW j \in 1..Len(s8'), i < j,
               s8'[i].kind \in Speech!Segments, s8'[j].kind \in Speech!Segments
        PROVE  Speech!Before(s8'[i].u, s8'[j].u)
    <3>1. i + n < j + n  BY <2>4
    <3> QED  BY <3>1, <2>4, <2>2, <1>s
  <2> QED  BY <2>1, <2>3, <2>4, <1>1
<1>4. ASSUME Speech!Send \/ Speech!Retry  PROVE Speech!StoredAsSpoken' /\ Speech!SegmentsHold'
  <2>1. s11' = s11 /\ s8' = s8  BY <1>4 DEF Speech!Send, Speech!Retry, Speech!server
  <2> QED  BY <2>1, <1>1, <1>s, <1>g
<1>5. ASSUME Speech!Arrive  PROVE Speech!StoredAsSpoken' /\ Speech!SegmentsHold'
  <2>1. s8' = s8 /\ s4' = s4 /\ s1' = s1  BY <1>5 DEF Speech!Arrive, Speech!agent
  <2>2. PICK n \in Nat : \E f \in [1..n -> 1..s9.items] :
           /\ \A i \in 1..n : s8[f[i]].kind \in Speech!Segments /\ s8[f[i]].u \notin Speech!Range(s11)
           /\ \A i, j \in 1..n : i < j => f[i] < f[j]
           /\ \A i \in 1..s9.items : s8[i].kind \in Speech!Segments =>
                s8[i].u \in Speech!Range(s11) \/ \E m \in 1..n : f[m] = i
           /\ s11' = s11 \o [i \in 1..n |-> s8[f[i]].u]
    BY <1>5, SpeechIngested
  <2>3. PICK f \in [1..n -> 1..s9.items] :
           /\ \A i \in 1..n : s8[f[i]].kind \in Speech!Segments /\ s8[f[i]].u \notin Speech!Range(s11)
           /\ \A i, j \in 1..n : i < j => f[i] < f[j]
           /\ \A i \in 1..s9.items : s8[i].kind \in Speech!Segments =>
                s8[i].u \in Speech!Range(s11) \/ \E m \in 1..n : f[m] = i
           /\ s11' = s11 \o [i \in 1..n |-> s8[f[i]].u]
    BY <2>2
  <2>4. \A m \in 1..n : f[m] \in 1..Len(s8)  BY <2>3, <1>t
  <2>5. \A m \in 1..n : s8[f[m]].u \in Speech!Posted  BY <2>3, <2>4, <1>s
  <2>6. /\ Len(s11') = Len(s11) + n
        /\ \A k \in 1..Len(s11') : \/ k \in 1..Len(s11) /\ s11'[k] = s11[k]
                                   \/ k - Len(s11) \in 1..n /\ s11'[k] = s8[f[k - Len(s11)]].u
    <3>1. PICK g : g = [i \in 1..n |-> s8[f[i]].u]  OBVIOUS
    <3>2. g \in Seq(Speech!Posted) /\ Len(g) = n /\ \A i \in 1..n : g[i] = s8[f[i]].u  BY <3>1, <2>5
    <3>3. s11 \in Seq(Speech!Utterances) /\ s11' = s11 \o g  BY <2>3, <3>1, <1>t
    <3>4. Len(s11') = Len(s11) + n /\ \A k \in 1..(Len(s11) + n) :
            s11'[k] = IF k <= Len(s11) THEN s11[k] ELSE g[k - Len(s11)]
      BY <3>2, <3>3
    <3>5. \A k \in 1..(Len(s11) + n) : k <= Len(s11) \/ k - Len(s11) \in 1..n  BY <1>t
    <3> QED  BY <3>2, <3>4, <3>5, <1>t
  <2>7. DOMAIN s11' = 1..Len(s11')
    <3>1. s11' \in Seq(Speech!Utterances)  BY SpeechTyped DEF Speech!TypeOK
    <3> QED  BY <3>1
  <2>8. \A k \in 1..Len(s11) : s11[k] \in Speech!Range(s11)  BY <1>t DEF Speech!Range
  <2>9. Speech!Range(s11') \subseteq Speech!Posted
    <3>1. \A k \in 1..Len(s11') : s11'[k] \in Speech!Posted  BY <2>6, <2>5, <2>8, <1>s
    <3> QED  BY <3>1, <2>7 DEF Speech!Range
  <2>10. ASSUME NEW i \in 1..Len(s11'), NEW j \in 1..Len(s11'), i < j  PROVE Speech!Before(s11'[i], s11'[j])
    <3>1. CASE j \in 1..Len(s11) /\ s11'[j] = s11[j]
      <4>1. i \in 1..Len(s11) /\ s11'[i] = s11[i]  BY <3>1, <2>10, <2>6, <1>t
      <4> QED  BY <4>1, <3>1, <2>10, <1>o
    <3>2. CASE j - Len(s11) \in 1..n /\ s11'[j] = s8[f[j - Len(s11)]].u
      <4>1. PICK m \in 1..n : m = j - Len(s11)  BY <3>2
      <4>2. s11'[j] = s8[f[m]].u /\ f[m] \in 1..Len(s8)  BY <4>1, <3>2, <2>4
      <4>3. CASE i \in 1..Len(s11) /\ s11'[i] = s11[i]
        BY <4>2, <4>3, <2>3, <1>s
      <4>4. CASE i - Len(s11) \in 1..n /\ s11'[i] = s8[f[i - Len(s11)]].u
        <5>1. PICK l \in 1..n : l = i - Len(s11)  BY <4>4
        <5>2. l < m  BY <5>1, <4>1, <2>10, <1>t
        <5>3. f[l] < f[m] /\ f[l] \in 1..Len(s8) /\ s11'[i] = s8[f[l]].u  BY <5>1, <5>2, <4>4, <2>3, <2>4
        <5> QED  BY <5>3, <4>2, <2>3, <1>s
      <4> QED  BY <4>3, <4>4, <2>6
    <3> QED  BY <3>1, <3>2, <2>6
  <2>11. ASSUME NEW i \in 1..Len(s8), s8[i].kind \in Speech!Segments, s8[i].u \notin Speech!Range(s11'),
                NEW k \in 1..Len(s11')
         PROVE  Speech!Before(s11'[k], s8[i].u)
    <3>1. \A m \in 1..n : s8[f[m]].u \in Speech!Range(s11')
      <4>1. ASSUME NEW m \in 1..n  PROVE s8[f[m]].u \in Speech!Range(s11')
        <5>1. Len(s11) + m \in 1..Len(s11') /\ Len(s11) + m \notin 1..Len(s11) /\ (Len(s11) + m) - Len(s11) = m
          BY <2>6, <1>t
        <5>2. s11'[Len(s11) + m] = s8[f[m]].u  BY <5>1, <2>6
        <5> QED  BY <5>1, <5>2, <2>7 DEF Speech!Range
      <4> QED  BY <4>1
    <3>2. Speech!Range(s11) \subseteq Speech!Range(s11')
      <4>1. ASSUME NEW l \in 1..Len(s11)  PROVE s11[l] \in Speech!Range(s11')
        <5>1. l \in 1..Len(s11') /\ ~(l - Len(s11) \in 1..n)  BY <2>6, <1>t
        <5>2. s11'[l] = s11[l]  BY <5>1, <2>6
        <5> QED  BY <5>1, <5>2, <2>7 DEF Speech!Range
      <4> QED  BY <4>1, <1>t DEF Speech!Range
    <3>3. s8[i].u \notin Speech!Range(s11) /\ i \notin 1..s9.items  BY <2>11, <3>1, <3>2, <2>3
    <3>4. CASE k \in 1..Len(s11) /\ s11'[k] = s11[k]
      BY <3>3, <3>4, <2>11, <1>s
    <3>5. CASE k - Len(s11) \in 1..n /\ s11'[k] = s8[f[k - Len(s11)]].u
      <4>1. PICK m \in 1..n : m = k - Len(s11)  BY <3>5
      <4>2. f[m] \in 1..Len(s8) /\ f[m] < i /\ s11'[k] = s8[f[m]].u  BY <4>1, <3>3, <3>5, <2>3, <2>4, <1>t
      <4> QED  BY <4>2, <2>3, <2>11, <1>s
    <3> QED  BY <3>4, <3>5, <2>6
  <2>12. Speech!StoredAsSpoken'  BY <2>10, <1>p, <1>b
  <2>13. Speech!SegmentsHold'
    <3>1. Speech!Range(s11') \subseteq Speech!Posted'  BY <2>9, <1>g
    <3>2. \A i \in 1..Len(s8') : s8'[i].kind \in Speech!Segments =>
            /\ s8'[i].u \in Speech!Posted'
            /\ s8'[i].u \notin Speech!Range(s11') => \A k \in 1..Len(s11') : After(s11'[k], s8'[i].u)
      BY <2>1, <2>11, <1>s, <1>g, <1>b
    <3>3. \A i, j \in 1..Len(s8') : i < j /\ s8'[i].kind \in Speech!Segments /\ s8'[j].kind \in Speech!Segments =>
            After(s8'[i].u, s8'[j].u)
      BY <2>1, <1>s, <1>b
    <3> QED  BY <3>1, <3>2, <3>3, <1>q
  <2> QED  BY <2>12, <2>13
<1> QED  BY <1>2, <1>3, <1>4, <1>5, SpeechMoves

\* The places of the final pass follow each other; nothing is under way in it but
\* what the decoder was cut off from.
SpeechAdvances ==
  /\ Speech!Passing => Speech!Passing' /\ s10'.cut = s10.cut
  /\ ~Speech!Passing' => s10'.cut = s10.cut
  /\ s10.at = "ended" => s10'.at = "ended"
  /\ ~Speech!Passing /\ Speech!Passing' => Speech!StartPass
  /\ Speech!Passing' => \A u \in Speech!Utterances : s1'[u] \in {"silent", "done"} \/ (s10'.cut /\ s1'[u] = "worker")

\* What was under way when the pass began.
SpeechStill ==
  Speech!Passing => \A u \in Speech!Utterances : s1[u] \in {"silent", "done"} \/ (s10.cut /\ s1[u] = "worker")

\* That is part of what holds of the pass.
LEMMA SpeechStillHolds ==
  ASSUME Speech!PassHolds
  PROVE  SpeechStill
BY DEF Speech!PassHolds, SpeechStill

\* So the places of the pass follow each other.
LEMMA PassAdvances ==
  ASSUME Speech!TypeOK, Speech!RoutesHold, SpeechStill, [Speech!Next]_(Speech!vars)
  PROVE  SpeechAdvances
<1>t. /\ s1 \in [Speech!Utterances -> Speech!Phase] /\ s6 \in Seq(Speech!Utterances)
      /\ s10 \in [at : {"off", "drain", "pass", "ended"}, todo : SUBSET Speech!Utterances, ok : BOOLEAN, cut : BOOLEAN]
  BY DEF Speech!TypeOK
<1>0. ASSUME s10'.at = s10.at, s10'.cut = s10.cut,
             Speech!Passing => \A v \in Speech!Utterances : s1'[v] = s1[v] \/ s1'[v] = "done"
      PROVE  SpeechAdvances
  BY <1>0 DEF SpeechAdvances, SpeechStill, Speech!Passing
<1>1. ASSUME NEW u \in Speech!Utterances, Speech!Speak(u)  PROVE SpeechAdvances
  <2>1. ~Speech!Passing /\ s10' = s10  BY <1>1 DEF Speech!Speak, Speech!Passing
  <2> QED  BY <2>1, <1>0
<1>2. ASSUME NEW u \in Speech!Utterances,
             Speech!Answer(u) \/ Speech!Fallback(u) \/ Speech!PostAnswer(u) \/ Speech!Refine(u)
      PROVE  SpeechAdvances
  <2>1. ~Speech!Passing
    BY <1>2 DEF Speech!Answer, Speech!Fallback, Speech!PostAnswer, Speech!Refine, SpeechStill
  <2>2. s10' = s10 \/ s10' = [s10 EXCEPT !.ok = FALSE]
    BY <1>2 DEF Speech!Answer, Speech!Fallback, Speech!PostAnswer, Speech!Refine
  <2>3. s10'.at = s10.at /\ s10'.cut = s10.cut  BY <2>2, <1>t
  <2> QED  BY <2>1, <2>3, <1>0
<1>3. ASSUME NEW u \in Speech!Utterances, Speech!Decode(u) \/ Speech!Drop(u)  PROVE SpeechAdvances
  <2>1. s10' = s10 \/ s10' = [s10 EXCEPT !.ok = FALSE]  BY <1>3 DEF Speech!Decode, Speech!Drop
  <2>2. s10'.at = s10.at /\ s10'.cut = s10.cut  BY <2>1, <1>t
  <2>3. Speech!Passing => Speech!Enter(u, "done")  BY <1>3 DEF Speech!Decode, Speech!Drop, Speech!Passing
  <2>4. Speech!Enter(u, "done") => \A v \in Speech!Utterances : s1'[v] = s1[v] \/ s1'[v] = "done"
    BY <1>t DEF Speech!Enter
  <2> QED  BY <2>2, <2>3, <2>4, <1>0
<1>4. ASSUME Speech!Finalize \/ (\E u \in Speech!Utterances : Speech!PassOver(u)) \/ Speech!Verdict  PROVE SpeechAdvances
  <2>1. s1' = s1 /\ s10'.cut = s10.cut /\ s10.at # "ended"
    BY <1>4, <1>t DEF Speech!Finalize, Speech!PassOver, Speech!Verdict, Speech!agent
  <2>2. Speech!Passing' <=> Speech!Passing
    BY <1>4, <1>t DEF Speech!Finalize, Speech!PassOver, Speech!Verdict, Speech!Passing
  <2> QED  BY <2>1, <2>2 DEF SpeechAdvances, SpeechStill
<1>5. ASSUME Speech!StartPass  PROVE SpeechAdvances
  <2>1. PICK cut \in BOOLEAN : /\ IF cut THEN Speech!DrainCut ELSE Speech!Drained
                               /\ s10' = [s10 EXCEPT !.at = "pass", !.todo = s7, !.cut = cut]
    BY <1>5 DEF Speech!StartPass
  <2>2. s10'.at = "pass" /\ s10'.cut = cut /\ s10.at = "drain" /\ s1' = s1
    BY <1>5, <2>1, <1>t DEF Speech!StartPass, Speech!agent
  <2>3. \A u \in Speech!Utterances : s1[u] \in {"silent", "done"} \/ (cut /\ s1[u] = "worker")
    BY <2>1, <1>t DEF Speech!DrainCut, Speech!Drained, Speech!Phase
  <2> QED  BY <2>2, <2>3, <1>5 DEF SpeechAdvances, Speech!Passing
<1>6. ASSUME Speech!Send \/ Speech!Arrive \/ Speech!Acknowledge \/ Speech!Retry \/ Speech!Refused \/ Speech!Expire
               \/ UNCHANGED Speech!vars
      PROVE  SpeechAdvances
  <2>1. s10' = s10 /\ s1' = s1
    BY <1>6 DEF Speech!Send, Speech!Arrive, Speech!Acknowledge, Speech!Retry, Speech!Refused, Speech!Expire,
      Speech!agent, Speech!vars
  <2> QED  BY <2>1, <1>0
<1> QED  BY <1>1, <1>2, <1>3, <1>4, <1>5, <1>6 DEF Speech!Next, Speech!Progress

\* What arrives was in the queue: the first entry of the batch, and a final text.
LEMMA SpeechArrived ==
  ASSUME Speech!TypeOK, Speech!Arrive
  PROVE  /\ s9.items \in 1..Len(s8) /\ Len(s8) \in Nat /\ s8' = s8 /\ s10' = s10 /\ s9'.items = s9.items
         /\ s13' = (s13 \/ s8[1] = [kind |-> "status", u |-> 0])
         /\ \A u \in Speech!Utterances : s12'[u] = "final" =>
              /\ u \in Speech!Range(s11)
              /\ s12[u] = "final" \/ \E i \in 1..s9.items : s8[i] = [kind |-> "final", u |-> u]
         /\ \A u \in Speech!Utterances : s12[u] = "final" /\ u \in Speech!Range(s11) =>
              \/ s12'[u] = "final"
              \/ /\ \E i \in 1..s9.items : s8[i] = [kind |-> "refinements", u |-> u]
                 /\ \A i \in 1..s9.items : s8[i] # [kind |-> "final", u |-> u]
<1> DEFINE b == SubSeq(s8, 1, s9.items)
<1>1. /\ s8 \in Seq(Speech!Item) /\ s9.items \in 0..Len(s8) /\ Len(s8) \in Nat
      /\ s9 \in [items : 0..Len(s8), arrived : BOOLEAN]
  BY DEF Speech!TypeOK
<1>2. Len(b) = s9.items /\ DOMAIN b = 1..s9.items /\ \A i \in 1..s9.items : b[i] = s8[i]  BY <1>1
<1>3. /\ s9.items > 0 /\ s8' = s8 /\ s10' = s10 /\ s9' = [s9 EXCEPT !.arrived = TRUE]
      /\ s12' = [u \in Speech!Utterances |-> Speech!TextAfter(b, u)]
      /\ s13' = (s13 \/ b[1] = [kind |-> "status", u |-> 0])
  BY DEF Speech!Arrive
<1> HIDE DEF b
<1>4. s9.items \in 1..Len(s8) /\ 1 \in 1..s9.items /\ s9'.items = s9.items  BY <1>1, <1>3
<1>5. \A x : x \in Speech!Range(b) <=> \E i \in 1..s9.items : s8[i] = x  BY <1>2 DEF Speech!Range
<1>6. ASSUME NEW u \in Speech!Utterances
      PROVE  s12'[u] = Speech!TextAfter(b, u)
  BY <1>3
<1>7. ASSUME NEW u \in Speech!Utterances, s12'[u] = "final"
      PROVE  /\ u \in Speech!Range(s11)
             /\ s12[u] = "final" \/ \E i \in 1..s9.items : s8[i] = [kind |-> "final", u |-> u]
  <2>1. Speech!TextAfter(b, u) = "final"  BY <1>6, <1>7
  <2>2. u \in Speech!Range(s11)  BY <2>1 DEF Speech!TextAfter
  <2>3. s12[u] = "final" \/ [kind |-> "final", u |-> u] \in Speech!Range(b)  BY <2>1, <2>2 DEF Speech!TextAfter
  <2> QED  BY <2>2, <2>3, <1>5
<1>8. ASSUME NEW u \in Speech!Utterances, s12[u] = "final", u \in Speech!Range(s11), s12'[u] # "final"
      PROVE  /\ \E i \in 1..s9.items : s8[i] = [kind |-> "refinements", u |-> u]
             /\ \A i \in 1..s9.items : s8[i] # [kind |-> "final", u |-> u]
  <2>1. Speech!TextAfter(b, u) # "final"  BY <1>6, <1>8
  <2>2. /\ [kind |-> "refinements", u |-> u] \in Speech!Range(b)
        /\ [kind |-> "final", u |-> u] \notin Speech!Range(b)
    BY <2>1, <1>8 DEF Speech!TextAfter
  <2> QED  BY <2>2, <1>5
<1>9. s13' = (s13 \/ s8[1] = [kind |-> "status", u |-> 0])  BY <1>2, <1>3, <1>4
<1> QED  BY <1>1, <1>3, <1>4, <1>7, <1>8, <1>9

\* What the final pass says comes last, and its verdict after that.
LEMMA PassStep ==
  ASSUME Speech!TypeOK, Speech!RoutesHold, Speech!PassHolds, [Speech!Next]_(Speech!vars)
  PROVE  Speech!PassHolds'
<1>t. Len(s8) \in Nat /\ s9.items \in 0..Len(s8) /\ s13 \in BOOLEAN /\ s10.cut \in BOOLEAN
  BY DEF Speech!TypeOK
<1>a. SpeechStill /\ SpeechAdvances  BY SpeechStillHolds, PassAdvances
<1>p. /\ Speech!Passing => Speech!Passing' /\ s10'.cut = s10.cut
      /\ ~Speech!Passing' => s10'.cut = s10.cut
      /\ s10.at = "ended" => s10'.at = "ended"
      /\ ~Speech!Passing /\ Speech!Passing' => Speech!StartPass
      /\ Speech!Passing' => \A u \in Speech!Utterances : s1'[u] \in {"silent", "done"} \/ (s10'.cut /\ s1'[u] = "worker")
  BY <1>a DEF SpeechAdvances
<1>s. Speech!Passing => \A u \in Speech!Utterances : s1[u] \in {"silent", "done"} \/ (s10.cut /\ s1[u] = "worker")
  BY <1>a DEF SpeechStill
<1>k. "refinements" \notin Speech!Segments /\ "final" \notin Speech!Segments /\ "status" \notin Speech!Segments
  BY DEF Speech!Segments
<1>2. /\ ~Speech!Passing =>
           /\ ~s10.cut /\ ~s13
           /\ \A u \in Speech!Utterances : s12[u] # "final"
           /\ \A i \in 1..Len(s8) : s8[i].kind \notin {"final", "status"}
      /\ \A i, j \in 1..Len(s8) : s8[i].kind = "refinements" /\ s8[j].kind = "final" => i < j
      /\ ~s10.cut =>
           /\ \A i, j \in 1..Len(s8) : s8[i].kind = "final" /\ s8[j].kind \in Speech!Segments => j < i
           /\ \A i \in 1..Len(s8) : s8[i].kind = "status" => i = Len(s8) /\ s10.at = "ended"
           /\ s13 => s10.at = "ended" /\ \A i \in 1..Len(s8) : s8[i].kind = "status"
  BY DEF Speech!PassHolds, Speech!Segment
<1>3. /\ ~Speech!Passing' =>
           /\ ~s10'.cut /\ ~s13'
           /\ \A u \in Speech!Utterances : s12'[u] # "final"
           /\ \A i \in 1..Len(s8') : s8'[i].kind \notin {"final", "status"}
      /\ \A i, j \in 1..Len(s8') : s8'[i].kind = "refinements" /\ s8'[j].kind = "final" => i < j
      /\ ~s10'.cut =>
           /\ \A i, j \in 1..Len(s8') : s8'[i].kind = "final" /\ s8'[j].kind \in Speech!Segments => j < i
           /\ \A i \in 1..Len(s8') : s8'[i].kind = "status" => i = Len(s8') /\ s10'.at = "ended"
           /\ s13' => s10'.at = "ended" /\ \A i \in 1..Len(s8') : s8'[i].kind = "status"
      => Speech!PassHolds'
  <2>1. (Speech!Passing => \A u \in Speech!Utterances :
           s1[u] \in {"silent", "done"} \cup (IF s10.cut THEN {"worker"} ELSE {}))'
    BY <1>p
  <2> QED  BY <2>1 DEF Speech!PassHolds, Speech!Segment, Speech!Segments
<1>4. ASSUME UNCHANGED <<s8, s12, s13>>  PROVE Speech!PassHolds'
  <2>1. CASE Speech!Passing <=> Speech!Passing'
    BY <1>2, <1>3, <1>4, <1>p, <2>1
  <2>2. CASE Speech!Passing' /\ ~Speech!Passing
    BY <1>2, <1>3, <1>4, <1>p, <2>2
  <2> QED  BY <2>1, <2>2, <1>p
<1>5. ASSUME SpeechPutting, NEW kind \in Speech!Kinds, NEW v \in 0..N, Speech!Put(kind, v),
             kind \notin {"final", "status"} => \E u \in Speech!Utterances : s1[u] \in {"waiting", "worker", "refining"},
             kind = "refinements" => \E u \in Speech!Utterances : s1[u] = "refining",
             kind = "final" => s10.at = "pass" /\ s10'.at = "pass",
             kind = "status" => s10.at = "pass" /\ s10'.at = "ended",
             ~Speech!StartPass
      PROVE  Speech!PassHolds'
  <2>1. /\ Len(s8') = Len(s8) + 1
        /\ \A i \in 1..Len(s8') : \/ i \in 1..Len(s8) /\ s8'[i] = s8[i]
                                  \/ i = Len(s8') /\ s8'[i].kind = kind
    <3>1. /\ Len(s8') = Len(s8) + 1
          /\ \A i \in 1..Len(s8') : \/ i \in 1..Len(s8) /\ s8'[i] = s8[i]
                                    \/ i = Len(s8') /\ s8'[i].kind = kind /\ s8'[i].u = v /\ s8'[i] = [kind |-> kind, u |-> v]
      BY <1>5, SpeechAppended
    <3> QED  BY <3>1
  <2>2. s12' = s12 /\ s13' = s13  BY <1>5 DEF SpeechPutting
  <2>3. (Speech!Passing <=> Speech!Passing') /\ s10'.cut = s10.cut  BY <1>5, <1>p
  <2>4. kind = "refinements" => ~Speech!Passing  BY <1>5, <1>s
  <2>5. ~s10.cut /\ Speech!Passing => kind \in {"final", "status"} /\ s10.at = "pass"  BY <1>5, <1>s
  <2>6. kind \in {"final", "status"} => Speech!Passing  BY <1>5 DEF Speech!Passing
  <2>7. ASSUME ~Speech!Passing'
        PROVE  /\ ~s10'.cut /\ ~s13'
               /\ \A u \in Speech!Utterances : s12'[u] # "final"
               /\ \A i \in 1..Len(s8') : s8'[i].kind \notin {"final", "status"}
    <3>1. \A i \in 1..Len(s8') : s8'[i].kind \notin {"final", "status"}  BY <2>1, <2>3, <2>6, <2>7, <1>2
    <3> QED  BY <3>1, <2>2, <2>3, <2>7, <1>2
  <2>8. ASSUME NEW i \in 1..Len(s8'), NEW j \in 1..Len(s8'), s8'[i].kind = "refinements", s8'[j].kind = "final"
        PROVE  i < j
    <3>1. CASE j \in 1..Len(s8) /\ s8'[j] = s8[j]
      <4>1. Speech!Passing  BY <3>1, <2>8, <1>2
      <4>2. i \in 1..Len(s8) /\ s8'[i] = s8[i]  BY <4>1, <2>4, <2>1, <2>8
      <4> QED  BY <3>1, <4>2, <2>8, <1>2
    <3>2. CASE j = Len(s8') /\ s8'[j].kind = kind
      BY <3>2, <2>8, <2>1, <1>t
    <3> QED  BY <3>1, <3>2, <2>1
  <2>9. ASSUME ~s10'.cut
        PROVE  /\ \A i, j \in 1..Len(s8') : s8'[i].kind = "final" /\ s8'[j].kind \in Speech!Segments => j < i
               /\ \A i \in 1..Len(s8') : s8'[i].kind = "status" => i = Len(s8') /\ s10'.at = "ended"
               /\ s13' => s10'.at = "ended" /\ \A i \in 1..Len(s8') : s8'[i].kind = "status"
    <3>1. ASSUME NEW i \in 1..Len(s8'), NEW j \in 1..Len(s8'), s8'[i].kind = "final", s8'[j].kind \in Speech!Segments
          PROVE  j < i
      <4>1. CASE i \in 1..Len(s8) /\ s8'[i] = s8[i]
        <5>1. Speech!Passing  BY <4>1, <3>1, <1>2
        <5>2. kind \notin Speech!Segments  BY <5>1, <2>3, <2>5, <2>9, <1>k
        <5>3. j \in 1..Len(s8) /\ s8'[j] = s8[j]  BY <5>2, <3>1, <2>1
        <5> QED  BY <4>1, <5>3, <3>1, <2>3, <2>9, <1>2
      <4>2. CASE i = Len(s8') /\ s8'[i].kind = kind
        <5>1. j # i  BY <3>1, <1>k
        <5> QED  BY <4>2, <5>1, <2>1, <1>t
      <4> QED  BY <4>1, <4>2, <2>1
    <3>2. ASSUME NEW i \in 1..Len(s8'), s8'[i].kind = "status"  PROVE i = Len(s8') /\ s10'.at = "ended"
      <4>1. CASE i \in 1..Len(s8) /\ s8'[i] = s8[i]
        <5>1. s10.at = "ended"  BY <4>1, <3>2, <2>3, <2>9, <1>2
        <5>2. Speech!Passing  BY <5>1 DEF Speech!Passing
        <5> QED  BY <5>1, <5>2, <2>5, <2>3, <2>9
      <4>2. CASE i = Len(s8') /\ s8'[i].kind = kind
        BY <4>2, <3>2, <1>5
      <4> QED  BY <4>1, <4>2, <2>1
    <3>3. ~s13'
      <4> SUFFICES ASSUME s13'  PROVE FALSE
        BY <1>t, <2>2
      <4>1. s10.at = "ended"  BY <2>2, <2>3, <2>9, <1>2
      <4>2. Speech!Passing  BY <4>1 DEF Speech!Passing
      <4> QED  BY <4>1, <4>2, <2>5, <2>3, <2>9
    <3> QED  BY <3>1, <3>2, <3>3
  <2> QED  BY <2>7, <2>8, <2>9, <1>3
<1>6. ASSUME SpeechLeaving  PROVE Speech!PassHolds'
  <2>1. PICK n \in 0..Len(s8) : /\ Len(s8') = Len(s8) - n
                                /\ \A i \in 1..Len(s8') : i + n \in 1..Len(s8) /\ s8'[i] = s8[i + n]
    BY <1>6, SpeechLeft
  <2>2. s12' = s12 /\ s13' = s13 /\ s10' = s10  BY <1>6 DEF SpeechLeaving
  <2>3. Speech!Passing' <=> Speech!Passing  BY <2>2 DEF Speech!Passing
  <2>4. \A i, j \in 1..Len(s8') : s8'[i].kind = "refinements" /\ s8'[j].kind = "final" => i < j
    <3>1. ASSUME NEW i \in 1..Len(s8'), NEW j \in 1..Len(s8'), s8'[i].kind = "refinements", s8'[j].kind = "final"
          PROVE  i < j
      <4>1. i + n < j + n  BY <3>1, <2>1, <1>2
      <4> QED  BY <4>1
    <3> QED  BY <3>1
  <2>5. ASSUME ~s10.cut, NEW i \in 1..Len(s8'), NEW j \in 1..Len(s8'), s8'[i].kind = "final",
               s8'[j].kind \in Speech!Segments
        PROVE  j < i
    <3>1. j + n < i + n  BY <2>5, <2>1, <1>2
    <3> QED  BY <3>1
  <2>6. ASSUME ~s10.cut, NEW i \in 1..Len(s8'), s8'[i].kind = "status"  PROVE i = Len(s8') /\ s10.at = "ended"
    <3>1. i + n = Len(s8) /\ s10.at = "ended"  BY <2>6, <2>1, <1>2
    <3> QED  BY <3>1, <2>1, <1>t
  <2>7. ASSUME ~s10.cut, s13  PROVE s10.at = "ended" /\ \A i \in 1..Len(s8') : s8'[i].kind = "status"
    BY <2>7, <2>1, <1>2
  <2>8. ~Speech!Passing => \A i \in 1..Len(s8') : s8'[i].kind \notin {"final", "status"}
    BY <2>1, <1>2
  <2> QED  BY <2>2, <2>3, <2>4, <2>5, <2>6, <2>7, <2>8, <1>2, <1>3
<1>7. ASSUME Speech!Arrive  PROVE Speech!PassHolds'
  <2>1. /\ s9.items \in 1..Len(s8) /\ s8' = s8 /\ s10' = s10
        /\ s13' = (s13 \/ s8[1] = [kind |-> "status", u |-> 0])
        /\ \A u \in Speech!Utterances : s12'[u] = "final" =>
             s12[u] = "final" \/ \E i \in 1..s9.items : s8[i] = [kind |-> "final", u |-> u]
    BY <1>7, SpeechArrived
  <2>2. Speech!Passing' <=> Speech!Passing  BY <2>1 DEF Speech!Passing
  <2>3. 1 \in 1..Len(s8) /\ 1..s9.items \subseteq 1..Len(s8)  BY <2>1, <1>t
  <2>4. s8[1] = [kind |-> "status", u |-> 0] => s8[1].kind = "status"  OBVIOUS
  <2>5. \A u, i : s8[i] = [kind |-> "final", u |-> u] => s8[i].kind = "final"  OBVIOUS
  <2>6. ASSUME ~Speech!Passing  PROVE ~s13' /\ \A u \in Speech!Utterances : s12'[u] # "final"
    <3>1. ~s13'  BY <2>6, <2>1, <2>3, <2>4, <1>2
    <3>2. \A u \in Speech!Utterances : s12'[u] # "final"
      <4>1. \A i \in 1..s9.items : s8[i].kind # "final"  BY <2>6, <2>3, <1>2
      <4>2. ASSUME NEW u \in Speech!Utterances, s12'[u] = "final"  PROVE FALSE
        <5>1. s12[u] # "final"  BY <2>6, <1>2
        <5>2. PICK i \in 1..s9.items : s8[i] = [kind |-> "final", u |-> u]  BY <5>1, <4>2, <2>1
        <5> QED  BY <5>2, <4>1
      <4> QED  BY <4>2
    <3> QED  BY <3>1, <3>2
  <2>7. ASSUME ~s10.cut, s13'  PROVE s10.at = "ended" /\ \A i \in 1..Len(s8) : s8[i].kind = "status"
    <3>1. CASE s13
      BY <3>1, <2>7, <1>2
    <3>2. CASE s8[1].kind = "status"
      <4>1. Len(s8) = 1 /\ s10.at = "ended"  BY <3>2, <2>3, <2>7, <1>2
      <4>2. \A i \in 1..Len(s8) : i = 1
        <5>1. PICK l \in Nat : l = Len(s8)  BY <1>t
        <5>2. l = 1 /\ \A i \in 1..l : i = 1  BY <5>1, <4>1
        <5> QED  BY <5>1, <5>2
      <4> QED  BY <4>1, <4>2, <3>2
    <3> QED  BY <3>1, <3>2, <2>1, <2>4, <2>7
  <2> QED  BY <2>1, <2>2, <2>6, <2>7, <1>2, <1>3
<1>8. ASSUME SpeechPutting, ~Speech!StartPass  PROVE Speech!PassHolds'
  <2>1. s12' = s12 /\ s13' = s13  BY <1>8 DEF SpeechPutting
  <2>2. CASE s8' = s8
    BY <2>1, <2>2, <1>4
  <2>3. CASE s8' # s8
    BY <2>3, <1>8, <1>5 DEF SpeechPutting
  <2> QED  BY <2>2, <2>3
<1>9. ASSUME Speech!StartPass \/ Speech!Send \/ Speech!Retry  PROVE Speech!PassHolds'
  <2>1. UNCHANGED <<s8, s12, s13>>  BY <1>9 DEF Speech!StartPass, Speech!Send, Speech!Retry, Speech!server
  <2> QED  BY <2>1, <1>4
<1> QED  BY <1>6, <1>7, <1>8, <1>9, SpeechMoves

\* What is stored stays where it is when more is stored.
LEMMA SpeechLonger ==
  ASSUME NEW a \in Seq(Speech!Utterances), NEW g \in Seq(0..N)
  PROVE  \A i \in 1..Len(a) : i \in DOMAIN (a \o g) /\ (a \o g)[i] = a[i]
OBVIOUS

\* A text that is final stands: a refinement that is still under way has it with it.
LEMMA FinalStep ==
  ASSUME Speech!TypeOK, Speech!RoutesHold, Speech!PassHolds, Speech!FinalHolds, [Speech!Next]_(Speech!vars)
  PROVE  /\ Speech!FinalHolds'
         /\ \A u \in 1..N : s12[u] = "final" => s12'[u] = "final"
<1> DEFINE Same(q, n) == \A i \in 1..n : Speech!Key(q[i].kind) = Speech!Key(q[1].kind)
           Final(u) == [kind |-> "final", u |-> u]
           Refinement(u) == [kind |-> "refinements", u |-> u]
<1>t. MaxBatch \in Nat \ {0} /\ Len(s8) \in Nat /\ s9.items \in 0..Len(s8) /\ s9 \in [items : 0..Len(s8), arrived : BOOLEAN]
  BY BackgroundAssumption DEF Speech!TypeOK
<1>1. /\ Same(s8, s9.items) /\ s9.items <= MaxBatch
      /\ s9.items > 0 /\ s8[1].kind = "status" => s9.items = 1
      /\ \A u \in Speech!Utterances : s12[u] = "final" =>
           /\ u \in Speech!Range(s11)
           /\ \A i \in 1..Len(s8) : s8[i] = Refinement(u) =>
                \E j \in (i + 1)..Len(s8) : s8[j] = Final(u) /\ j <= MaxBatch /\ Same(s8, j) /\ (s9.items > 0 => j <= s9.items)
  BY DEF Speech!FinalHolds, Speech!OneKey
<1>2. /\ Same(s8', s9'.items) /\ s9'.items <= MaxBatch
      /\ s9'.items > 0 /\ s8'[1].kind = "status" => s9'.items = 1
      /\ \A u \in Speech!Utterances : s12'[u] = "final" =>
           /\ u \in Speech!Range(s11')
           /\ \A i \in 1..Len(s8') : s8'[i] = Refinement(u) =>
                \E j \in (i + 1)..Len(s8') : s8'[j] = Final(u) /\ j <= MaxBatch /\ Same(s8', j) /\ (s9'.items > 0 => j <= s9'.items)
      => Speech!FinalHolds'
  BY DEF Speech!FinalHolds, Speech!OneKey, Speech!Key, Speech!Range, Speech!Segments
<1>k. /\ \A u : Final(u).kind = "final" /\ Refinement(u).kind = "refinements"
      /\ Speech!Key("refinements") = "refinements" /\ Speech!Key("final") = "refinements"
      /\ Speech!Key("status") = "status"
  BY DEF Speech!Key, Speech!Segments
<1>h. /\ ~Speech!Passing => \A u \in Speech!Utterances : s12[u] # "final"
      /\ \A i, j \in 1..Len(s8) : s8[i].kind = "refinements" /\ s8[j].kind = "final" => i < j
      /\ SpeechStill
  BY SpeechStillHolds DEF Speech!PassHolds
<1>3. ASSUME SpeechPutting
      PROVE  Speech!FinalHolds' /\ \A u \in 1..N : s12[u] = "final" => s12'[u] = "final"
  <2>1. UNCHANGED <<s9, s11, s12>>  BY <1>3 DEF SpeechPutting
  <2>2. CASE s8' = s8
    BY <2>1, <2>2, <1>1, <1>2
  <2>3. ASSUME NEW kind \in Speech!Kinds, NEW v \in 0..N, Speech!Put(kind, v),
               kind = "refinements" => \E u \in Speech!Utterances : s1[u] = "refining"
        PROVE  Speech!FinalHolds'
    <3>1. /\ Len(s8') = Len(s8) + 1
          /\ \A i \in 1..Len(s8') : \/ i \in 1..Len(s8) /\ s8'[i] = s8[i]
                                    \/ i = Len(s8') /\ s8'[i].kind = kind
      <4>1. /\ Len(s8') = Len(s8) + 1
            /\ \A i \in 1..Len(s8') : \/ i \in 1..Len(s8) /\ s8'[i] = s8[i]
                                      \/ i = Len(s8') /\ s8'[i].kind = kind /\ s8'[i].u = v /\ s8'[i] = [kind |-> kind, u |-> v]
        BY <2>3, SpeechAppended
      <4> QED  BY <4>1
    <3>2. \A i \in 1..Len(s8) : s8'[i] = s8[i] /\ i \in 1..Len(s8')
      <4>1. \A i \in 1..Len(s8) : i \in 1..Len(s8') /\ i # Len(s8')  BY <3>1, <1>t
      <4> QED  BY <4>1, <3>1
    <3>3. \A n \in 0..Len(s8) : Same(s8, n) => Same(s8', n)
      <4>1. ASSUME NEW n \in 0..Len(s8), Same(s8, n)  PROVE Same(s8', n)
        <5>1. \A i \in 1..n : i \in 1..Len(s8) /\ 1 \in 1..Len(s8)  BY <1>t
        <5> QED  BY <5>1, <4>1, <3>2
      <4> QED  BY <4>1
    <3>4. ASSUME s9.items > 0, s8'[1].kind = "status"  PROVE s9.items = 1
      <4>1. 1 \in 1..Len(s8)  BY <3>4, <1>t
      <4> QED  BY <4>1, <3>4, <3>2, <1>1
    <3>5. ASSUME NEW u \in Speech!Utterances, s12[u] = "final", NEW i \in 1..Len(s8'), s8'[i] = Refinement(u)
          PROVE  \E j \in (i + 1)..Len(s8') : s8'[j] = Final(u) /\ j <= MaxBatch /\ Same(s8', j) /\ (s9.items > 0 => j <= s9.items)
      <4>1. Speech!Passing  BY <3>5, <1>h
      <4>2. kind # "refinements"  BY <4>1, <2>3, <1>h DEF SpeechStill
      <4>3. i \in 1..Len(s8) /\ s8[i] = Refinement(u)  BY <4>2, <3>5, <3>1, <1>k
      <4>4. PICK j \in (i + 1)..Len(s8) : s8[j] = Final(u) /\ j <= MaxBatch /\ Same(s8, j) /\ (s9.items > 0 => j <= s9.items)
        BY <4>3, <3>5, <1>1
      <4>5. j \in 1..Len(s8) /\ j \in (i + 1)..Len(s8') /\ j \in 0..Len(s8)  BY <4>3, <4>4, <3>1, <1>t
      <4> QED  BY <4>4, <4>5, <3>2, <3>3
    <3>6. Same(s8', s9.items)  BY <3>3, <1>1, <1>t
    <3> HIDE DEF Same, Final, Refinement
    <3> QED  BY <2>1, <3>4, <3>5, <3>6, <1>1, <1>2
  <2> QED  BY <1>3, <2>1, <2>2, <2>3 DEF SpeechPutting
<1>4. ASSUME SpeechLeaving
      PROVE  Speech!FinalHolds' /\ \A u \in 1..N : s12[u] = "final" => s12'[u] = "final"
  <2>1. PICK n \in 0..Len(s8) : /\ Len(s8') = Len(s8) - n
                                /\ \A i \in 1..Len(s8') : i + n \in 1..Len(s8) /\ s8'[i] = s8[i + n]
    BY <1>4, SpeechLeft
  <2>2. s12' = s12 /\ s11' = s11 /\ s9' = Speech!NoFlight  BY <1>4 DEF SpeechLeaving
  <2>3. s9'.items = 0  BY <2>2 DEF Speech!NoFlight
  <2>4. ASSUME NEW u \in Speech!Utterances, s12[u] = "final", NEW i \in 1..Len(s8'), s8'[i] = Refinement(u)
        PROVE  \E j \in (i + 1)..Len(s8') : s8'[j] = Final(u) /\ j <= MaxBatch /\ Same(s8', j)
    <3>1. i + n \in 1..Len(s8) /\ s8[i + n] = Refinement(u)  BY <2>4, <2>1
    <3>2. PICK k \in (i + n + 1)..Len(s8) : s8[k] = Final(u) /\ k <= MaxBatch /\ Same(s8, k)  BY <3>1, <2>4, <1>1
    <3>3. PICK j \in (i + 1)..Len(s8') : j = k - n  BY <3>2, <2>1, <1>t
    <3>4. j + n = k /\ j \in 1..Len(s8') /\ 1 \in 1..Len(s8')  BY <3>2, <3>3, <2>4, <2>1, <1>t
    <3>5. s8'[j] = Final(u) /\ j <= MaxBatch  BY <3>2, <3>3, <3>4, <2>1, <1>t
    <3>6. ASSUME NEW l \in 1..j  PROVE Speech!Key(s8'[l].kind) = Speech!Key(s8'[1].kind)
      <4>1. l \in 1..Len(s8') /\ l + n \in 1..k /\ 1 + n \in 1..k  BY <3>3, <3>4, <3>2, <1>t
      <4>2. s8'[l] = s8[l + n] /\ s8'[1] = s8[1 + n]  BY <4>1, <3>4, <2>1
      <4> QED  BY <4>1, <4>2, <3>2
    <3> QED  BY <3>5, <3>6
  <2>5. Same(s8', s9'.items) /\ s9'.items <= MaxBatch  BY <2>3, <1>t
  <2> HIDE DEF Same, Final, Refinement
  <2> QED  BY <2>2, <2>3, <2>4, <2>5, <1>1, <1>2
<1>5. ASSUME Speech!Send
      PROVE  Speech!FinalHolds' /\ \A u \in 1..N : s12[u] = "final" => s12'[u] = "final"
  <2>1. s8' = s8 /\ s11' = s11 /\ s12' = s12 /\ s9.items = 0
    BY <1>5 DEF Speech!Send, Speech!server, Speech!NoFlight
  <2>2. PICK n \in 1..Len(s8) : Speech!Batch(n) /\ s9' = [items |-> n, arrived |-> FALSE]  BY <1>5 DEF Speech!Send
  <2>3. s9'.items = n  BY <2>2
  <2>4. IF s8[1].kind = "status" THEN n = 1
        ELSE n <= MaxBatch /\ Same(s8, n) /\ ~(n < MaxBatch /\ n < Len(s8) /\ Same(s8, n + 1))
    BY <2>2 DEF Speech!Batch, Speech!OneKey
  <2>5. ASSUME NEW u \in Speech!Utterances, s12[u] = "final", NEW i \in 1..Len(s8), s8[i] = Refinement(u)
        PROVE  \E j \in (i + 1)..Len(s8) : s8[j] = Final(u) /\ j <= MaxBatch /\ Same(s8, j) /\ j <= n
    <3>1. PICK j \in (i + 1)..Len(s8) : s8[j] = Final(u) /\ j <= MaxBatch /\ Same(s8, j)  BY <2>5, <1>1
    <3>2. s8[1].kind # "status"
      <4>1. j \in 1..j  BY <3>1, <1>t
      <4>2. Speech!Key(s8[j].kind) = Speech!Key(s8[1].kind)  BY <3>1, <4>1
      <4> QED  BY <3>1, <4>2, <1>k
    <3>3. j <= n
      <4> SUFFICES ASSUME n < j  PROVE FALSE
        BY <3>1, <1>t
      <4>1. n < MaxBatch /\ n < Len(s8) /\ 1..(n + 1) \subseteq 1..j  BY <3>1, <1>t
      <4>2. Same(s8, n + 1)  BY <4>1, <3>1
      <4> QED  BY <4>1, <4>2, <3>2, <2>4
    <3> QED  BY <3>1, <3>3
  <2>6. Same(s8', s9'.items) /\ s9'.items <= MaxBatch /\ (s9'.items > 0 /\ s8'[1].kind = "status" => s9'.items = 1)
    BY <2>1, <2>3, <2>4, <1>t
  <2> HIDE DEF Same, Final, Refinement
  <2> QED  BY <2>1, <2>3, <2>5, <2>6, <1>1, <1>2
<1>6. ASSUME Speech!Retry
      PROVE  Speech!FinalHolds' /\ \A u \in 1..N : s12[u] = "final" => s12'[u] = "final"
  <2>1. s8' = s8 /\ s11' = s11 /\ s12' = s12 /\ s9'.items = 0
    BY <1>6 DEF Speech!Retry, Speech!server, Speech!NoFlight
  <2>2. Same(s8', s9'.items) /\ s9'.items <= MaxBatch  BY <2>1, <1>t
  <2> HIDE DEF Same, Final, Refinement
  <2> QED  BY <2>1, <2>2, <1>1, <1>2
<1>7. ASSUME Speech!Arrive
      PROVE  Speech!FinalHolds' /\ \A u \in 1..N : s12[u] = "final" => s12'[u] = "final"
  <2>1. /\ s9.items \in 1..Len(s8) /\ s8' = s8 /\ s9'.items = s9.items
        /\ \A u \in Speech!Utterances : s12'[u] = "final" =>
             /\ u \in Speech!Range(s11)
             /\ s12[u] = "final" \/ \E i \in 1..s9.items : s8[i] = Final(u)
        /\ \A u \in Speech!Utterances : s12[u] = "final" /\ u \in Speech!Range(s11) =>
             \/ s12'[u] = "final"
             \/ /\ \E i \in 1..s9.items : s8[i] = Refinement(u)
                /\ \A i \in 1..s9.items : s8[i] # Final(u)
    BY <1>7, SpeechArrived
  <2>2. ASSUME NEW u \in Speech!Utterances, s12[u] = "final"  PROVE s12'[u] = "final"
    <3> SUFFICES ASSUME NEW i \in 1..s9.items, s8[i] = Refinement(u), \A l \in 1..s9.items : s8[l] # Final(u)
                 PROVE  FALSE
      BY <2>1, <2>2, <1>1
    <3>1. i \in 1..Len(s8) /\ s9.items > 0  BY <1>t
    <3>2. PICK j \in (i + 1)..Len(s8) : s8[j] = Final(u) /\ j <= s9.items  BY <3>1, <2>2, <1>1
    <3>3. j \in 1..s9.items  BY <3>1, <3>2, <1>t
    <3> QED  BY <3>2, <3>3
  <2>3. Speech!Range(s11) \subseteq Speech!Range(s11')
    <3>1. s11 \in Seq(Speech!Utterances)  BY DEF Speech!TypeOK
    <3>2. PICK n \in Nat : \E f \in [1..n -> 1..s9.items] : s11' = s11 \o [i \in 1..n |-> s8[f[i]].u]
      BY <1>7, SpeechIngested
    <3>3. PICK f \in [1..n -> 1..s9.items] : s11' = s11 \o [i \in 1..n |-> s8[f[i]].u]  BY <3>2
    <3>4. PICK g : g = [i \in 1..n |-> s8[f[i]].u]  OBVIOUS
    <3>5. \A i \in 1..n : s8[f[i]].u \in 0..N
      <4>1. s8 \in Seq(Speech!Item)  BY DEF Speech!TypeOK
      <4>2. \A i \in 1..n : f[i] \in 1..Len(s8)  BY <1>t
      <4>3. \A i \in 1..n : s8[f[i]] \in Speech!Item  BY <4>1, <4>2
      <4> QED  BY <4>3 DEF Speech!Item
    <3>6. g \in Seq(0..N) /\ s11' = s11 \o g  BY <3>3, <3>4, <3>5
    <3>7. \A i \in 1..Len(s11) : i \in DOMAIN s11' /\ s11'[i] = s11[i]  BY <3>1, <3>6, SpeechLonger
    <3> QED  BY <3>1, <3>7 DEF Speech!Range
  <2>4. ASSUME NEW u \in Speech!Utterances, s12'[u] = "final", NEW i \in 1..Len(s8), s8[i] = Refinement(u)
        PROVE  \E j \in (i + 1)..Len(s8) : s8[j] = Final(u) /\ j <= MaxBatch /\ Same(s8, j) /\ j <= s9.items
    <3>1. CASE s12[u] = "final"
      BY <3>1, <2>4, <2>1, <1>1
    <3>2. CASE \E j \in 1..s9.items : s8[j] = Final(u)
      <4>1. PICK j \in 1..s9.items : s8[j] = Final(u)  BY <3>2
      <4>2. j \in 1..Len(s8) /\ 1..j \subseteq 1..s9.items /\ j <= s9.items /\ j <= MaxBatch  BY <4>1, <1>1, <1>t
      <4>3. i < j  BY <4>1, <4>2, <2>4, <1>h, <1>k
      <4>4. j \in (i + 1)..Len(s8)  BY <4>2, <4>3
      <4>5. Same(s8, j)  BY <4>2, <1>1
      <4> QED  BY <4>1, <4>2, <4>4, <4>5
    <3> QED  BY <3>1, <3>2, <2>1, <2>4
  <2>5. \A u \in Speech!Utterances : s12'[u] = "final" => u \in Speech!Range(s11')  BY <2>1, <2>3
  <2>6. \A u \in 1..N : s12[u] = "final" => s12'[u] = "final"  BY <2>2 DEF Speech!Utterances
  <2> HIDE DEF Same, Final, Refinement
  <2> QED  BY <2>1, <2>4, <2>5, <2>6, <1>1, <1>2
<1> QED  BY <1>3, <1>4, <1>5, <1>6, <1>7, SpeechMoves

\* At the beginning nothing is said, queued or stored.
LEMMA SpeechInit == Speech!Init => Speech!TranscriptHolds
<1> SUFFICES ASSUME Speech!Init  PROVE Speech!TranscriptHolds
  OBVIOUS
<1> USE BackgroundAssumption DEF Speech!Init
<1>1. Speech!TypeOK
  <2>1. s1 \in [Speech!Utterances -> Speech!Phase]  BY DEF Speech!Phase
  <2>7. s2 \in [Speech!Utterances -> 0..N] /\ s3 \in 0..N  OBVIOUS
  <2>8. s12 \in [Speech!Utterances -> {"none", "tier1", "tier2", "final"}] /\ s13 \in BOOLEAN  OBVIOUS
  <2>2. /\ s4 \in [asked : SUBSET Speech!Utterances, decoded : SUBSET Speech!Utterances]
        /\ s5 \subseteq Speech!Utterances /\ s7 \subseteq Speech!Utterances
    OBVIOUS
  <2>3. /\ s6 \in Seq(Speech!Utterances) /\ s11 \in Seq(Speech!Utterances) /\ s8 \in Seq(Speech!Item) /\ Len(s8) = 0
    OBVIOUS
  <2>4. s9 \in [items : 0..Len(s8), arrived : BOOLEAN]  BY <2>3 DEF Speech!NoFlight
  <2>5. s10 \in [at : {"off", "drain", "pass", "ended"}, todo : SUBSET Speech!Utterances, ok : BOOLEAN, cut : BOOLEAN]
    OBVIOUS
  <2>6. s14 \in [outages : 0..Outages, losses : 0..Losses]  OBVIOUS
  <2> QED  BY <2>1, <2>7, <2>8, <2>2, <2>3, <2>4, <2>5, <2>6 DEF Speech!TypeOK
<1>2. Speech!Range(s6) = {} /\ Speech!Range(s11) = {} /\ Len(s6) = 0 /\ Len(s11) = 0 /\ Len(s8) = 0
  BY DEF Speech!Range
<1>3. Speech!RoutesHold  BY <1>2 DEF Speech!RoutesHold
<1>4. Speech!TurnsHold  BY DEF Speech!TurnsHold, Speech!Posted
<1>5. Speech!StoredAsSpoken /\ Speech!SegmentsHold  BY <1>2 DEF Speech!StoredAsSpoken, Speech!SegmentsHold
<1>6. Speech!PassHolds  BY <1>2 DEF Speech!PassHolds, Speech!Passing
<1>7. Speech!FinalHolds  BY <1>2 DEF Speech!FinalHolds, Speech!NoFlight
<1> QED  BY <1>1, <1>3, <1>4, <1>5, <1>6, <1>7 DEF Speech!TranscriptHolds

\* Every step keeps all of it.
LEMMA SpeechStep ==
  ASSUME Speech!TranscriptHolds, [Speech!Next]_(Speech!vars)
  PROVE  /\ Speech!TranscriptHolds'
         /\ \A u \in 1..N : s12[u] = "final" => s12'[u] = "final"
BY SpeechTyped, RoutesStep, TurnsStep, SegmentsStep, PassStep, FinalStep DEF Speech!TranscriptHolds

\* When the pass is heard to be done nothing is under way.
LEMMA SpeechInOrder ==
  ASSUME Speech!TranscriptHolds
  PROVE  Speech!SpeechKept
<1>1. Speech!StoredAsSpoken  BY DEF Speech!TranscriptHolds
<1>2. Len(s8) \in Nat /\ s9.items \in 0..Len(s8)  BY DEF Speech!TranscriptHolds, Speech!TypeOK
<1>3. Speech!PassHolds  BY DEF Speech!TranscriptHolds
<1>4. ASSUME ~s10.cut, s13  PROVE Speech!NothingUnderWay
  <2>1. \A i \in 1..Len(s8) : s8[i].kind = "status"  BY <1>3, <1>4 DEF Speech!PassHolds
  <2>2. Speech!Passing  BY <1>3, <1>4 DEF Speech!PassHolds
  <2>3. \A u \in Speech!Utterances : s1[u] \in {"silent", "done"}  BY <1>3, <1>4, <2>2 DEF Speech!PassHolds
  <2>4. \A i \in (s9.items + 1)..Len(s8) : i \in 1..Len(s8)  BY <1>2
  <2> QED  BY <2>1, <2>3, <2>4 DEF Speech!NothingUnderWay
<1>5. ASSUME ~s10.cut, NEW i \in 1..Len(s8), NEW j \in 1..Len(s8), Speech!Follows(i, j)  PROVE j < i
  BY <1>3, <1>5 DEF Speech!PassHolds, Speech!Follows, Speech!Segment
<1> QED  BY <1>1, <1>4, <1>5 DEF Speech!SpeechKept, Speech!FinalPassInOrder

\* "Segments are posted in speaking order", the final pass in its order after
\* them, and its text stands: whatever order the answers of the speech service
\* and of the decoder come in, and whatever requests and replies are lost.
THEOREM SpeechKeptHolds == FairSpec => SpeechKept
<1> DEFINE Inv == part = "speech" => Speech!TranscriptHolds
<1>s. [Next]_vars => part' = part /\ (part = "speech" => [Speech!Next]_(Speech!vars))
  BY DEF Next, vars, slots, Speech!vars
<1>1. Init => Inv  BY SpeechInit DEF Init
<1>2. Inv /\ [Next]_vars => Inv'  BY <1>s, SpeechStep
<1>3. Inv => (part = "speech" => Speech!SpeechKept)  BY SpeechInOrder
<1>4. Inv /\ [Next]_vars => [part = "speech" => \A u \in 1..N : s12[u] = "final" => s12'[u] = "final"]_vars
  BY <1>s, SpeechStep
<1> QED  BY <1>1, <1>2, <1>3, <1>4, PTL DEF FairSpec, SpeechKept
=============================================================================
