--------------------------- MODULE ServicesProofs ---------------------------
(***************************************************************************)
(* What is proved of the behaviours of Services, for every value of the    *)
(* constants: the invariant of each part holds of the behaviours that are  *)
(* of this part.  That a part keeps its invariant is in SlotsProofs; for   *)
(* the limits, the stage, the speech service, the gateway, the moves and   *)
(* the decisions, whose instances or variables are those of Services, it   *)
(* is here.                                                                *)
(***************************************************************************)
EXTENDS Services, SlotsProofs

\* A step is a step of the part that the behaviour is of.
LEMMA StepOfPart ==
  ASSUME [ServicesNext]_all
  PROVE  /\ part' = part
         /\ part = "mail" => [Mail!Next]_(Mail!vars)
         /\ part = "billing" => [Bill!Next]_(Bill!vars)
         /\ part = "accounts" => [Account!Next]_(Account!vars)
         /\ part = "outputs" => [Out!Next]_(Out!vars)
         /\ part = "actions" => [Follow!Next]_(Follow!vars)
         /\ part = "talk" => [Chats!Next]_(Chats!vars)
         /\ part = "youtube" => [Tube!Next]_(Tube!vars)
         /\ part = "scribe" => [Agent!Next]_(Agent!vars)
         /\ part = "shelf" => [Kept!Next]_(Kept!vars)
         /\ part = "library" => [Videos!Next]_(Videos!vars)
         /\ part = "egress" => [Recorder!Next]_(Recorder!vars)
         /\ part = "destinations" => [Targets!Next]_(Targets!vars)
         /\ part = "rooms" => [Room!Next]_(Room!vars)
         /\ part = "defence" => [Defend!Next]_(Defend!vars)
         /\ part = "stage" => [OnStage!Next]_(OnStage!vars)
         /\ part = "service" => [Service!Next]_(Service!vars)
         /\ part = "model" => [Model!Next]_(Model!vars)
         /\ part = "advance" => [Moves!Next]_(Moves!vars)
<1>1. CASE ServicesNext  BY <1>1 DEF ServicesNext
<1>2. CASE UNCHANGED all
  BY <1>2 DEF all, slots, Mail!vars, Bill!vars, Bill!purchases, Bill!subscription, Account!vars, Out!vars,
     Follow!vars, Chats!vars, Tube!vars, Agent!vars, Kept!vars, Videos!vars, Recorder!vars, Recorder!livekit,
     Recorder!meeting, Targets!vars, Room!vars, Room!book, Room!livekit, Defend!vars, Defend!bucket,
     Defend!detector, Defend!list, OnStage!vars, Service!vars, Model!vars, Moves!vars
<1> QED  BY <1>1, <1>2

(* A captured order or a redeemed voucher extends the entitlement once, and *)
(* one that was not extends nothing, whatever calls cross: each claim is    *)
(* held by one call, and what it granted is counted with it.                *)
THEOREM CountsOnceHolds == ServicesSpec => []CountsOnce
<1> DEFINE Inv == part = "billing" => Bill!PurchasesHold
<1>1. ServicesInit => Inv  BY PurchasesInit DEF ServicesInit
<1>2. Inv /\ [ServicesNext]_all => Inv'  BY PurchasesStep, StepOfPart
<1>3. Inv => CountsOnce
  BY DEF CountsOnce, Bill!CountsOnce, Bill!PurchasesHold, Bill!ClaimHeldOnce, Bill!PurchaseTypes
<1> QED  BY <1>1, <1>2, <1>3, PTL DEF ServicesSpec

(* Requests one after the other never leave an account with a second        *)
(* factor that its owner does not have, whatever answers are lost; with     *)
(* every answer delivered the recovery codes are the owner's, whatever      *)
(* requests overlap: a request commits only the fields it set.              *)
THEOREM NotShutOutHolds == ServicesSpec => []NotShutOut
<1> DEFINE Inv == part = "accounts" => Account!AccountHolds
<1>1. ServicesInit => Inv  BY AccountInit DEF ServicesInit
<1>2. Inv /\ [ServicesNext]_all => Inv'  BY AccountStep, StepOfPart
<1>3. Inv => NotShutOut  BY DEF NotShutOut, Account!AccountHolds
<1> QED  BY <1>1, <1>2, <1>3, PTL DEF ServicesSpec

(* Every version up to the session's is listed and has its report, one room *)
(* is made for the next meeting, and the audio and the transcript are kept  *)
(* and deleted as decided, whatever requests fail, stop or cross.           *)
THEOREM OutputsWholeHolds == ServicesSpec => []OutputsWhole
<1> DEFINE Inv == part = "outputs" => Out!OutputsHold
<1>1. ServicesInit => Inv  BY OutputsInit DEF ServicesInit
<1>2. Inv /\ [ServicesNext]_all => Inv'  BY OutputsStep, StepOfPart
<1>3. Inv => OutputsWhole
  BY KeptOutputs DEF OutputsWhole
<1> QED  BY <1>1, <1>2, <1>3, PTL DEF ServicesSpec

(* A row is as a person left it, a closure of the AI's is confirmed once    *)
(* the checks are through, a report gives its action's status, and no       *)
(* action is listed twice, whatever happens while the model is asked: every *)
(* closure that waits is among what the second check asks about.            *)
THEOREM ActionsKeptHolds == ServicesSpec => []ActionsKept
<1> DEFINE Inv == part = "actions" => Follow!ActionsHold
<1>1. ServicesInit => Inv  BY ActionsInit DEF ServicesInit
<1>2. Inv /\ [ServicesNext]_all => Inv'  BY ActionsStep, StepOfPart
<1>3. Inv => ActionsKept  BY KeptActions DEF ActionsKept
<1> QED  BY <1>1, <1>2, <1>3, PTL DEF ServicesSpec

(* A closed poll stands, a cleared whiteboard takes strokes, a press on a   *)
(* question's arrow counts, and a message's picture is there, whatever      *)
(* requests cross.                                                          *)
THEOREM TalkKeptHolds == ServicesSpec => []TalkKept
<1> DEFINE Inv == part = "talk" => Chats!TalkHolds
<1>1. ServicesInit => Inv  BY TalkInit DEF ServicesInit
<1>2. Inv /\ [ServicesNext]_all => Inv'  BY TalkStep, StepOfPart
<1>3. Inv => TalkKept  BY KeptTalk DEF TalkKept
<1> QED  BY <1>1, <1>2, <1>3, PTL DEF ServicesSpec

(* At most one sitting is being prepared, held or finalised, and what a     *)
(* sitting said of an action, and decided, stands until it is published,    *)
(* whatever Mail pushes for another.                                        *)
THEOREM SittingsStandHolds == ServicesSpec => SittingsStand
<1> DEFINE Inv == part = "mail" => Mail!MailHolds
<1>1. ServicesInit => Inv  BY MailInit DEF ServicesInit
<1>2. Inv /\ [ServicesNext]_all => Inv'  BY MailStep, StepOfPart
<1>3. Inv /\ Inv' /\ [ServicesNext]_all
         => [part = "mail" => Mail!PushLeavesOutcome /\ Mail!OneLiveSitting']_all
  <2> SUFFICES ASSUME Inv', Inv, ServicesNext, part = "mail"
               PROVE  Mail!PushLeavesOutcome /\ Mail!OneLiveSitting'
    OBVIOUS
  <2>1. Mail!PushLeavesOutcome  BY MailOutcome DEF ServicesNext
  <2>2. Mail!OneLive'
    <3>1. [ServicesNext]_all  OBVIOUS
    <3>2. part' = "mail"  BY <3>1, StepOfPart
    <3> QED  BY <3>2 DEF Mail!MailHolds
  <2>3. Mail!OneLive' => Mail!OneLiveSitting'  BY LiveSitting, PTL
  <2> QED  BY <2>1, <2>2, <2>3
<1> QED  BY <1>1, <1>2, <1>3, PTL DEF ServicesSpec, SittingsStand

(* A broadcast that is still open when nothing is under way is the          *)
(* meeting's, whatever started, stopped, rotated or crashed in between,     *)
(* unless YouTube refused its end, its account was changed, or a task that  *)
(* had read the row before wrote another in its place: in between, an open  *)
(* broadcast is also the one that a rotation has just replaced.             *)
THEOREM BroadcastsEndHolds == ServicesSpec => []BroadcastsEnd
<1> DEFINE Inv == part = "youtube" => Tube!BroadcastsHold
<1>1. ServicesInit => Inv  BY TubeInit DEF ServicesInit
<1>2. Inv /\ [ServicesNext]_all => Inv'  BY BroadcastsStep, StepOfPart
<1>3. Inv => BroadcastsEnd  BY OpenNamed DEF BroadcastsEnd
<1> QED  BY <1>1, <1>2, <1>3, PTL DEF ServicesSpec

(* Every connection to the room is left by the object that made it or by    *)
(* whoever waits for it, an object that ended said "offline" last, and the  *)
(* room is empty when the session is over and no request was lost: a        *)
(* connection that is being made belongs to the registered object or to one *)
(* on its way out, and only one object ever talks.                          *)
THEOREM ScribeLeavesHolds == ServicesSpec => []ScribeLeaves
<1> DEFINE Inv == part = "scribe" => Agent!ScribeHolds
<1>1. ServicesInit => Inv  BY ScribeInit DEF ServicesInit
<1>2. Inv /\ [ServicesNext]_all => Inv'  BY ScribeStep, StepOfPart
<1>3. Inv => ScribeLeaves  BY LeftByAll DEF ScribeLeaves
<1> QED  BY <1>1, <1>2, <1>3, PTL DEF ServicesSpec

(* A recording is kept somewhere or was deleted, and a playlist has only    *)
(* videos that are there, with the lengths their rows have, served from the *)
(* first byte asked for to the last, whatever hooks, uploads and requests   *)
(* cross: the end of a recording is told of once, and what is linked has    *)
(* its row and its file unless a copy crossed the deletion.                 *)
THEOREM SomewhereOrDeletedHolds == ServicesSpec => []SomewhereOrDeleted
<1> DEFINE Inv == (part = "shelf" => Kept!ShelfHolds) /\ (part = "library" => Videos!LibraryHolds)
<1>1. ServicesInit => Inv  BY ShelfInit, LibraryInit DEF ServicesInit
<1>2. Inv /\ [ServicesNext]_all => Inv'  BY ShelfStep, LibraryStep, StepOfPart
<1>3. Inv => SomewhereOrDeleted  BY KeptLibrary DEF SomewhereOrDeleted, Kept!ShelfHolds
<1> QED  BY <1>1, <1>2, <1>3, PTL DEF ServicesSpec

(* The room never has two egresses running, its flags are the database's    *)
(* once nothing is under way, a stream that runs goes where the settings    *)
(* say and no destination told of the end is shown as streaming, however    *)
(* the requests, the pushes and the webhooks overtake one another: one      *)
(* caller is between its look and its flags, what the database names runs   *)
(* or is about to be told ended, and a push under way says what the         *)
(* settings say.                                                            *)
THEOREM RecorderKnownHolds == ServicesSpec => []RecorderKnown
<1> DEFINE Inv == (part = "egress" => Recorder!EgressHolds) /\ (part = "destinations" => Targets!DestinationsHold)
<1>1. ServicesInit => Inv  BY RecorderInit, TargetsInit DEF ServicesInit
<1>2. Inv /\ [ServicesNext]_all => Inv'  BY RecorderStep, TargetsStep, StepOfPart
<1>3. Inv => RecorderKnown  BY RecorderGives, TargetsGive DEF RecorderKnown
<1> QED  BY <1>1, <1>2, <1>3, PTL DEF ServicesSpec

(* With no webhook lost, repeated or handled during a refresh, the rows,    *)
(* and the Cafe's list, say who is in the room once none is on its way,     *)
(* however joins, leaves, refreshes and the end of the meeting cross: the   *)
(* last webhook on its way that tells of somebody says whether they are in  *)
(* the room, and of whom none tells, the row, the list or the answer a      *)
(* refresh waits with does.                                                 *)
THEOREM RoomKnownHolds == ServicesSpec => []RoomKnown
<1> DEFINE Inv == part = "rooms" => Room!RoomHolds
<1>1. ServicesInit => Inv  BY RoomInit DEF ServicesInit
<1>2. Inv /\ [ServicesNext]_all => Inv'  BY RoomStep, StepOfPart
<1>3. Inv => RoomKnown  BY RoomGives DEF RoomKnown
<1> QED  BY <1>1, <1>2, <1>3, PTL DEF ServicesSpec

-----------------------------------------------------------------------------
(* The addresses: the bucket and the block list.                            *)
LEMMA DefendSizes ==
  \A S : Defend!Cardinality(S) = Cardinality(S) /\ Defend!IsFiniteSet(S) = IsFiniteSet(S)
BY DEF Defend!Cardinality, Cardinality, Defend!IsFiniteSet, IsFiniteSet

LEMMA DefendBounds ==
  /\ Few \in Nat \ {0} /\ Some \in Nat
  /\ Defend!Times \subseteq Nat /\ Defend!NoStamp \in Nat /\ Defend!NoStamp \notin Defend!Times
BY BoundsAssumption DEF Defend!Times, Defend!NoStamp

\* Of a finite set, a part is no larger, and one more element makes one more at most.
LEMMA OneMoreAtMost ==
  ASSUME NEW S, NEW T, NEW x, IsFiniteSet(S), T \subseteq S \cup {x}
  PROVE  IsFiniteSet(T) /\ Cardinality(T) \in Nat /\ Cardinality(S) \in Nat /\ Cardinality(T) <= Cardinality(S) + 1
<1>1. IsFiniteSet(S \cup {x}) /\ Cardinality(S \cup {x}) <= Cardinality(S) + 1 /\ Cardinality(S \cup {x}) \in Nat
  <2>1. Cardinality(S \cup {x}) = IF x \in S THEN Cardinality(S) ELSE Cardinality(S) + 1  BY FS_AddElement
  <2>2. IsFiniteSet(S \cup {x}) BY FS_AddElement
  <2>3. Cardinality(S) \in Nat  BY FS_CardinalityType
  <2> QED  BY <2>1, <2>2, <2>3
<1>2. IsFiniteSet(T) /\ Cardinality(T) <= Cardinality(S \cup {x})  BY <1>1, FS_Subset
<1>3. Cardinality(T) \in Nat /\ Cardinality(S) \in Nat  BY <1>2, FS_CardinalityType
<1> QED  BY <1>1, <1>2, <1>3

LEMMA DefendInit == Defend!Init => Defend!DefenceHolds
<1> SUFFICES ASSUME Defend!Init  PROVE Defend!DefenceHolds
  OBVIOUS
<1>1. s1 = 0 /\ s2 = {} /\ s4 = {} /\ s3 = Defend!NoStamp /\ s5 = FALSE
  BY DEF Defend!Init
<1>2. Defend!EntriesFinite
  <2>1. Defend!IsFiniteSet({})  BY DefendSizes, FS_EmptySet
  <2>2. 0 \in Defend!Times  BY DefendBounds DEF Defend!Times
  <2> QED  BY <1>1, <2>1, <2>2 DEF Defend!EntriesFinite
<1>3. Defend!BucketHolds  BY <1>1 DEF Defend!BucketHolds
<1>4. Defend!LimitHolds
  <2> SUFFICES ASSUME NEW t \in Defend!Times
               PROVE  Defend!Cardinality({e \in s4 : e.at <= t /\ e.at + Few > t}) <= Few
    BY DEF Defend!LimitHolds
  <2>1. {e \in s4 : e.at <= t /\ e.at + Few > t} = {}  BY <1>1
  <2> QED  BY <2>1, DefendSizes, DefendBounds, FS_EmptySet
<1>5. Defend!ListHolds  BY DEF Defend!Init, Defend!ListHolds, Defend!ListApplied
<1> QED  BY <1>2, <1>3, <1>4, <1>5 DEF Defend!DefenceHolds

LEMMA DefendStep == Defend!DefenceHolds /\ [Defend!Next]_(Defend!vars) => Defend!DefenceHolds'
<1> SUFFICES ASSUME Defend!DefenceHolds, [Defend!Next]_(Defend!vars)
             PROVE  Defend!DefenceHolds'
  OBVIOUS
<1> USE DefendBounds DEF Defend!bucket, Defend!detector, Defend!list
<1> DEFINE Bucket == Defend!EntriesFinite /\ Defend!BucketHolds /\ Defend!LimitHolds
<1>0. Bucket /\ Defend!ListHolds  BY DEF Defend!DefenceHolds
<1>1. ASSUME UNCHANGED <<s1, s2, s3, s4, s5>>  PROVE Bucket'
  BY <1>0, <1>1 DEF Defend!EntriesFinite, Defend!BucketHolds, Defend!LimitHolds
<1>2. ASSUME UNCHANGED <<s8, s9, s10, s11>>  PROVE Defend!ListHolds'
  BY <1>0, <1>2 DEF Defend!ListHolds, Defend!ListApplied
<1> HIDE DEF Bucket
<1>3. CASE UNCHANGED Defend!vars  BY <1>1, <1>2, <1>3 DEF Defend!vars, Bucket, Defend!DefenceHolds
<1>4. CASE Defend!Tick
  <2>1. Defend!LimitHolds'  BY <1>0, <1>4 DEF Bucket, Defend!Tick, Defend!LimitHolds, Defend!EntriesFinite
  <2>2. s1' \in Defend!Times /\ s1' = s1 + 1  BY <1>0, <1>4 DEF Bucket, Defend!Tick, Defend!Times, Defend!EntriesFinite
  <2>3. Defend!EntriesFinite'
    BY <2>2, <1>0, <1>4 DEF Bucket, Defend!Tick, Defend!EntriesFinite
  <2>4. Defend!BucketHolds'
    <3> SUFFICES ASSUME ~s5'
                 PROVE  /\ s3' \in {s1', Defend!NoStamp}
                        /\ \A e \in s4' : e.at <= s1' /\ (e.at + Few > s1' => e \in s2')
      BY DEF Defend!BucketHolds
    <3>1. ~s5 /\ s3' = Defend!NoStamp /\ s4' = s4 /\ s2' = s2
      BY <1>0, <1>4 DEF Defend!Tick, Bucket, Defend!EntriesFinite
    <3>2. \A e \in s4 : e.at \in Nat /\ e.at <= s1 /\ (e.at + Few > s1 => e \in s2)
      BY <1>0, <3>1 DEF Bucket, Defend!EntriesFinite, Defend!BucketHolds
    <3>3. s1 \in Nat  BY <1>0 DEF Bucket, Defend!EntriesFinite
    <3> QED  BY <2>2, <3>1, <3>2, <3>3
  <2>5. UNCHANGED <<s8, s9, s10, s11>>  BY <1>4 DEF Defend!Tick
  <2> QED  BY <2>1, <2>3, <2>4, <2>5, <1>2 DEF Defend!DefenceHolds
<1>5. CASE Defend!Refused \/ Defend!Unblock \/ \E kind \in Defend!Kinds : Defend!Record(kind)
  <2>1. UNCHANGED <<s1, s2, s3, s4, s5, s8, s9, s10, s11>>
    BY <1>5 DEF Defend!Refused, Defend!Unblock, Defend!Record
  <2> QED  BY <2>1, <1>1, <1>2 DEF Bucket, Defend!DefenceHolds
<1>6. CASE Defend!Looks
  <2>1. UNCHANGED <<s1, s2, s4, s5, s8, s9, s10, s11>> /\ s3' = s1  BY <1>6 DEF Defend!Looks
  <2>2. Bucket'
    BY <2>1, <1>0 DEF Bucket, Defend!EntriesFinite, Defend!BucketHolds, Defend!LimitHolds
  <2> QED  BY <2>1, <2>2, <1>2 DEF Bucket, Defend!DefenceHolds
<1>7. CASE Defend!RedisDown
  <2>1. UNCHANGED <<s1, s2, s8, s9, s10, s11>> /\ s3' = Defend!NoStamp /\ s5' = TRUE /\ s4' = s4 \cup {Defend!Check}
    BY <1>7 DEF Defend!RedisDown
  <2>2. Defend!Check.at = s3 /\ s3 \in Defend!Times
    BY <1>7, <1>0 DEF Defend!Check, Defend!RedisDown, Bucket, Defend!EntriesFinite
  <2>3. IsFiniteSet(s4')  BY <2>1, <1>0, OneMoreAtMost, DefendSizes DEF Bucket, Defend!EntriesFinite
  <2>4. Bucket'
    BY <2>1, <2>2, <2>3, <1>0, DefendSizes DEF Bucket, Defend!EntriesFinite, Defend!BucketHolds, Defend!LimitHolds
  <2> QED  BY <2>1, <2>4, <1>2 DEF Bucket, Defend!DefenceHolds
<1>8. CASE Defend!Counts
  <2> DEFINE kept == {e \in s2 : e.at + Few > s3}
  <2>1. /\ UNCHANGED <<s1, s5, s8, s9, s10, s11>> /\ s3 # Defend!NoStamp /\ s3' = Defend!NoStamp
        /\ s2' = kept \cup {Defend!Check}
        /\ s4' = IF Defend!Passes(Cardinality(kept)) THEN s4 \cup {Defend!Check} ELSE s4
    BY <1>8, DefendSizes DEF Defend!Counts
  <2> DEFINE c == Defend!Check
  <2>2. c.at = s3 /\ s3 \in Defend!Times
    BY <2>1, <1>0 DEF Defend!Check, Bucket, Defend!EntriesFinite
  <2> HIDE DEF c
  <2>3. s4' \subseteq s4 \cup {c} /\ c \in s2' /\ kept \subseteq s2 /\ s2' \subseteq s2 \cup {c}
    BY <2>1 DEF c
  <2>4. IsFiniteSet(s2') /\ IsFiniteSet(s4') /\ IsFiniteSet(kept)
    BY <2>3, <1>0, OneMoreAtMost, DefendSizes DEF Bucket, Defend!EntriesFinite
  <2>5. Defend!EntriesFinite'
    BY <2>1, <2>2, <2>3, <2>4, <1>0, DefendSizes DEF Bucket, Defend!EntriesFinite
  <2>6. ASSUME ~s5  PROVE s3 = s1 /\ \A e \in s4 : e.at \in Nat /\ e.at <= s1 /\ (e.at + Few > s1 => e \in kept)
    BY <2>1, <2>6, <1>0 DEF Bucket, Defend!EntriesFinite, Defend!BucketHolds
  <2>7. Defend!BucketHolds'
    <3> SUFFICES ASSUME ~s5
                 PROVE  \A e \in s4' : e.at <= s1 /\ (e.at + Few > s1 => e \in s2')
      BY <2>1 DEF Defend!BucketHolds
    <3> QED  BY <2>1, <2>2, <2>3, <2>6
  <2>8. Defend!LimitHolds'
    <3> SUFFICES ASSUME ~s5, NEW t \in Defend!Times
                 PROVE  Cardinality({e \in s4' : e.at <= t /\ e.at + Few > t}) <= Few
      BY <2>1, DefendSizes DEF Defend!LimitHolds
    <3> DEFINE old == {e \in s4 : e.at <= t /\ e.at + Few > t}
               new == {e \in s4' : e.at <= t /\ e.at + Few > t}
    <3>1. Cardinality(old) <= Few  BY <1>0, DefendSizes DEF Bucket, Defend!LimitHolds
    <3>2. CASE ~Defend!Passes(Cardinality(kept)) \/ t < s3
      <4>1. new = old  BY <3>2, <2>1, <2>2, <2>3
      <4> QED  BY <4>1, <3>1
    <3>3. CASE Defend!Passes(Cardinality(kept)) /\ ~(t < s3)
      <4>1. new \subseteq kept \cup {c}
        <5> SUFFICES ASSUME NEW e \in s4, e.at + Few > t  PROVE e \in kept
          BY <2>3
        <5> QED  BY <2>6, <2>2, <3>3
      <4>2. Cardinality(new) <= Cardinality(kept) + 1 /\ Cardinality(new) \in Nat /\ Cardinality(kept) \in Nat
        BY <4>1, <2>4, OneMoreAtMost
      <4>3. Cardinality(kept) < Few  BY <3>3 DEF Defend!Passes
      <4> HIDE DEF kept, new
      <4>4. Cardinality(new) <= Few  BY <4>2, <4>3
      <4> QED  BY <4>4 DEF new
    <3> QED  BY <3>2, <3>3
  <2> QED  BY <2>1, <2>5, <2>7, <2>8, <1>2 DEF Defend!DefenceHolds
<1>9. ASSUME NEW a \in Callers, Defend!Commits(a) \/ Defend!Reads(a) \/ Defend!Replaces(a) \/ Defend!ReloadFails(a)
      PROVE  Defend!DefenceHolds'
  <2>1. UNCHANGED <<s1, s2, s3, s4, s5>>
    BY <1>9 DEF Defend!Commits, Defend!Reads, Defend!Replaces, Defend!ReloadFails
  <2> USE DEF Defend!ListHolds, Defend!ListApplied
  <2>2. CASE Defend!Commits(a)
    <3>1. Defend!ListHolds'  BY <1>0, <2>2 DEF Defend!Commits
    <3> QED  BY <2>1, <3>1, <1>1 DEF Bucket, Defend!DefenceHolds
  <2>3. CASE Defend!Reads(a)
    <3>1. Defend!ListHolds'  BY <1>0, <2>3 DEF Defend!Reads, Defend!Enabled
    <3> QED  BY <2>1, <3>1, <1>1 DEF Bucket, Defend!DefenceHolds
  <2>4. CASE Defend!Replaces(a)
    <3>1. Defend!ListHolds'  BY <1>0, <2>4 DEF Defend!Replaces
    <3> QED  BY <2>1, <3>1, <1>1 DEF Bucket, Defend!DefenceHolds
  <2>5. CASE Defend!ReloadFails(a)
    <3>1. Defend!ListHolds'  BY <1>0, <2>5 DEF Defend!ReloadFails
    <3> QED  BY <2>1, <3>1, <1>1 DEF Bucket, Defend!DefenceHolds
  <2> QED  BY <1>9, <2>2, <2>3, <2>4, <2>5
<1>10. CASE Defend!Restart
  <2>1. UNCHANGED <<s1, s2, s4, s5>> /\ s3' = Defend!NoStamp  BY <1>10 DEF Defend!Restart
  <2>2. Bucket'
    BY <2>1, <1>0 DEF Bucket, Defend!EntriesFinite, Defend!BucketHolds, Defend!LimitHolds
  <2>3. Defend!ListHolds'  BY <1>0, <1>10 DEF Defend!Restart, Defend!ListHolds, Defend!ListApplied
  <2> QED  BY <2>2, <2>3 DEF Bucket, Defend!DefenceHolds
<1> QED  BY <1>3, <1>4, <1>5, <1>6, <1>7, <1>8, <1>9, <1>10 DEF Defend!Next

(* Whichever window one looks at, no more checks than the limit passed in   *)
(* it, and the copy of the block list is what the administrators made of    *)
(* it: what passed in the window that ends now is in the bucket, so a check *)
(* counts it, and no two changes of the list are under way unless they      *)
(* overlapped.                                                              *)
THEOREM AddressesLimitedHolds == ServicesSpec => []AddressesLimited
<1> DEFINE Inv == part = "defence" => Defend!DefenceHolds
<1>1. ServicesInit => Inv  BY DefendInit DEF ServicesInit
<1>2. Inv /\ [ServicesNext]_all => Inv'  BY DefendStep, StepOfPart
<1>3. Inv => AddressesLimited
  BY DEF AddressesLimited, Defend!DefenceHolds, Defend!ListHolds, Defend!ListApplied
<1> QED  BY <1>1, <1>2, <1>3, PTL DEF ServicesSpec

-----------------------------------------------------------------------------
(* The stage: the document that is left when all moves are written.         *)
LEMMA StageSizes == \A S : OnStage!Cardinality(S) = Cardinality(S)
BY DEF OnStage!Cardinality, Cardinality, OnStage!IsFiniteSet, IsFiniteSet

\* What DropAt leaves: the rest, in order.
LEMMA StageRemoved ==
  ASSUME NEW S, NEW q \in Seq(S), NEW i \in 1..Len(q)
  PROVE  /\ OnStage!DropAt(q, i) \in Seq(S)
         /\ Len(OnStage!DropAt(q, i)) = Len(q) - 1
         /\ \A j \in 1..(Len(q) - 1) : OnStage!DropAt(q, i)[j] = IF j < i THEN q[j] ELSE q[j + 1]
<1>0. Len(q) \in Nat /\ i \in Nat /\ \A j \in 1..Len(q) : q[j] \in S  OBVIOUS
<1>1. PICK a \in Seq(S) : a = SubSeq(q, 1, i - 1) /\ Len(a) = i - 1 /\ \A j \in 1..(i - 1) : a[j] = q[j]
  <2>1. 1 \in Int /\ i - 1 \in Int /\ \A j \in 1..(i - 1) : q[j] \in S  BY <1>0
  <2>2. /\ SubSeq(q, 1, i - 1) \in Seq(S)
        /\ Len(SubSeq(q, 1, i - 1)) = IF 1 <= i - 1 THEN (i - 1) - 1 + 1 ELSE 0
        /\ \A j \in 1..((i - 1) - 1 + 1) : SubSeq(q, 1, i - 1)[j] = q[1 + j - 1]
    BY <2>1, SubSeqProperties
  <2>3. Len(SubSeq(q, 1, i - 1)) = i - 1  BY <2>2, <1>0
  <2>4. \A j \in 1..(i - 1) : SubSeq(q, 1, i - 1)[j] = q[j]  BY <2>2, <1>0
  <2> QED  BY <2>2, <2>3, <2>4
<1>2. PICK b \in Seq(S) : b = SubSeq(q, i + 1, Len(q)) /\ Len(b) = Len(q) - i /\ \A j \in 1..(Len(q) - i) : b[j] = q[i + j]
  <2>1. i + 1 \in Int /\ Len(q) \in Int /\ \A j \in (i + 1)..Len(q) : q[j] \in S  BY <1>0
  <2>2. /\ SubSeq(q, i + 1, Len(q)) \in Seq(S)
        /\ Len(SubSeq(q, i + 1, Len(q))) = IF i + 1 <= Len(q) THEN Len(q) - (i + 1) + 1 ELSE 0
        /\ \A j \in 1..(Len(q) - (i + 1) + 1) : SubSeq(q, i + 1, Len(q))[j] = q[i + 1 + j - 1]
    BY <2>1, SubSeqProperties
  <2>3. Len(SubSeq(q, i + 1, Len(q))) = Len(q) - i  BY <2>2, <1>0
  <2>4. \A j \in 1..(Len(q) - i) : SubSeq(q, i + 1, Len(q))[j] = q[i + j]  BY <2>2, <1>0
  <2> QED  BY <2>2, <2>3, <2>4
<1>3. PICK r \in Seq(S) : /\ r = a \o b /\ Len(r) = Len(a) + Len(b)
                         /\ \A j \in 1..(Len(a) + Len(b)) : r[j] = IF j <= Len(a) THEN a[j] ELSE b[j - Len(a)]
  <2>1. /\ a \o b \in Seq(S) /\ Len(a \o b) = Len(a) + Len(b)
        /\ \A j \in 1..(Len(a) + Len(b)) : (a \o b)[j] = IF j <= Len(a) THEN a[j] ELSE b[j - Len(a)]
    BY ONLY a \in Seq(S), b \in Seq(S), ConcatProperties
  <2> QED  BY <2>1, Zenon
<1>4. OnStage!DropAt(q, i) = r  BY <1>1, <1>2, <1>3 DEF OnStage!DropAt
<1>5. Len(r) = Len(q) - 1 /\ Len(a) + Len(b) = Len(q) - 1
  <2>1. Len(a) = i - 1 /\ Len(b) = Len(q) - i /\ Len(r) = Len(a) + Len(b)  BY <1>1, <1>2, <1>3
  <2> QED  BY <2>1, <1>0
<1>6. ASSUME NEW j \in 1..(Len(q) - 1)  PROVE r[j] = IF j < i THEN q[j] ELSE q[j + 1]
  <2>1. r[j] = IF j <= Len(a) THEN a[j] ELSE b[j - Len(a)]  BY <1>3, <1>5
  <2>2. CASE j < i  BY <2>1, <2>2, <1>1
  <2>3. CASE j >= i
    <3>1. j - (i - 1) \in 1..(Len(q) - i) /\ i + (j - (i - 1)) = j + 1  BY <2>3
    <3>2. b[j - (i - 1)] = q[j + 1]  BY <3>1, <1>2
    <3> QED  BY <2>1, <2>3, <3>2, <1>1
  <2> QED  BY <2>2, <2>3
<1> QED  BY <1>3, <1>4, <1>5, <1>6

Once(q) == \A i, j \in DOMAIN q : q[i] = q[j] => i = j

\* A list that has every key once has the same without this one, in the same order.
LEMMA StageWithout ==
  ASSUME NEW S, NEW q \in Seq(S), NEW k
  PROVE  /\ OnStage!Without(q, k) \in Seq(S)
         /\ Once(q) => /\ Once(OnStage!Without(q, k))
                       /\ OnStage!Range(OnStage!Without(q, k)) = OnStage!Range(q) \ {k}
<1>1. CASE k \notin OnStage!Range(q)  BY <1>1 DEF OnStage!Without
<1>2. CASE k \in OnStage!Range(q)
  <2> DEFINE i == CHOOSE i \in DOMAIN q : q[i] = k
             r == OnStage!DropAt(q, i)
  <2>1. OnStage!Without(q, k) = r  BY <1>2 DEF OnStage!Without
  <2>2. i \in 1..Len(q) /\ q[i] = k  BY <1>2 DEF OnStage!Range
  <2> HIDE DEF i
  <2>3. /\ r \in Seq(S) /\ Len(r) = Len(q) - 1
        /\ \A j \in 1..(Len(q) - 1) : r[j] = IF j < i THEN q[j] ELSE q[j + 1]
    BY <2>2, StageRemoved
  <2> HIDE DEF r
  <2>4. DOMAIN r = 1..(Len(q) - 1) /\ DOMAIN q = 1..Len(q) /\ Len(q) \in Nat  BY <2>3
  <2>5. ASSUME Once(q)  PROVE Once(r)
    <3> SUFFICES ASSUME NEW m \in 1..(Len(q) - 1), NEW n \in 1..(Len(q) - 1), r[m] = r[n]
                 PROVE  m = n
      BY <2>4 DEF Once
    <3> DEFINE At(j) == IF j < i THEN j ELSE j + 1
    <3>1. At(m) \in 1..Len(q) /\ At(n) \in 1..Len(q)  BY <2>2, <2>4
    <3>2. r[m] = q[At(m)] /\ r[n] = q[At(n)]  BY <2>3
    <3>3. At(m) = At(n)  BY <2>4, <2>5, <3>1, <3>2 DEF Once
    <3> QED  BY <3>3, <2>2, <2>4
  <2>6. ASSUME Once(q)  PROVE OnStage!Range(r) = OnStage!Range(q) \ {k}
    <3>1. ASSUME NEW x \in OnStage!Range(r)  PROVE x \in OnStage!Range(q) \ {k}
      <4>1. PICK j \in 1..(Len(q) - 1) : x = r[j]  BY <2>4 DEF OnStage!Range
      <4>2. PICK n \in 1..Len(q) : x = q[n] /\ n # i  BY <4>1, <2>2, <2>3, <2>4
      <4>3. x # k  BY <4>2, <2>2, <2>4, <2>6 DEF Once
      <4> QED  BY <4>2, <4>3, <2>4 DEF OnStage!Range
    <3>2. ASSUME NEW x \in OnStage!Range(q), x # k  PROVE x \in OnStage!Range(r)
      <4>1. PICK n \in 1..Len(q) : x = q[n]  BY <2>4 DEF OnStage!Range
      <4>2. n # i  BY <4>1, <3>2, <2>2
      <4>3. CASE n < i
        <5>1. n \in 1..(Len(q) - 1) /\ r[n] = x  BY <4>1, <4>3, <2>2, <2>3, <2>4
        <5> QED  BY <5>1, <2>4 DEF OnStage!Range
      <4>4. CASE n > i
        <5>1. n - 1 \in 1..(Len(q) - 1) /\ r[n - 1] = q[n]  BY <4>1, <4>4, <2>2, <2>3, <2>4
        <5> QED  BY <5>1, <4>1, <2>4 DEF OnStage!Range
      <4> QED  BY <4>2, <4>3, <4>4, <2>2, <2>4
    <3> QED  BY <3>1, <3>2
  <2> QED  BY <2>1, <2>3, <2>5, <2>6
<1> QED  BY <1>1, <1>2

\* What the last of a list that is not empty is.
LEMMA StageLast ==
  ASSUME NEW S, NEW q \in Seq(S)
  PROVE  /\ q # <<>> => q[Len(q)] \in OnStage!Range(q)
         /\ q = <<>> <=> OnStage!Range(q) = {}
<1>1. DOMAIN q = 1..Len(q) /\ Len(q) \in Nat  OBVIOUS
<1>2. q # <<>> => Len(q) \in 1..Len(q)  OBVIOUS
<1>3. q # <<>> => q[Len(q)] \in OnStage!Range(q)  BY <1>1, <1>2 DEF OnStage!Range
<1>4. q = <<>> => OnStage!Range(q) = {}
  <2> SUFFICES ASSUME q = <<>>  PROVE OnStage!Range(q) = {}
    OBVIOUS
  <2>1. DOMAIN q = {}  OBVIOUS
  <2> QED  BY <2>1 DEF OnStage!Range
<1> QED  BY <1>3, <1>4

LEMMA StageAppended ==
  ASSUME NEW S, NEW q \in Seq(S), NEW k \in S, k \notin OnStage!Range(q)
  PROVE  /\ Append(q, k) \in Seq(S) /\ OnStage!Range(Append(q, k)) = OnStage!Range(q) \cup {k}
         /\ Once(q) => Once(Append(q, k))
<1> DEFINE r == Append(q, k)
<1>1. /\ r \in Seq(S) /\ DOMAIN r = 1..(Len(q) + 1) /\ DOMAIN q = 1..Len(q) /\ Len(q) \in Nat
      /\ \A j \in 1..Len(q) : r[j] = q[j]
      /\ r[Len(q) + 1] = k
  OBVIOUS
<1> HIDE DEF r
<1>2. OnStage!Range(r) = OnStage!Range(q) \cup {k}
  <2>1. \A x \in OnStage!Range(r) : x \in OnStage!Range(q) \cup {k}  BY <1>1 DEF OnStage!Range
  <2>2. \A x \in OnStage!Range(q) : x \in OnStage!Range(r)  BY <1>1 DEF OnStage!Range
  <2>3. Len(q) + 1 \in DOMAIN r  BY <1>1
  <2>4. k \in OnStage!Range(r)  BY <2>3, <1>1 DEF OnStage!Range
  <2> QED  BY <2>1, <2>2, <2>4
<1>3. \A j \in 1..Len(q) : q[j] # k  BY <1>1 DEF OnStage!Range
<1>4. Once(q) => Once(r)  BY <1>1, <1>3 DEF Once
<1> QED  BY <1>1, <1>2, <1>4 DEF r

LEMMA StageKeys ==
  /\ OnStage!Board \notin Shares \cup Cameras /\ OnStage!None \notin Shares \cup Cameras
  /\ OnStage!Board # OnStage!None /\ Cameras \cap Shares = {}
  /\ OnStage!Keys = Cameras \cup Shares \cup {OnStage!Board, OnStage!None}
BY KeysAssumption DEF OnStage!Board, OnStage!None, OnStage!Keys

\* A document but for what the other writers have in it.
Bare(d) == [d EXCEPT !.other = 0]

\* What a move makes of a document is a document, and depends on its stage alone.
LEMMA StagePatched ==
  ASSUME NEW d \in OnStage!Docs, NEW p \in OnStage!Patches
  PROVE  /\ OnStage!Patched(d, p) \in OnStage!Docs /\ Bare(d) \in OnStage!Docs
         /\ Bare(OnStage!Patched(d, p)) = Bare(OnStage!Patched(Bare(d), p))
         /\ Bare(Bare(d)) = Bare(d)
         /\ OnStage!Patched(d, p).other = IF p.kind = "other" THEN d.other + 1 ELSE d.other
         /\ p.kind = "other" => Bare(OnStage!Patched(d, p)) = Bare(d)
<1> DEFINE D(e, x, y, q) == [e EXCEPT !.presenter = x, !.prev = y, !.streams = q]
<1>1. \A x, y \in OnStage!Keys, q \in Seq(OnStage!Keys) :
        /\ D(d, x, y, q) \in OnStage!Docs /\ D(d, x, y, q).other = d.other
        /\ Bare(D(d, x, y, q)) = Bare(D(Bare(d), x, y, q))
  BY DEF OnStage!Docs, Bare
<1>2. /\ d.presenter \in OnStage!Keys /\ d.prev \in OnStage!Keys /\ d.streams \in Seq(OnStage!Keys) /\ d.other \in Nat
      /\ p.key \in OnStage!Keys
      /\ Bare(d) \in OnStage!Docs /\ Bare(Bare(d)) = Bare(d)
      /\ Bare(d).presenter = d.presenter /\ Bare(d).prev = d.prev /\ Bare(d).streams = d.streams
      /\ OnStage!Board \in OnStage!Keys /\ OnStage!None \in OnStage!Keys
  BY StageKeys DEF OnStage!Docs, OnStage!Patches, Bare
<1> DEFINE w == OnStage!Without(d.streams, p.key)
<1>3. /\ w \in Seq(OnStage!Keys) /\ Append(w, p.key) \in Seq(OnStage!Keys)
      /\ w # <<>> => w[Len(w)] \in OnStage!Keys
  <2>1. w \in Seq(OnStage!Keys)  BY <1>2, StageWithout
  <2>2. \A x \in OnStage!Range(w) : x \in OnStage!Keys  BY <2>1 DEF OnStage!Range
  <2> QED  BY <2>1, <2>2, <1>2, StageLast
<1> HIDE DEF w
<1>4. CASE p.kind = "started"
  <2> DEFINE x == IF d.presenter \in {OnStage!None, p.key} THEN d.presenter ELSE p.key
             y == IF d.presenter \in {OnStage!None, p.key} \cup Shares THEN d.prev ELSE d.presenter
  <2>1. x \in OnStage!Keys /\ y \in OnStage!Keys  BY <1>2
  <2>2. \A e \in OnStage!Docs :
          e.presenter = d.presenter /\ e.prev = d.prev /\ e.streams = d.streams
          => OnStage!Patched(e, p) = D(e, x, y, Append(w, p.key))
    BY <1>4 DEF OnStage!Patched, OnStage!StreamStarted, OnStage!Docs, w
  <2> HIDE DEF x, y, D
  <2>3. OnStage!Patched(d, p) = D(d, x, y, Append(w, p.key)) /\ OnStage!Patched(Bare(d), p) = D(Bare(d), x, y, Append(w, p.key))
    BY <1>2, <2>2
  <2>4. /\ D(d, x, y, Append(w, p.key)) \in OnStage!Docs /\ D(d, x, y, Append(w, p.key)).other = d.other
        /\ Bare(D(d, x, y, Append(w, p.key))) = Bare(D(Bare(d), x, y, Append(w, p.key)))
    BY <1>1, <1>3, <2>1
  <2> QED  BY <1>2, <1>4, <2>3, <2>4
<1>5. CASE p.kind = "stopped"
  <2> DEFINE back == \/ d.presenter = p.key /\ w = <<>>
                     \/ d.presenter # p.key /\ d.presenter = OnStage!None /\ w = <<>>
             x == IF back THEN d.prev ELSE IF d.presenter = p.key THEN w[Len(w)] ELSE d.presenter
             y == IF back THEN OnStage!None ELSE d.prev
  <2>1. x \in OnStage!Keys /\ y \in OnStage!Keys  BY <1>2, <1>3
  <2>2. \A e \in OnStage!Docs :
          e.presenter = d.presenter /\ e.prev = d.prev /\ e.streams = d.streams
          => OnStage!Patched(e, p) = D(e, x, y, w)
    <3> SUFFICES ASSUME NEW e \in OnStage!Docs,
                        e.presenter = d.presenter, e.prev = d.prev, e.streams = d.streams
                 PROVE  OnStage!Patched(e, p) = D(e, x, y, w)
      OBVIOUS
    <3> DEFINE f == [e EXCEPT !.streams = w]
    <3>1. OnStage!Patched(e, p) =
            IF d.presenter = p.key
            THEN IF w # <<>> THEN [f EXCEPT !.presenter = w[Len(w)]]
                 ELSE [f EXCEPT !.presenter = d.prev, !.prev = OnStage!None]
            ELSE IF d.presenter = OnStage!None /\ w = <<>>
                 THEN [f EXCEPT !.presenter = d.prev, !.prev = OnStage!None] ELSE f
      <4>1. OnStage!Patched(e, p) = OnStage!StreamStopped(e, p.key)  BY <1>5 DEF OnStage!Patched
      <4>2. f = [e EXCEPT !.streams = OnStage!Without(@, p.key)] /\ f.streams = w
        BY DEF w, OnStage!Docs
      <4> QED  BY <4>1, <4>2 DEF OnStage!StreamStopped
    <3>2. CASE back  BY <3>1, <3>2 DEF OnStage!Docs
    <3>3. CASE ~back  BY <3>1, <3>3 DEF OnStage!Docs
    <3> QED  BY <3>2, <3>3
  <2> HIDE DEF x, y, D
  <2>3. OnStage!Patched(d, p) = D(d, x, y, w) /\ OnStage!Patched(Bare(d), p) = D(Bare(d), x, y, w)
    BY <1>2, <2>2
  <2>4. /\ D(d, x, y, w) \in OnStage!Docs /\ D(d, x, y, w).other = d.other
        /\ Bare(D(d, x, y, w)) = Bare(D(Bare(d), x, y, w))
    BY <1>1, <1>2, <1>3, <2>1
  <2> QED  BY <1>2, <1>5, <2>3, <2>4
<1>6. CASE p.kind = "board"
  <2> DEFINE behind == d.presenter \in Shares \/ (d.presenter = OnStage!None /\ d.streams # <<>>)
             x == IF d.presenter = OnStage!Board \/ ~behind THEN OnStage!Board ELSE d.presenter
             y == IF d.presenter = OnStage!Board THEN d.prev ELSE IF behind THEN OnStage!Board ELSE OnStage!None
  <2>1. x \in OnStage!Keys /\ y \in OnStage!Keys  BY <1>2
  <2>2. \A e \in OnStage!Docs :
          e.presenter = d.presenter /\ e.prev = d.prev /\ e.streams = d.streams
          => OnStage!Patched(e, p) = D(e, x, y, d.streams)
    BY <1>6 DEF OnStage!Patched, OnStage!BoardStarted, OnStage!Docs
  <2> HIDE DEF x, y, D
  <2>3. OnStage!Patched(d, p) = D(d, x, y, d.streams) /\ OnStage!Patched(Bare(d), p) = D(Bare(d), x, y, d.streams)
    BY <1>2, <2>2
  <2>4. /\ D(d, x, y, d.streams) \in OnStage!Docs /\ D(d, x, y, d.streams).other = d.other
        /\ Bare(D(d, x, y, d.streams)) = Bare(D(Bare(d), x, y, d.streams))
    BY <1>1, <1>2, <1>3, <2>1
  <2> QED  BY <1>2, <1>6, <2>3, <2>4
<1>7. CASE p.kind = "boardEnds"
  <2> DEFINE x == IF d.presenter = OnStage!Board THEN OnStage!None ELSE d.presenter
             y == IF d.prev = OnStage!Board THEN OnStage!None ELSE d.prev
  <2>1. x \in OnStage!Keys /\ y \in OnStage!Keys  BY <1>2
  <2>2. \A e \in OnStage!Docs :
          e.presenter = d.presenter /\ e.prev = d.prev /\ e.streams = d.streams
          => OnStage!Patched(e, p) = D(e, x, y, d.streams)
    BY <1>7 DEF OnStage!Patched, OnStage!BoardEnded, OnStage!Docs
  <2> HIDE DEF x, y, D
  <2>3. OnStage!Patched(d, p) = D(d, x, y, d.streams) /\ OnStage!Patched(Bare(d), p) = D(Bare(d), x, y, d.streams)
    BY <1>2, <2>2
  <2>4. /\ D(d, x, y, d.streams) \in OnStage!Docs /\ D(d, x, y, d.streams).other = d.other
        /\ Bare(D(d, x, y, d.streams)) = Bare(D(Bare(d), x, y, d.streams))
    BY <1>1, <1>2, <1>3, <2>1
  <2> QED  BY <1>2, <1>7, <2>3, <2>4
<1>8. CASE p.kind = "chosen"
  <2>1. \A e \in OnStage!Docs :
          e.presenter = d.presenter /\ e.prev = d.prev /\ e.streams = d.streams
          => OnStage!Patched(e, p) = D(e, p.key, OnStage!None, d.streams)
    BY <1>8 DEF OnStage!Patched, OnStage!Chosen, OnStage!Docs
  <2> HIDE DEF D
  <2> QED  BY <1>1, <1>2, <1>3, <1>8, <2>1
<1>9. CASE p.kind = "other"
  <2>1. \A e : OnStage!Patched(e, p) = [e EXCEPT !.other = @ + 1]  BY <1>9 DEF OnStage!Patched
  <2>2. /\ [d EXCEPT !.other = @ + 1] \in OnStage!Docs /\ [d EXCEPT !.other = @ + 1].other = d.other + 1
        /\ Bare([d EXCEPT !.other = @ + 1]) = Bare(d)
    <3>1. PICK n \in Nat : n = d.other + 1  BY <1>2
    <3>2. [d EXCEPT !.other = n] \in OnStage!Docs /\ [d EXCEPT !.other = n].other = n  BY DEF OnStage!Docs
    <3>3. Bare([d EXCEPT !.other = n]) = Bare(d)  BY DEF OnStage!Docs, Bare
    <3> QED  BY <3>1, <3>2, <3>3
  <2>3. Bare([Bare(d) EXCEPT !.other = @ + 1]) = Bare(d)  BY <1>2 DEF Bare, OnStage!Docs
  <2> QED  BY <1>9, <2>1, <2>2, <2>3, <1>2
<1> QED  BY <1>4, <1>5, <1>6, <1>7, <1>8, <1>9 DEF OnStage!Patches

LEMMA StageBare ==
  ASSUME NEW d \in OnStage!Docs
  PROVE  (OnStage!Good(d) <=> OnStage!Good(Bare(d))) /\ (OnStage!Good(d)' <=> OnStage!Good(Bare(d))')
<1>1. Bare(d).presenter = d.presenter /\ Bare(d).prev = d.prev /\ Bare(d).streams = d.streams
  BY DEF OnStage!Docs, Bare
<1> QED  BY <1>1 DEF OnStage!Good

\* What the room does, and asks for.
Moved(p) ==
  \/ /\ p.kind = "started" /\ p.key \in Shares \ s4
     /\ s4' = s4 \cup {p.key} /\ s5' = s5 /\ s6' = s6
  \/ /\ p.kind = "stopped" /\ p.key \in Shares
     /\ s4' = s4 \ {p.key} /\ s5' = s5 /\ s6' = s6
  \/ /\ p.kind = "board" /\ ~s5
     /\ s4' = s4 /\ s5' = TRUE /\ s6' = OnStage!Board
  \/ /\ p.kind = "boardEnds" /\ s5
     /\ s4' = s4 /\ s5' = FALSE /\ s6' = IF s6 = OnStage!Board THEN OnStage!None ELSE s6
  \/ /\ p.kind = "chosen" /\ p.key \in Cameras \cup s4 \cup {OnStage!Board, OnStage!None}
     /\ p.key = OnStage!Board => s5
     /\ s4' = s4 /\ s5' = s5 /\ s6' = IF p.key \in Shares THEN OnStage!None ELSE p.key
  \/ /\ p.kind = "other"
     /\ s4' = s4 /\ s5' = s5 /\ s6' = s6

\* A move leaves a document with the stage as the room is then.
LEMMA StageMoved ==
  ASSUME s4 \subseteq Shares, s5 \in BOOLEAN,
         NEW d \in OnStage!Docs, OnStage!Good(d), NEW p \in OnStage!Patches, Moved(p)
  PROVE  OnStage!Good(OnStage!Patched(d, p))' /\ s4' \subseteq Shares /\ s5' \in BOOLEAN
<1> DEFINE e == OnStage!Patched(d, p)
           w == OnStage!Without(d.streams, p.key)
<1>1. s4' \subseteq Shares /\ s5' \in BOOLEAN  BY DEF Moved
<1>2. /\ d.presenter \in OnStage!Keys /\ d.prev \in OnStage!Keys /\ d.streams \in Seq(OnStage!Keys)
      /\ p.key \in OnStage!Keys
      /\ Once(d.streams) /\ OnStage!Range(d.streams) = s4
      /\ s6 \in OnStage!Keys \ Shares /\ (~s5 => s6 # OnStage!Board)
      /\ \/ d.presenter \in s4 /\ d.prev = s6
         \/ d.presenter = OnStage!None /\ d.prev = s6 /\ (s4 = {} => s6 = OnStage!None)
         \/ d.presenter \notin Shares \cup {OnStage!None} /\ d.presenter = s6 /\ d.prev = OnStage!None
  BY DEF OnStage!Docs, OnStage!Patches, OnStage!Good, Once
<1>3. /\ w \in Seq(OnStage!Keys) /\ Once(w) /\ OnStage!Range(w) = s4 \ {p.key}
      /\ w = <<>> <=> s4 \ {p.key} = {}
      /\ w # <<>> => w[Len(w)] \in s4 \ {p.key}
  <2>1. w \in Seq(OnStage!Keys) /\ Once(w) /\ OnStage!Range(w) = s4 \ {p.key}  BY <1>2, StageWithout
  <2>2. /\ w # <<>> => w[Len(w)] \in OnStage!Range(w)
        /\ w = <<>> <=> OnStage!Range(w) = {}
    BY <2>1, StageLast
  <2> QED  BY <2>1, <2>2
<1>4. /\ Append(w, p.key) \in Seq(OnStage!Keys) /\ Once(Append(w, p.key))
      /\ OnStage!Range(Append(w, p.key)) = (s4 \ {p.key}) \cup {p.key}
  BY <1>2, <1>3, StageAppended
<1>5. d.streams = <<>> <=> s4 = {}  BY <1>2, StageLast
<1> HIDE DEF w
<1> SUFFICES /\ Once(e.streams) /\ OnStage!Range(e.streams) = s4'
             /\ s6' \in OnStage!Keys \ Shares /\ (~s5' => s6' # OnStage!Board)
             /\ \/ e.presenter \in s4' /\ e.prev = s6'
                \/ e.presenter = OnStage!None /\ e.prev = s6' /\ (s4' = {} => s6' = OnStage!None)
                \/ e.presenter \notin Shares \cup {OnStage!None} /\ e.presenter = s6' /\ e.prev = OnStage!None
  BY <1>1 DEF OnStage!Good, Once
<1> USE StageKeys
<1> HIDE DEF e
<1>6. CASE p.kind = "started"
  <2>1. p.key \in Shares \ s4 /\ s4' = s4 \cup {p.key} /\ s5' = s5 /\ s6' = s6  BY <1>6 DEF Moved
  <2>2. /\ e.streams = Append(w, p.key)
        /\ e.presenter = IF d.presenter \in {OnStage!None, p.key} THEN d.presenter ELSE p.key
        /\ e.prev = IF d.presenter \in {OnStage!None, p.key} \cup Shares THEN d.prev ELSE d.presenter
    BY <1>6 DEF e, w, OnStage!Patched, OnStage!StreamStarted, OnStage!Docs
  <2> QED  BY <1>2, <1>4, <2>1, <2>2
<1>7. CASE p.kind = "stopped"
  <2>1. p.key \in Shares /\ s4' = s4 \ {p.key} /\ s5' = s5 /\ s6' = s6  BY <1>7 DEF Moved
  <2>2. e.streams = w  BY <1>7 DEF e, w, OnStage!Patched, OnStage!StreamStopped, OnStage!Docs
  <2>3. CASE d.presenter = p.key /\ w # <<>>
    <3>1. e.presenter = w[Len(w)] /\ e.prev = d.prev
      BY <1>7, <2>3 DEF e, w, OnStage!Patched, OnStage!StreamStopped, OnStage!Docs
    <3> QED  BY <1>2, <1>3, <2>1, <2>2, <2>3, <3>1
  <2>4. CASE (d.presenter = p.key \/ d.presenter = OnStage!None) /\ w = <<>>
    <3>1. e.presenter = d.prev /\ e.prev = OnStage!None
      BY <1>7, <2>4 DEF e, w, OnStage!Patched, OnStage!StreamStopped, OnStage!Docs
    <3> QED  BY <1>2, <1>3, <2>1, <2>2, <2>4, <3>1
  <2>5. CASE d.presenter # p.key /\ ~(d.presenter = OnStage!None /\ w = <<>>)
    <3>1. e.presenter = d.presenter /\ e.prev = d.prev
      BY <1>7, <2>5 DEF e, w, OnStage!Patched, OnStage!StreamStopped, OnStage!Docs
    <3> QED  BY <1>2, <1>3, <2>1, <2>2, <2>5, <3>1
  <2> QED  BY <2>3, <2>4, <2>5
<1>8. CASE p.kind = "board"
  <2>1. ~s5 /\ s4' = s4 /\ s5' = TRUE /\ s6' = OnStage!Board  BY <1>8 DEF Moved
  <2>2. d.presenter # OnStage!Board  BY <1>2, <2>1
  <2>3. /\ e.streams = d.streams
        /\ IF d.presenter \in Shares \/ (d.presenter = OnStage!None /\ d.streams # <<>>)
           THEN e.presenter = d.presenter /\ e.prev = OnStage!Board
           ELSE e.presenter = OnStage!Board /\ e.prev = OnStage!None
    BY <1>8, <2>2 DEF e, OnStage!Patched, OnStage!BoardStarted, OnStage!Docs
  <2> QED  BY <1>2, <1>5, <2>1, <2>2, <2>3
<1>9. CASE p.kind = "boardEnds"
  <2>1. s5 /\ s4' = s4 /\ s5' = FALSE /\ s6' = IF s6 = OnStage!Board THEN OnStage!None ELSE s6
    BY <1>9 DEF Moved
  <2>2. /\ e.streams = d.streams
        /\ e.presenter = IF d.presenter = OnStage!Board THEN OnStage!None ELSE d.presenter
        /\ e.prev = IF d.prev = OnStage!Board THEN OnStage!None ELSE d.prev
    BY <1>9 DEF e, OnStage!Patched, OnStage!BoardEnded, OnStage!Docs
  <2> QED  BY <1>2, <2>1, <2>2
<1>10. CASE p.kind = "chosen"
  <2>1. /\ p.key \in Cameras \cup s4 \cup {OnStage!Board, OnStage!None} /\ (p.key = OnStage!Board => s5)
        /\ s4' = s4 /\ s5' = s5 /\ s6' = IF p.key \in Shares THEN OnStage!None ELSE p.key
    BY <1>10 DEF Moved
  <2>2. e.streams = d.streams /\ e.presenter = p.key /\ e.prev = OnStage!None
    BY <1>10 DEF e, OnStage!Patched, OnStage!Chosen, OnStage!Docs
  <2> QED  BY <1>2, <2>1, <2>2
<1>11. CASE p.kind = "other"
  <2>1. s4' = s4 /\ s5' = s5 /\ s6' = s6  BY <1>11 DEF Moved
  <2>2. e.streams = d.streams /\ e.presenter = d.presenter /\ e.prev = d.prev
    BY <1>11 DEF e, OnStage!Patched, OnStage!Docs
  <2> QED  BY <1>2, <2>1, <2>2
<1> QED  BY <1>6, <1>7, <1>8, <1>9, <1>10, <1>11 DEF OnStage!Patches

\* The documents that the patches under way lead to, each made of the one before.
Following(docs) ==
  /\ docs \in [0..Len(s2) -> OnStage!Docs]
  /\ s3 = {} => docs[0] = Bare(s1)
  /\ \A h \in s3 : docs[0] = Bare(OnStage!Patched(h.read, h.patch))
  /\ \A n \in 1..Len(s2) : docs[n] = Bare(OnStage!Patched(docs[n - 1], s2[n]))
  /\ OnStage!Good(docs[Len(s2)])

\* While nothing was written out of turn or refused, the last of them is as the room is.
StageFollows ==
  /\ s4 \subseteq Shares
  /\ ~s9 => \E docs : Following(docs)

StageInv == OnStage!StageTypes /\ OnStage!OneWriter /\ OnStage!OthersHold /\ StageFollows

LEMMA StageOthers ==
  /\ OnStage!Others = {i \in DOMAIN s2 : s2[i].kind = "other"}
  /\ s2 \in Seq(OnStage!Patches) => IsFiniteSet(OnStage!Others) /\ Cardinality(OnStage!Others) \in Nat
<1>1. OnStage!Others = {i \in DOMAIN s2 : s2[i].kind = "other"}  BY DEF OnStage!Others
<1>2. ASSUME s2 \in Seq(OnStage!Patches)  PROVE IsFiniteSet(OnStage!Others) /\ Cardinality(OnStage!Others) \in Nat
  <2>1. IsFiniteSet(1..Len(s2)) /\ OnStage!Others \subseteq 1..Len(s2)  BY <1>1, <1>2, FS_Interval
  <2> QED  BY <2>1, FS_Subset, FS_CardinalityType
<1> QED  BY <1>1, <1>2

\* How many of the patches that are being written are of the other writers.
LEMMA StageHeld ==
  /\ s3 = {} => Cardinality({h \in s3 : h.patch.kind = "other"}) = 0
  /\ \A h : s3 = {h} => Cardinality({g \in s3 : g.patch.kind = "other"}) = IF h.patch.kind = "other" THEN 1 ELSE 0
<1>1. s3 = {} => {h \in s3 : h.patch.kind = "other"} = {}  OBVIOUS
<1>2. ASSUME NEW h, s3 = {h}
      PROVE  {g \in s3 : g.patch.kind = "other"} = IF h.patch.kind = "other" THEN {h} ELSE {}
  BY <1>2
<1> QED  BY <1>1, <1>2, FS_EmptySet, FS_Singleton

LEMMA StageInit == OnStage!Init => StageInv
<1> SUFFICES ASSUME OnStage!Init  PROVE StageInv
  OBVIOUS
<1>1. /\ s1 = [presenter |-> OnStage!None, prev |-> OnStage!None, streams |-> <<>>, other |-> 0]
      /\ s2 = <<>> /\ s3 = {} /\ s4 = {} /\ s5 = FALSE /\ s6 = OnStage!None /\ s7 = 0 /\ s9 = FALSE
  BY DEF OnStage!Init
<1>2. s1 \in OnStage!Docs /\ Bare(s1) = s1  BY <1>1, StageKeys DEF OnStage!Docs, Bare
<1>3. OnStage!StageTypes
  <2>1. s2 \in Seq(OnStage!Patches)  BY <1>1
  <2> QED  BY <1>1, <1>2, <2>1 DEF OnStage!StageTypes
<1>4. OnStage!OneWriter  BY <1>1 DEF OnStage!OneWriter
<1>5. OnStage!OthersHold
  <2>1. OnStage!Others = {}  BY <1>1, StageOthers
  <2> QED  BY <1>1, <2>1, StageHeld, StageSizes, FS_EmptySet DEF OnStage!OthersHold
<1>6. OnStage!Good(s1)
  <2>1. OnStage!Range(<<>>) = {}  BY DEF OnStage!Range
  <2> QED  BY <1>1, <2>1, StageKeys DEF OnStage!Good
<1>7. Following([n \in 0..0 |-> s1])  BY <1>1, <1>2, <1>6 DEF Following
<1> QED  BY <1>1, <1>3, <1>4, <1>5, <1>7 DEF StageInv, StageFollows

\* A move is asked for.
LEMMA StageAsked ==
  ASSUME StageInv, NEW p \in OnStage!Patches, Moved(p),
         s1' = s1, s2' = Append(s2, p), s3' = s3, s9' = s9,
         s7' = IF p.kind = "other" THEN s7 + 1 ELSE s7
  PROVE  StageInv'
<1>L. PICK L \in Nat : L = Len(s2)  BY DEF StageInv, OnStage!StageTypes
<1>0. /\ s1 \in OnStage!Docs /\ s2 \in Seq(OnStage!Patches) /\ s9 \in BOOLEAN /\ s5 \in BOOLEAN /\ s4 \subseteq Shares
  BY DEF StageInv, OnStage!StageTypes, StageFollows
<1>1. /\ s2' \in Seq(OnStage!Patches) /\ Len(s2') = L + 1 /\ s2'[L + 1] = p
      /\ \A n \in 1..L : s2'[n] = s2[n]
  BY <1>0, <1>L
<1>2. s4' \subseteq Shares /\ s5' \in BOOLEAN  BY <1>0 DEF Moved
<1>3. OnStage!StageTypes'  BY <1>0, <1>1, <1>2 DEF OnStage!StageTypes
<1>4. OnStage!OneWriter'  BY DEF StageInv, OnStage!OneWriter
<1>5. OnStage!OthersHold'
  <2>1. DOMAIN s2 = 1..L /\ DOMAIN s2' = 1..(L + 1)  BY <1>0, <1>L, <1>1
  <2>2. OnStage!Others' = {i \in DOMAIN s2' : s2'[i].kind = "other"}  BY DEF OnStage!Others
  <2>3. OnStage!Others' = IF p.kind = "other" THEN OnStage!Others \cup {L + 1} ELSE OnStage!Others
    BY <2>1, <2>2, <1>0, <1>1, StageOthers
  <2>4. L + 1 \notin OnStage!Others  BY <2>1, <1>0, StageOthers
  <2>5. Cardinality(OnStage!Others') = IF p.kind = "other" THEN Cardinality(OnStage!Others) + 1
                                      ELSE Cardinality(OnStage!Others)
    BY <2>3, <2>4, <1>0, StageOthers, FS_AddElement
  <2> DEFINE c == Cardinality({h \in s3 : h.patch.kind = "other"})
  <2>6. s1.other + Cardinality(OnStage!Others) + c = s7
    BY StageSizes DEF StageInv, OnStage!OthersHold
  <2>7. c \in Nat
    <3>1. CASE s3 = {}  BY <3>1, StageHeld
    <3>2. CASE s3 # {}
      <4>1. PICK h : s3 = {h}  BY <3>2 DEF StageInv, OnStage!OneWriter
      <4>2. c = IF h.patch.kind = "other" THEN 1 ELSE 0  BY <4>1, StageHeld
      <4> HIDE DEF c
      <4> QED  BY <4>2
    <3> QED  BY <3>1, <3>2
  <2>8. s1.other \in Nat /\ Cardinality(OnStage!Others) \in Nat  BY <1>0, StageOthers DEF OnStage!Docs
  <2>9. s1'.other + Cardinality(OnStage!Others') + Cardinality({h \in s3' : h.patch.kind = "other"}) = s7'
    <3> HIDE DEF c
    <3>1. s1.other + Cardinality(OnStage!Others') + c = s7'  BY <2>5, <2>6, <2>7, <2>8
    <3> QED  BY <3>1 DEF c
  <2> QED  BY <2>9, StageSizes DEF OnStage!OthersHold
<1>6. ASSUME ~s9'  PROVE \E docs : Following(docs)'
  <2>1. PICK docs : Following(docs)  BY <1>6 DEF StageInv, StageFollows
  <2>p. PICK last : last = docs[L]  OBVIOUS
  <2>m. PICK more : more = [n \in 0..(L + 1) |-> IF n = L + 1 THEN Bare(OnStage!Patched(last, p)) ELSE docs[n]]  OBVIOUS
  <2>2. /\ docs \in [0..L -> OnStage!Docs] /\ last \in OnStage!Docs /\ OnStage!Good(last)
        /\ \A n \in 1..L : docs[n] = Bare(OnStage!Patched(docs[n - 1], s2[n]))
    BY <2>1, <2>p, <1>0, <1>L DEF Following
  <2>3. /\ OnStage!Patched(last, p) \in OnStage!Docs /\ Bare(OnStage!Patched(last, p)) \in OnStage!Docs
    <3>1. OnStage!Patched(last, p) \in OnStage!Docs  BY <2>2, StagePatched
    <3> QED  BY <3>1, StagePatched
  <2>4. OnStage!Good(Bare(OnStage!Patched(last, p)))'
    <3>1. OnStage!Good(OnStage!Patched(last, p))'  BY <1>0, <2>2, StageMoved
    <3> QED  BY <3>1, <2>3, StageBare
  <2>5. more \in [0..(L + 1) -> OnStage!Docs] /\ more[0] = docs[0]  BY <2>m, <2>2, <2>3
  <2>6. ASSUME NEW n \in 1..(L + 1)  PROVE more[n] = Bare(OnStage!Patched(more[n - 1], s2'[n]))
    <3>1. CASE n = L + 1  BY <3>1, <1>1, <2>m, <2>p
    <3>2. CASE n # L + 1
      <4>1. n \in 1..L /\ n - 1 \in 0..(L + 1) /\ n - 1 # L + 1 /\ n \in 0..(L + 1)  BY <3>2
      <4> QED  BY <4>1, <3>2, <2>2, <2>m, <1>1
    <3> QED  BY <3>1, <3>2
  <2>7. more[L + 1] = Bare(OnStage!Patched(last, p))  BY <2>m
  <2>8. Following(more)'
    <3>1. s3' = {} => more[0] = Bare(s1')  BY <2>1, <2>5 DEF Following
    <3>2. \A h \in s3' : more[0] = Bare(OnStage!Patched(h.read, h.patch))  BY <2>1, <2>5 DEF Following
    <3> QED  BY <3>1, <3>2, <1>1, <2>4, <2>5, <2>6, <2>7 DEF Following
  <2> QED  BY <2>8
<1> QED  BY <1>2, <1>3, <1>4, <1>5, <1>6 DEF StageInv, StageFollows

LEMMA StageRead ==
  ASSUME StageInv, NEW i \in DOMAIN s2, OnStage!Read(i)
  PROVE  StageInv'
<1>L. PICK L \in Nat : L = Len(s2)  BY DEF StageInv, OnStage!StageTypes
<1>0. /\ s1 \in OnStage!Docs /\ s2 \in Seq(OnStage!Patches) /\ s9 \in BOOLEAN /\ s5 \in BOOLEAN /\ s4 \subseteq Shares
      /\ i \in 1..L
  BY <1>L DEF StageInv, OnStage!StageTypes, StageFollows
<1>h. PICK g : g = [patch |-> s2[i], read |-> s1]  OBVIOUS
<1>p. s2[i] \in OnStage!Patches /\ g.patch = s2[i] /\ g.read = s1  BY <1>h, <1>0, <1>L
<1>1. /\ s3 = {} /\ s3' = {g} /\ s2' = OnStage!DropAt(s2, i)
      /\ s9' = (s9 \/ i # 1)
      /\ UNCHANGED <<s1, s4, s5, s6, s7>>
  BY <1>h DEF OnStage!Read, OnStage!Free
<1>2. /\ s2' \in Seq(OnStage!Patches) /\ Len(s2') = L - 1 /\ DOMAIN s2' = 1..(L - 1) /\ DOMAIN s2 = 1..L
      /\ \A n \in 1..(L - 1) : s2'[n] = IF n < i THEN s2[n] ELSE s2[n + 1]
  <2>1. i \in 1..Len(s2) /\ s2 \in Seq(OnStage!Patches)  BY <1>0, <1>L
  <2>2. /\ OnStage!DropAt(s2, i) \in Seq(OnStage!Patches)
        /\ Len(OnStage!DropAt(s2, i)) = L - 1
        /\ \A n \in 1..(L - 1) : OnStage!DropAt(s2, i)[n] = IF n < i THEN s2[n] ELSE s2[n + 1]
    BY <2>1, <1>L, StageRemoved
  <2>3. PICK q \in Seq(OnStage!Patches) : q = s2'  BY <2>2, <1>1
  <2>4. Len(q) = L - 1 /\ DOMAIN q = 1..(L - 1)  BY <2>2, <2>3, <1>1
  <2>5. DOMAIN s2 = 1..L  BY <1>0, <1>L
  <2> QED  BY <2>2, <2>3, <2>4, <2>5, <1>1
<1>3. OnStage!StageTypes'  BY <1>0, <1>1, <1>2 DEF OnStage!StageTypes
<1>4. OnStage!OneWriter'  BY <1>1, <1>p DEF OnStage!OneWriter
<1>5. OnStage!OthersHold'
  <2>1. PICK A : A = OnStage!Others  OBVIOUS
  <2>2. PICK B : B = OnStage!Others'  OBVIOUS
  <2>3. A = {n \in 1..L : s2[n].kind = "other"} /\ IsFiniteSet(A) /\ Cardinality(A) \in Nat
    BY <2>1, <1>0, <1>2, StageOthers
  <2>4. B = {n \in 1..(L - 1) : s2'[n].kind = "other"}
    <3>1. OnStage!Others' = {n \in DOMAIN s2' : s2'[n].kind = "other"}  BY DEF OnStage!Others
    <3> QED  BY <3>1, <2>2, <1>2
  <2>5. IsFiniteSet(A \ {i}) /\ Cardinality(A \ {i}) = IF s2[i].kind = "other" THEN Cardinality(A) - 1 ELSE Cardinality(A)
    BY <2>3, <1>0, FS_RemoveElement
  <2>6. PICK f : f = [n \in A \ {i} |-> IF n < i THEN n ELSE n - 1]  OBVIOUS
  <2>7. f \in Bijection(A \ {i}, B)
    <3>1. ASSUME NEW n \in A \ {i}  PROVE f[n] \in B /\ f[n] = IF n < i THEN n ELSE n - 1
      <4>1. n \in 1..L /\ n # i /\ s2[n].kind = "other" /\ f[n] = IF n < i THEN n ELSE n - 1  BY <2>3, <2>6
      <4>2. f[n] \in 1..(L - 1)  BY <4>1, <1>0
      <4>3. s2'[f[n]] = s2[n]  BY <4>1, <4>2, <1>2, <1>0
      <4> QED  BY <4>1, <4>2, <4>3, <2>4
    <3>2. f \in [A \ {i} -> B]  BY <3>1, <2>6
    <3>3. \A n, m \in A \ {i} : f[n] = f[m] => n = m
      <4>1. \A n \in A \ {i} : n \in Nat /\ n # i  BY <2>3
      <4>2. i \in Nat  BY <1>0
      <4> QED  BY <4>1, <4>2, <3>1
    <3>4. ASSUME NEW m \in B  PROVE \E n \in A \ {i} : f[n] = m
      <4>1. m \in 1..(L - 1) /\ s2'[m].kind = "other"  BY <2>4
      <4>2. CASE m < i
        <5>1. m \in 1..L /\ s2[m].kind = "other"  BY <4>1, <4>2, <1>2
        <5>2. m \in A \ {i} /\ m < i  BY <5>1, <4>1, <4>2, <2>3, <1>0
        <5> QED  BY <5>2, <3>1
      <4>3. CASE m >= i
        <5>1. m + 1 \in 1..L /\ s2[m + 1].kind = "other" /\ m + 1 # i /\ ~(m + 1 < i)
          BY <4>1, <4>3, <1>2, <1>0
        <5>2. PICK n \in A \ {i} : n = m + 1  BY <5>1, <2>3
        <5>3. f[n] = IF n < i THEN n ELSE n - 1  BY <3>1
        <5>4. f[n] = m  BY <5>1, <5>2, <5>3, <4>1
        <5> QED  BY <5>4
      <4> QED  BY <4>1, <4>2, <4>3, <1>0
    <3>5. f \in Injection(A \ {i}, B)  BY <3>2, <3>3 DEF Injection, IsInjective
    <3>6. f \in Surjection(A \ {i}, B)  BY <3>2, <3>4 DEF Surjection
    <3> QED  BY <3>5, <3>6 DEF Bijection
  <2>8. Cardinality(B) = Cardinality(A \ {i})
    <3>1. ExistsBijection(A \ {i}, B)  BY <2>7 DEF ExistsBijection
    <3> QED  BY <3>1, <2>5, FS_Bijection
  <2>9. s1.other + Cardinality(A) + 0 = s7
    BY <2>1, <1>1, StageHeld, StageSizes DEF StageInv, OnStage!OthersHold
  <2>10. PICK c : c = Cardinality({h \in s3' : h.patch.kind = "other"})  OBVIOUS
  <2>11. c = IF s2[i].kind = "other" THEN 1 ELSE 0
    <3>1. {h \in s3' : h.patch.kind = "other"} = IF s2[i].kind = "other" THEN {g} ELSE {}
      BY <1>1, <1>p
    <3> QED  BY <3>1, <2>10, FS_EmptySet, FS_Singleton
  <2>12. s1.other \in Nat  BY <1>0 DEF OnStage!Docs
  <2>13. s1'.other + Cardinality(B) + c = s7'  BY <2>3, <2>5, <2>8, <2>9, <2>11, <2>12, <1>1
  <2> QED  BY <2>13, <2>2, <2>10, StageSizes DEF OnStage!OthersHold
<1>6. ASSUME ~s9'  PROVE \E docs : Following(docs)'
  <2>0. i = 1 /\ ~s9  BY <1>6, <1>1, <1>0
  <2>1. PICK docs : Following(docs)  BY <2>0 DEF StageInv, StageFollows
  <2>2. PICK rest : rest = [n \in 0..(L - 1) |-> docs[n + 1]]  OBVIOUS
  <2>3. /\ docs \in [0..L -> OnStage!Docs] /\ docs[0] = Bare(s1) /\ OnStage!Good(docs[L])
        /\ \A n \in 1..L : docs[n] = Bare(OnStage!Patched(docs[n - 1], s2[n]))
    BY <2>1, <1>1, <1>L DEF Following
  <2>4. rest \in [0..(L - 1) -> OnStage!Docs] /\ rest[L - 1] = docs[L] /\ rest[0] = docs[1]
    BY <2>2, <2>3, <1>0
  <2>5. rest[0] = Bare(OnStage!Patched(s1, s2[i]))
    <3>1. docs[1] = Bare(OnStage!Patched(Bare(s1), s2[1]))  BY <2>3, <1>0
    <3> QED  BY <3>1, <2>0, <2>4, <1>0, <1>p, StagePatched
  <2>6. ASSUME NEW n \in 1..(L - 1)  PROVE rest[n] = Bare(OnStage!Patched(rest[n - 1], s2'[n]))
    <3>1. n \in 0..(L - 1) /\ n - 1 \in 0..(L - 1) /\ n - 1 + 1 = n /\ n + 1 \in 1..L /\ n + 1 - 1 = n
      OBVIOUS
    <3>2. rest[n] = docs[n + 1] /\ rest[n - 1] = docs[n]
      <4>1. rest[n] = docs[n + 1] /\ rest[n - 1] = docs[n - 1 + 1]  BY <2>2, <3>1
      <4> QED  BY <4>1, <3>1
    <3>3. s2'[n] = s2[n + 1]  BY <2>0, <1>2
    <3>4. docs[n + 1] = Bare(OnStage!Patched(docs[n + 1 - 1], s2[n + 1]))  BY <2>3, <3>1
    <3> QED  BY <3>1, <3>2, <3>3, <3>4
  <2>7. OnStage!Good(rest[L - 1])'  BY <2>3, <2>4, <1>1 DEF OnStage!Good
  <2>8. \A h \in s3' : rest[0] = Bare(OnStage!Patched(h.read, h.patch))  BY <2>5, <1>1, <1>p
  <2>9. s3' # {}  BY <1>1
  <2>10. Following(rest)'  BY <2>4, <2>6, <2>7, <2>8, <2>9, <1>2 DEF Following
  <2> QED  BY <2>10
<1> QED  BY <1>0, <1>1, <1>3, <1>4, <1>5, <1>6 DEF StageInv, StageFollows

\* A patch that was being written is written, or refused: the document, or what was asked for, is as if it was.
LEMMA StageLetGo ==
  ASSUME StageInv, NEW g \in s3, s3' = s3 \ {g}, UNCHANGED <<s2, s4, s5, s6>>,
         s9' \in BOOLEAN, s1' \in OnStage!Docs, s7 \in Int => s7' \in Int,
         ~s9' => ~s9 /\ Bare(s1') = Bare(OnStage!Patched(g.read, g.patch)),
         s7 \in Int => s1'.other + s7 = s7' + s1.other + (IF g.patch.kind = "other" THEN 1 ELSE 0)
  PROVE  StageInv'
<1>1. /\ s1 \in OnStage!Docs /\ s2 \in Seq(OnStage!Patches) /\ s5 \in BOOLEAN /\ s4 \subseteq Shares
      /\ s3 = {g} /\ s3' = {}
  BY DEF StageInv, OnStage!StageTypes, StageFollows, OnStage!OneWriter
<1>2. OnStage!StageTypes'  BY <1>1 DEF OnStage!StageTypes
<1>3. OnStage!OneWriter'  BY <1>1 DEF OnStage!OneWriter
<1>4. OnStage!OthersHold'
  <2>1. OnStage!Others' = OnStage!Others  BY DEF OnStage!Others
  <2>2. s1.other + Cardinality(OnStage!Others) + (IF g.patch.kind = "other" THEN 1 ELSE 0) = s7
    <3>1. s1.other + Cardinality(OnStage!Others) + Cardinality({h \in s3 : h.patch.kind = "other"}) = s7
      BY StageSizes DEF StageInv, OnStage!OthersHold
    <3>2. Cardinality({h \in s3 : h.patch.kind = "other"}) = IF g.patch.kind = "other" THEN 1 ELSE 0
      BY <1>1, StageHeld
    <3> QED  BY <3>1, <3>2
  <2>3. s1.other \in Nat /\ s1'.other \in Nat /\ Cardinality(OnStage!Others) \in Nat
    BY <1>1, StageOthers DEF OnStage!Docs
  <2>4. s7 \in Int  BY <2>2, <2>3
  <2>5. s1'.other + Cardinality(OnStage!Others') + 0 = s7'  BY <2>1, <2>2, <2>3, <2>4
  <2>6. {h \in s3' : h.patch.kind = "other"} = {}  BY <1>1
  <2>7. Cardinality({h \in s3' : h.patch.kind = "other"}) = 0  BY <2>6, FS_EmptySet
  <2> QED  BY <2>5, <2>7, StageSizes DEF OnStage!OthersHold
<1>5. ASSUME ~s9'  PROVE \E docs : Following(docs)'
  <2>1. PICK docs : Following(docs)  BY <1>5 DEF StageInv, StageFollows
  <2>2. docs[0] = Bare(OnStage!Patched(g.read, g.patch))  BY <2>1 DEF Following
  <2>3. OnStage!Good(docs[Len(s2)])'  BY <2>1 DEF Following, OnStage!Good
  <2>4. Following(docs)'  BY <1>1, <1>5, <2>1, <2>2, <2>3 DEF Following
  <2> QED  BY <2>4
<1> QED  BY <1>1, <1>2, <1>3, <1>4, <1>5 DEF StageInv, StageFollows

LEMMA StageStep == StageInv /\ [OnStage!Next]_(OnStage!vars) => StageInv'
<1> SUFFICES ASSUME StageInv, [OnStage!Next]_(OnStage!vars)
             PROVE  StageInv'
  OBVIOUS
<1>0. /\ s1 \in OnStage!Docs /\ s2 \in Seq(OnStage!Patches) /\ s9 \in BOOLEAN /\ s5 \in BOOLEAN /\ s4 \subseteq Shares
      /\ \A k \in Cameras \cup Shares \cup {OnStage!Board, OnStage!None} :
           \A d \in {"started", "stopped", "board", "boardEnds", "chosen", "other"} :
             [kind |-> d, key |-> k] \in OnStage!Patches
  BY StageKeys DEF StageInv, OnStage!StageTypes, StageFollows, OnStage!Patches
<1>1. CASE UNCHANGED OnStage!vars
  <2>1. UNCHANGED <<s1, s2, s3, s4, s5, s6, s7, s8, s9>>  BY <1>1 DEF OnStage!vars
  <2>2. OnStage!StageTypes' /\ OnStage!OneWriter' /\ OnStage!OthersHold'
    BY <2>1 DEF StageInv, OnStage!StageTypes, OnStage!OneWriter, OnStage!OthersHold, OnStage!Others
  <2>3. \A docs : Following(docs) => Following(docs)'  BY <2>1 DEF Following, OnStage!Good
  <2>4. StageFollows'  BY <2>1, <2>3 DEF StageInv, StageFollows
  <2> QED  BY <2>2, <2>4 DEF StageInv
<1>2. ASSUME NEW k \in Shares, OnStage!Publishes(k) \/ OnStage!Stops(k)  PROVE StageInv'
  <2>1. PICK p \in OnStage!Patches :
          /\ p.kind = (IF OnStage!Publishes(k) THEN "started" ELSE "stopped") /\ p.key = k
          /\ s2' = Append(s2, p)
    <3>1. CASE OnStage!Publishes(k)  BY <1>0, <3>1 DEF OnStage!Publishes, OnStage!Asks
    <3>2. CASE ~OnStage!Publishes(k) /\ OnStage!Stops(k)  BY <1>0, <3>2 DEF OnStage!Stops, OnStage!Asks
    <3> QED  BY <1>2, <3>1, <3>2
  <2>2. UNCHANGED <<s1, s3, s5, s6, s7, s9>>  BY <1>2 DEF OnStage!Publishes, OnStage!Stops, OnStage!Asks
  <2>3. Moved(p)
    <3>1. CASE OnStage!Publishes(k)  BY <2>1, <2>2, <3>1 DEF Moved, OnStage!Publishes
    <3>2. CASE ~OnStage!Publishes(k) /\ OnStage!Stops(k)  BY <2>1, <2>2, <3>2 DEF Moved, OnStage!Stops
    <3> QED  BY <1>2, <3>1, <3>2
  <2> QED  BY <2>1, <2>2, <2>3, StageAsked
<1>3. CASE OnStage!SessionStarts
  <2>1. PICK p \in OnStage!Patches : p = [kind |-> "board", key |-> OnStage!None]  BY <1>0
  <2>2. /\ ~s5 /\ s5' = TRUE /\ s6' = OnStage!Board /\ s2' = Append(s2, p)
        /\ UNCHANGED <<s1, s3, s4, s7, s9>>
    BY <1>3, <2>1 DEF OnStage!SessionStarts, OnStage!Asks
  <2>3. Moved(p) /\ p.kind # "other"  BY <2>1, <2>2 DEF Moved
  <2> QED  BY <2>2, <2>3, StageAsked
<1>4. CASE OnStage!SessionEnds
  <2>1. PICK p \in OnStage!Patches : p = [kind |-> "boardEnds", key |-> OnStage!None]  BY <1>0
  <2>2. /\ s5 /\ s5' = FALSE /\ s6' = IF s6 = OnStage!Board THEN OnStage!None ELSE s6
        /\ s2' = Append(s2, p)
        /\ UNCHANGED <<s1, s3, s4, s7, s9>>
    BY <1>4, <2>1 DEF OnStage!SessionEnds, OnStage!Asks
  <2>3. Moved(p) /\ p.kind # "other"  BY <2>1, <2>2 DEF Moved
  <2> QED  BY <2>2, <2>3, StageAsked
<1>5. CASE OnStage!Writes
  <2>1. PICK p \in OnStage!Patches : p = [kind |-> "other", key |-> OnStage!None]  BY <1>0
  <2>2. /\ s7' = s7 + 1 /\ s2' = Append(s2, p)
        /\ UNCHANGED <<s1, s3, s4, s5, s6, s9>>
    BY <1>5, <2>1 DEF OnStage!Writes, OnStage!Asks
  <2>3. Moved(p) /\ p.kind = "other"  BY <2>1, <2>2 DEF Moved
  <2> QED  BY <2>2, <2>3, StageAsked
<1>6. ASSUME NEW k \in Cameras \cup s4 \cup {OnStage!Board, OnStage!None}, OnStage!Chooses(k)  PROVE StageInv'
  <2>1. PICK p \in OnStage!Patches : p = [kind |-> "chosen", key |-> k]  BY <1>0
  <2>2. /\ (k = OnStage!Board => s5) /\ s6' = IF k \in Shares THEN OnStage!None ELSE k
        /\ s2' = Append(s2, p)
        /\ UNCHANGED <<s1, s3, s4, s5, s7, s9>>
    BY <1>6, <2>1 DEF OnStage!Chooses, OnStage!Asks
  <2>3. Moved(p) /\ p.kind # "other"  BY <2>1, <2>2, <1>6 DEF Moved
  <2> QED  BY <2>2, <2>3, StageAsked
<1>7. ASSUME NEW i \in DOMAIN s2, OnStage!Read(i)  PROVE StageInv'
  BY <1>7, StageRead
<1>8. ASSUME NEW g \in s3, OnStage!Write(g)  PROVE StageInv'
  <2>1. /\ s3' = s3 \ {g} /\ s1' = OnStage!Patched(g.read, g.patch)
        /\ UNCHANGED <<s2, s4, s5, s6, s7, s9>>
    BY <1>8 DEF OnStage!Write
  <2>2. g.patch \in OnStage!Patches /\ g.read = s1  BY DEF StageInv, OnStage!OneWriter
  <2>3. s1' \in OnStage!Docs /\ s1'.other = IF g.patch.kind = "other" THEN s1.other + 1 ELSE s1.other
    BY <1>0, <2>1, <2>2, StagePatched
  <2>4. s1.other \in Nat  BY <1>0 DEF OnStage!Docs
  <2> QED  BY <1>0, <2>1, <2>3, <2>4, StageLetGo
<1>9. ASSUME NEW g \in s3, OnStage!Refused(g)  PROVE StageInv'
  <2>1. /\ s3' = s3 \ {g} /\ UNCHANGED <<s1, s2, s4, s5, s6>>
        /\ IF g.patch.kind = "other" THEN s7' = s7 - 1 /\ s9' = s9 ELSE s9' = TRUE /\ s7' = s7
    BY <1>9 DEF OnStage!Refused
  <2>2. g.patch \in OnStage!Patches /\ g.read = s1  BY DEF StageInv, OnStage!OneWriter
  <2>3. g.patch.kind = "other" => Bare(s1') = Bare(OnStage!Patched(g.read, g.patch))
    BY <1>0, <2>1, <2>2, StagePatched
  <2>4. s1.other \in Nat  BY <1>0 DEF OnStage!Docs
  <2>5. CASE g.patch.kind = "other"
    <3>1. s7' = s7 - 1 /\ s9' = s9  BY <2>1, <2>5
    <3>2. s7 \in Int => s7' \in Int /\ s1'.other + s7 = s7' + s1.other + (IF g.patch.kind = "other" THEN 1 ELSE 0)
      BY <2>1, <2>4, <2>5, <3>1
    <3> QED  BY <1>0, <2>1, <2>3, <2>5, <3>1, <3>2, StageLetGo
  <2>6. CASE g.patch.kind # "other"
    <3>1. s7' = s7 /\ s9' = TRUE  BY <2>1, <2>6
    <3>2. s7 \in Int => s7' \in Int /\ s1'.other + s7 = s7' + s1.other + (IF g.patch.kind = "other" THEN 1 ELSE 0)
      BY <2>1, <2>4, <2>6, <3>1
    <3> QED  BY <1>0, <2>1, <3>1, <3>2, StageLetGo
  <2> QED  BY <2>5, <2>6
<1> QED  BY <1>1, <1>2, <1>3, <1>4, <1>5, <1>6, <1>7, <1>8, <1>9 DEF OnStage!Next

\* Once all is written, nothing was lost and the document is as the room is.
LEMMA StageGives == StageInv => OnStage!NothingLost /\ OnStage!StageGivenBack
<1> SUFFICES ASSUME StageInv, s2 = <<>>, s3 = {}
             PROVE  /\ s1.other = s7
                    /\ ~s9 => /\ OnStage!Range(s1.streams) = s4
                              /\ s1.presenter \in Shares => s1.presenter \in s4
                              /\ s4 = {} => s1.presenter = s6
                              /\ ~s5 => OnStage!Board \notin {s1.presenter, s1.prev}
  BY DEF OnStage!NothingLost, OnStage!StageGivenBack, OnStage!Quiet
<1>0. s1 \in OnStage!Docs /\ s4 \subseteq Shares  BY DEF StageInv, OnStage!StageTypes, StageFollows
<1>1. s1.other = s7
  <2>1. OnStage!Others = {}  BY StageOthers
  <2>2. s1.other + 0 + 0 = s7
    BY <2>1, StageHeld, StageSizes, FS_EmptySet DEF StageInv, OnStage!OthersHold
  <2>3. s1.other \in Nat  BY <1>0 DEF OnStage!Docs
  <2> QED  BY <2>2, <2>3
<1>2. ASSUME ~s9  PROVE OnStage!Good(s1)
  <2>1. PICK docs : Following(docs)  BY <1>2 DEF StageInv, StageFollows
  <2>2. OnStage!Good(Bare(s1))  BY <2>1 DEF Following
  <2> QED  BY <2>2, <1>0, StageBare
<1> QED  BY <1>0, <1>1, <1>2, StageKeys DEF OnStage!Good

(* No writer's change of the room metadata is lost, whatever order they     *)
(* come in, and once all moves are written in their order the stage is a    *)
(* stream's that runs, and is given back with the last of them: at every    *)
(* moment the patches under way lead, one after the other, to a document    *)
(* that has the stage as the room is then.                                  *)
THEOREM StageAlwaysHolds == ServicesSpec => []StageHolds
<1> DEFINE Inv == part = "stage" => StageInv
<1>1. ServicesInit => Inv  BY StageInit DEF ServicesInit
<1>2. Inv /\ [ServicesNext]_all => Inv'  BY StageStep, StepOfPart
<1>3. Inv => StageHolds  BY StageGives DEF StageHolds
<1> QED  BY <1>1, <1>2, <1>3, PTL DEF ServicesSpec

-----------------------------------------------------------------------------
(* The speech service: the gates and the tries of the final pass.           *)
LEMMA ServiceSizes ==
  /\ \A S : Service!Cardinality(S) = Cardinality(S)
  /\ \A S : Service!IsFiniteSet(S) = IsFiniteSet(S)
BY DEF Service!Cardinality, Cardinality, Service!IsFiniteSet, IsFiniteSet

LEMMA ServiceInit == Service!Init => Service!ServiceHolds
<1> SUFFICES ASSUME Service!Init PROVE Service!ServiceHolds  OBVIOUS
<1> USE BoundsAssumption DEF Service!Init
<1>1. Service!ServiceTypes  BY DEF Service!ServiceTypes, Service!Requests, Service!Asks, Service!Gates
<1>2. ASSUME NEW k \in {"stt", "tts"} PROVE Service!GateHolds(s6[k], s4)
  <2>1. s6[k].line = <<>> /\ Service!Holders(s6[k]) = {} /\ s6[k].running = {}  BY DEF Service!Holders
  <2>2. IsFiniteSet({}) /\ Cardinality({}) = 0  BY FS_EmptySet
  <2>3. Service!IsFiniteSet({}) /\ Service!Cardinality({}) = 0  BY <2>2, ServiceSizes
  <2>4. Len(s6[k].line) = 0  BY <2>1
  <2>5. \A i \in 1..Len(s6[k].line) : FALSE  BY <2>4
  <2>6. Least \in Nat  OBVIOUS
  <2>7. 0 <= Least  BY <2>6
  <2>8. {} \subseteq s4 /\ s6[k].running \cap s6[k].woken = {}  BY <2>1
  <2> QED  BY <2>1, <2>3, <2>5, <2>7, <2>8, Zenon DEF Service!GateHolds
<1>3. Service!GatesHold  BY <1>2 DEF Service!GatesHold, Service!Holders, Service!Range
<1>4. Service!TriesHold  BY DEF Service!TriesHold
<1> QED  BY <1>1, <1>3, <1>4 DEF Service!ServiceHolds

\* What may be written of an utterance, and of a gate.
LEMMA AskPut ==
  ASSUME s1 \in Nat, NEW a \in Service!Asks
  PROVE  /\ \A f \in BOOLEAN : [a EXCEPT !.is = "queued", !.final = f] \in Service!Asks
         /\ \A n \in Nat : [a EXCEPT !.is = "sent", !.at = n] \in Service!Asks
         /\ \A w \in {"kept", "queued", "answered"} : [a EXCEPT !.is = w] \in Service!Asks
         /\ Service!Failed(a) \in Service!Asks /\ Service!Refused(a) \in Service!Asks
<1>1. /\ \A f \in BOOLEAN : [a EXCEPT !.is = "queued", !.final = f] \in Service!Asks
      /\ \A n \in Nat : [a EXCEPT !.is = "sent", !.at = n] \in Service!Asks
      /\ \A w \in {"kept", "queued", "answered"} : [a EXCEPT !.is = w] \in Service!Asks
  BY DEF Service!Asks
<1>2. /\ \A n \in Nat : [a EXCEPT !.errors = n] \in Service!Asks /\ [a EXCEPT !.busy = n] \in Service!Asks
      /\ \A n \in Nat : [a EXCEPT !.is = "given up", !.errors = n] \in Service!Asks
      /\ \A n \in Nat : [a EXCEPT !.is = "given up", !.busy = n] \in Service!Asks
  BY DEF Service!Asks
<1>3. a.errors \in Nat /\ a.busy \in Nat  BY DEF Service!Asks
<1>4. a.errors + 1 \in Nat /\ a.busy + 1 \in Nat  BY <1>3
<1>5. ASSUME NEW x \in Service!Asks PROVE Service!Rest(x, Least) \in Service!Asks
  <2>1. s1 + Least \in Nat  BY BoundsAssumption
  <2>2. \A n \in Nat : [x EXCEPT !.is = "resting", !.at = n] \in Service!Asks  BY DEF Service!Asks
  <2> QED  BY <2>1, <2>2 DEF Service!Rest
<1>6. [a EXCEPT !.is = "kept"] \in Service!Asks  BY <1>1
<1>7. Service!Failed(a) \in Service!Asks  BY <1>2, <1>4, <1>5, <1>6, Zenon DEF Service!Failed
<1>8. Service!Refused(a) \in Service!Asks  BY <1>2, <1>4, <1>5, <1>6, Zenon DEF Service!Refused
<1> QED  BY <1>1, <1>7, <1>8

LEMMA GatePut ==
  ASSUME NEW g \in Service!Gates, NEW q \in Service!Requests
  PROVE  /\ Service!Enter(g, q) \in Service!Gates /\ Service!Release(g, q) \in Service!Gates
         /\ [g EXCEPT !.woken = g.woken \ {q}, !.running = g.running \cup {q}] \in Service!Gates
<1>1. Append(g.line, q) \in Seq(Service!Requests)  BY DEF Service!Gates
<1>2. Service!Enter(g, q) \in Service!Gates  BY <1>1 DEF Service!Enter, Service!Gates
<1>3. CASE g.line = <<>>  BY <1>2, <1>3 DEF Service!Release, Service!Gates
<1>4. CASE g.line # <<>>
  <2>1. g.line \in Seq(Service!Requests)  BY DEF Service!Gates
  <2>2. Tail(g.line) \in Seq(Service!Requests) /\ Head(g.line) \in Service!Requests
    BY <2>1, <1>4, HeadTailProperties
  <2> QED  BY <1>2, <1>4, <2>2 DEF Service!Release, Service!Gates
<1> QED  BY <1>3, <1>4

\* A reply changes what is asked of its own utterance only.
LEMMA Replied ==
  ASSUME Service!ServiceTypes, NEW q, NEW a, Service!Waits(q) => a \in Service!Asks, Service!Reply(q, a)
  PROVE  /\ s2' \in [Utterances -> Service!Asks]
         /\ \A u \in Utterances : s2'[u] = IF Service!Waits(q) /\ u = q.u THEN a ELSE s2[u]
BY DEF Service!Reply, Service!Waits, Service!ServiceTypes

\* Each step: what it may do to what is asked of an utterance, and to a gate.
LEMMA ServiceTyped == Service!ServiceTypes /\ [Service!Next]_(Service!vars) => Service!ServiceTypes'
<1> SUFFICES ASSUME Service!ServiceTypes, [Service!Next]_(Service!vars) PROVE Service!ServiceTypes'  OBVIOUS
<1>0. /\ Few \in Nat /\ s1 \in 0..Few /\ s1 \in Nat /\ s2 \in [Utterances -> Service!Asks]
      /\ s6 \in [{"stt", "tts"} -> Service!Gates] /\ s3 \cup s4 \cup s5 \subseteq Service!Requests
  BY BoundsAssumption DEF Service!ServiceTypes
<1>r. Service!Requests' = Service!Requests /\ Service!Gates' = Service!Gates /\ Service!Asks' = Service!Asks
  BY DEF Service!Requests, Service!Gates, Service!Asks
<1>s. ASSUME s1' \in 0..Few, s2' \in [Utterances -> Service!Asks],
             s3' \cup s4' \cup s5' \subseteq Service!Requests, s6' \in [{"stt", "tts"} -> Service!Gates]
      PROVE  Service!ServiceTypes'
  BY <1>s, <1>r DEF Service!ServiceTypes
<1>1. CASE Service!Tick \/ UNCHANGED Service!vars
  BY <1>1, <1>0, <1>s DEF Service!Tick, Service!vars
<1>2. CASE Service!Stranger
  <2>1. ASSUME NEW u \in Strangers \cup Texts PROVE [u |-> u, at |-> s1, final |-> FALSE] \in Service!Requests
    BY <1>0 DEF Service!Requests
  <2> QED  BY <1>2, <2>1, <1>0, <1>s DEF Service!Stranger
<1>3. ASSUME NEW u \in Utterances, Service!Begin(u) PROVE Service!ServiceTypes'
  <2>1. PICK f \in BOOLEAN : s2' = [s2 EXCEPT ![u].is = "queued", ![u].final = f]  BY <1>3 DEF Service!Begin
  <2>2. [s2[u] EXCEPT !.is = "queued", !.final = f] \in Service!Asks  BY <1>0, AskPut
  <2>3. s2' = [s2 EXCEPT ![u] = [s2[u] EXCEPT !.is = "queued", !.final = f]]  BY <2>1, <1>0
  <2>4. s2' \in [Utterances -> Service!Asks]  BY <2>2, <2>3, <1>0
  <2> QED  BY <1>3, <2>4, <1>0, <1>s DEF Service!Begin
<1>4. ASSUME NEW u \in Utterances, Service!Send(u) PROVE Service!ServiceTypes'
  <2>1. [s2[u] EXCEPT !.is = "sent", !.at = s1] \in Service!Asks  BY <1>0, AskPut
  <2>2. s2' = [s2 EXCEPT ![u] = [s2[u] EXCEPT !.is = "sent", !.at = s1]]  BY <1>4, <1>0 DEF Service!Send
  <2>3. s2' \in [Utterances -> Service!Asks]  BY <2>1, <2>2, <1>0
  <2>4. s2[u].final \in BOOLEAN  BY <1>0 DEF Service!Asks
  <2>5. [u |-> u, at |-> s1, final |-> s2[u].final] \in Service!Requests  BY <1>0, <2>4 DEF Service!Requests
  <2> QED  BY <1>4, <2>3, <2>5, <1>0, <1>s DEF Service!Send
<1>5. ASSUME NEW u \in Utterances, Service!Late(u) PROVE Service!ServiceTypes'
  <2>1. Service!Failed(s2[u]) \in Service!Asks  BY <1>0, AskPut
  <2>2. s2' \in [Utterances -> Service!Asks]  BY <1>5, <2>1, <1>0 DEF Service!Late
  <2> QED  BY <1>5, <2>2, <1>0, <1>s DEF Service!Late
<1>6. ASSUME NEW u \in Utterances, Service!Again(u) PROVE Service!ServiceTypes'
  <2>1. [s2[u] EXCEPT !.is = "queued"] \in Service!Asks  BY <1>0, AskPut
  <2>2. s2' \in [Utterances -> Service!Asks]  BY <1>6, <2>1, <1>0 DEF Service!Again
  <2> QED  BY <1>6, <2>2, <1>0, <1>s DEF Service!Again
<1>w. ASSUME NEW q, Service!Waits(q)
      PROVE  /\ s2[q.u] \in Service!Asks /\ [s2[q.u] EXCEPT !.is = "answered"] \in Service!Asks
             /\ Service!Failed(s2[q.u]) \in Service!Asks /\ Service!Refused(s2[q.u]) \in Service!Asks
  <2>1. s2[q.u] \in Service!Asks  BY <1>w, <1>0 DEF Service!Waits
  <2> QED  BY <2>1, <1>0, AskPut
<1>7. ASSUME NEW q \in s3, Service!Arrive(q) PROVE Service!ServiceTypes'
  <2>1. q \in Service!Requests  BY <1>0
  <2>2. CASE Service!Reply(q, Service!Failed(s2[q.u])) /\ UNCHANGED <<s4, s5, s6>>
    <3>1. s2' \in [Utterances -> Service!Asks]  BY <2>2, <1>w, Replied
    <3> QED  BY <1>7, <2>2, <3>1, <1>0, <1>s DEF Service!Arrive
  <2>3. CASE UNCHANGED s2 /\ s4' = s4 \cup {q}
    <3>1. s6["tts"] \in Service!Gates  BY <1>0
    <3>2. s6' \in [{"stt", "tts"} -> Service!Gates]
      BY <1>7, <2>1, <2>3, <3>1, <1>0, GatePut DEF Service!Arrive
    <3>3. s3' \cup s4' \cup s5' \subseteq Service!Requests  BY <1>7, <2>1, <2>3, <1>0 DEF Service!Arrive
    <3> QED  BY <1>7, <2>3, <3>2, <3>3, <1>0, <1>s DEF Service!Arrive
  <2> QED  BY <1>7, <2>2, <2>3 DEF Service!Arrive
<1>8. ASSUME NEW q \in s5, Service!Admit(q) PROVE Service!ServiceTypes'
  <2>1. q \in Service!Requests /\ s6["stt"] \in Service!Gates  BY <1>0
  <2>2. s6' \in [{"stt", "tts"} -> Service!Gates]  BY <1>8, <2>1, <1>0, GatePut DEF Service!Admit
  <2>3. s2' \in [Utterances -> Service!Asks]  BY <1>8, <1>w, <1>0, Replied DEF Service!Admit
  <2> QED  BY <1>8, <2>1, <2>2, <2>3, <1>0, <1>s DEF Service!Admit
<1>9. ASSUME NEW k \in {"stt", "tts"}, Service!Resume(k) PROVE Service!ServiceTypes'
  <2>1. PICK q \in s6[k].woken :
          s6' = [s6 EXCEPT ![k].woken = @ \ {q}, ![k].running = @ \cup {q}]
    BY <1>9 DEF Service!Resume
  <2>2. s6[k] \in Service!Gates /\ q \in Service!Requests  BY <1>0 DEF Service!Gates
  <2>3. s6' = [s6 EXCEPT ![k] = [s6[k] EXCEPT !.woken = s6[k].woken \ {q}, !.running = s6[k].running \cup {q}]]
    BY <2>1, <1>0
  <2>4. s6' \in [{"stt", "tts"} -> Service!Gates]  BY <2>2, <2>3, <1>0, GatePut
  <2> QED  BY <1>9, <2>4, <1>0, <1>s DEF Service!Resume
<1>10. ASSUME NEW k \in {"stt", "tts"}, Service!Done(k) PROVE Service!ServiceTypes'
  <2>1. PICK q \in s6[k].running :
          /\ s6' = [s6 EXCEPT ![k] = Service!Release(@, q)]
          /\ \/ UNCHANGED s2
             \/ Service!Reply(q, [s2[q.u] EXCEPT !.is = "answered"])
             \/ Service!Reply(q, Service!Failed(s2[q.u]))
    BY <1>10 DEF Service!Done
  <2>2. s6[k] \in Service!Gates /\ q \in Service!Requests  BY <1>0 DEF Service!Gates
  <2>3. s6' \in [{"stt", "tts"} -> Service!Gates]  BY <2>1, <2>2, <1>0, GatePut
  <2>4. s2' \in [Utterances -> Service!Asks]  BY <2>1, <1>w, <1>0, Replied
  <2> QED  BY <1>10, <2>3, <2>4, <1>0, <1>s DEF Service!Done
<1> QED  BY <1>1, <1>2, <1>3, <1>4, <1>5, <1>6, <1>7, <1>8, <1>9, <1>10 DEF Service!Next

\* What a gate's invariant says, with the library's cardinality.
LEMMA GateMeans ==
  ASSUME NEW g, NEW S
  PROVE  Service!GateHolds(g, S) <=>
           /\ IsFiniteSet(Service!Holders(g)) /\ Service!Holders(g) \subseteq S /\ g.running \cap g.woken = {}
           /\ \A i \in 1..Len(g.line) :
                /\ g.line[i] \in S \ Service!Holders(g)
                /\ \A j \in 1..Len(g.line) : i # j => g.line[i] # g.line[j]
           /\ Cardinality(Service!Holders(g)) <= Least
           /\ g.line # <<>> => Cardinality(Service!Holders(g)) = Least
BY ServiceSizes, Zenon DEF Service!GateHolds

\* A request that is nowhere at the gate enters it.
LEMMA GateEntered ==
  ASSUME NEW g \in Service!Gates, NEW q \in Service!Requests, NEW S, NEW T, Service!GateHolds(g, S),
         S \subseteq T, q \in T, q \notin Service!Holders(g), \A i \in 1..Len(g.line) : g.line[i] # q
  PROVE  Service!GateHolds(Service!Enter(g, q), T)
<1>0. /\ g.line \in Seq(Service!Requests) /\ Len(g.line) \in Nat
      /\ IsFiniteSet(Service!Holders(g)) /\ Cardinality(Service!Holders(g)) \in Nat /\ Least \in Nat
      /\ g.line = <<>> <=> Len(g.line) = 0
  BY FS_CardinalityType, GateMeans, BoundsAssumption, EmptySeq DEF Service!Gates
<1>1. CASE Service!MustWait(g)
  <2> DEFINE h == [g EXCEPT !.line = Append(g.line, q)]
  <2>1. Service!Enter(g, q) = h  BY <1>1 DEF Service!Enter
  <2>2. h.line = Append(g.line, q) /\ h.running = g.running /\ h.woken = g.woken  BY DEF Service!Gates
  <2>3. Service!Holders(h) = Service!Holders(g)  BY <2>2 DEF Service!Holders
  <2>4. /\ Len(h.line) = Len(g.line) + 1 /\ h.line[Len(g.line) + 1] = q
        /\ \A i \in 1..Len(g.line) : h.line[i] = g.line[i]
    BY <2>2, <1>0, AppendProperties
  <2>5. Cardinality(Service!Holders(g)) = Least
    <3>1. Cardinality(Service!Holders(g)) + Len(g.line) >= Least
      BY <1>1, ServiceSizes DEF Service!MustWait, Service!Holders
    <3> QED  BY <3>1, <1>0, GateMeans
  <2>6. \A i \in 1..(Len(g.line) + 1) : i \in 1..Len(g.line) \/ i = Len(g.line) + 1  BY <1>0
  <2>7. \A i \in 1..Len(g.line) : g.line[i] \in S \ Service!Holders(g)
    BY GateMeans
  <2>8. \A i, j \in 1..Len(g.line) : i # j => g.line[i] # g.line[j]  BY GateMeans
  <2>9. \A i \in 1..Len(h.line) :
          /\ h.line[i] \in T \ Service!Holders(h)
          /\ \A j \in 1..Len(h.line) : i # j => h.line[i] # h.line[j]
    BY <2>3, <2>4, <2>6, <2>7, <2>8
  <2>10. Service!Holders(h) \subseteq T /\ h.running \cap h.woken = {} /\ IsFiniteSet(Service!Holders(h))
    BY <2>2, <2>3, GateMeans
  <2>11. Cardinality(Service!Holders(h)) <= Least /\ Cardinality(Service!Holders(h)) = Least
    BY <2>3, <2>5, <1>0
  <2> HIDE DEF h
  <2> QED  BY <2>1, <2>9, <2>10, <2>11, GateMeans
<1>2. CASE ~Service!MustWait(g)
  <2> DEFINE h == [g EXCEPT !.running = g.running \cup {q}]
  <2>1. Service!Enter(g, q) = h  BY <1>2 DEF Service!Enter
  <2>2. h.line = g.line /\ h.running = g.running \cup {q} /\ h.woken = g.woken  BY DEF Service!Gates
  <2>3. Service!Holders(h) = Service!Holders(g) \cup {q}  BY <2>2 DEF Service!Holders
  <2>4. Cardinality(Service!Holders(g)) + Len(g.line) < Least
    <3>1. ~(Cardinality(Service!Holders(g)) + Len(g.line) >= Least)
      BY <1>2, ServiceSizes DEF Service!MustWait, Service!Holders
    <3> QED  BY <3>1, <1>0
  <2>5. g.line = <<>> /\ Len(g.line) = 0  BY <2>4, <1>0, GateMeans
  <2>6. IsFiniteSet(Service!Holders(h)) /\ Cardinality(Service!Holders(h)) = Cardinality(Service!Holders(g)) + 1
    <3>1. /\ IsFiniteSet(Service!Holders(g) \cup {q})
          /\ Cardinality(Service!Holders(g) \cup {q}) = Cardinality(Service!Holders(g)) + 1
      BY <1>0, FS_AddElement
    <3> QED  BY <2>3, <3>1, Zenon
  <2>7. Cardinality(Service!Holders(h)) <= Least  BY <2>4, <2>5, <2>6, <1>0
  <2>8. Service!Holders(h) \subseteq T /\ h.running \cap h.woken = {}
    BY <2>2, <2>3, GateMeans DEF Service!Holders
  <2>9. \A i \in 1..Len(h.line) : FALSE  BY <2>2, <2>5
  <2> HIDE DEF h
  <2> QED  BY <2>1, <2>2, <2>5, <2>6, <2>7, <2>8, <2>9, GateMeans
<1> QED  BY <1>1, <1>2

\* The slot of a request that is done is the first one's in line.
LEMMA GateReleased ==
  ASSUME NEW g \in Service!Gates, NEW S, NEW q \in g.running, Service!GateHolds(g, S)
  PROVE  Service!GateHolds(Service!Release(g, q), S)
<1> DEFINE left == [g EXCEPT !.running = @ \ {q}]
<1>0. /\ g.line \in Seq(Service!Requests) /\ Len(g.line) \in Nat
      /\ IsFiniteSet(Service!Holders(g)) /\ Cardinality(Service!Holders(g)) \in Nat /\ Least \in Nat
      /\ Cardinality(Service!Holders(g)) <= Least
      /\ g.running \cap g.woken = {} /\ Service!Holders(g) \subseteq S
      /\ q \in Service!Holders(g)
  <2>1. g.line \in Seq(Service!Requests) /\ Len(g.line) \in Nat /\ Least \in Nat
    BY BoundsAssumption DEF Service!Gates
  <2>2. q \in Service!Holders(g)  BY DEF Service!Holders
  <2> QED  BY <2>1, <2>2, FS_CardinalityType, GateMeans
<1>1. left.line = g.line /\ left.running = g.running \ {q} /\ left.woken = g.woken  BY DEF Service!Gates
<1>2. Service!Holders(left) = Service!Holders(g) \ {q}  BY <1>0, <1>1 DEF Service!Holders
<1>3. /\ IsFiniteSet(Service!Holders(g) \ {q})
      /\ Cardinality(Service!Holders(g) \ {q}) = Cardinality(Service!Holders(g)) - 1
  BY <1>0, FS_RemoveElement
<1>4. CASE g.line = <<>>
  <2>1. Service!Release(g, q) = left  BY <1>4 DEF Service!Release
  <2>2. IsFiniteSet(Service!Holders(left)) /\ Cardinality(Service!Holders(left)) = Cardinality(Service!Holders(g)) - 1
    BY <1>2, <1>3, Zenon
  <2>3. Cardinality(Service!Holders(left)) <= Least  BY <2>2, <1>0
  <2>4. Service!Holders(left) \subseteq S /\ left.running \cap left.woken = {}  BY <1>0, <1>1, <1>2
  <2>5. left.line = <<>> /\ \A i \in 1..Len(left.line) : FALSE  BY <1>1, <1>4
  <2> HIDE DEF left
  <2> QED  BY <2>1, <2>2, <2>3, <2>4, <2>5, GateMeans
<1>5. CASE g.line # <<>>
  <2> DEFINE h == [left EXCEPT !.line = Tail(@), !.woken = @ \cup {Head(g.line)}]
             b == Head(g.line)
  <2>1. Service!Release(g, q) = h  BY <1>5 DEF Service!Release
  <2>2. h.line = Tail(g.line) /\ h.running = g.running \ {q} /\ h.woken = g.woken \cup {b}
    BY <1>1 DEF Service!Gates
  <2>3. Service!Holders(h) = (Service!Holders(g) \ {q}) \cup {b}  BY <2>2, <1>0 DEF Service!Holders
  <2>4. /\ Len(g.line) >= 1 /\ b = g.line[1] /\ Tail(g.line) \in Seq(Service!Requests)
        /\ Len(Tail(g.line)) = Len(g.line) - 1
        /\ \A i \in 1..Len(Tail(g.line)) : Tail(g.line)[i] = g.line[i + 1]
    BY <1>0, <1>5, HeadTailProperties, EmptySeq
  <2>5. \A i \in 1..Len(g.line) : g.line[i] \in S \ Service!Holders(g)  BY GateMeans
  <2>6. \A i, j \in 1..Len(g.line) : i # j => g.line[i] # g.line[j]  BY GateMeans
  <2>7. b \in S /\ b \notin Service!Holders(g)  BY <2>4, <2>5, <1>0
  <2>8. IsFiniteSet(Service!Holders(h)) /\ Cardinality(Service!Holders(h)) = Least
    <3>1. /\ IsFiniteSet((Service!Holders(g) \ {q}) \cup {b})
          /\ Cardinality((Service!Holders(g) \ {q}) \cup {b}) = Cardinality(Service!Holders(g) \ {q}) + 1
      <4>1. b \notin Service!Holders(g) \ {q}  BY <2>7
      <4> QED  BY <1>3, <4>1, FS_AddElement, Zenon
    <3>2. Cardinality(Service!Holders(g)) = Least  BY <1>5, GateMeans
    <3>3. Cardinality((Service!Holders(g) \ {q}) \cup {b}) = Least  BY <1>3, <3>1, <3>2, <1>0
    <3> QED  BY <2>3, <3>1, <3>3, Zenon
  <2>9. Service!Holders(h) \subseteq S /\ h.running \cap h.woken = {}
    BY <2>2, <2>3, <2>7, <1>0 DEF Service!Holders
  <2>10. \A i \in 1..Len(h.line) : i + 1 \in 1..Len(g.line) /\ i + 1 # 1 /\ 1 \in 1..Len(g.line) /\ h.line[i] = g.line[i + 1]
    BY <2>2, <2>4, <1>0
  <2>11. \A i \in 1..Len(h.line) :
          /\ h.line[i] \in S \ Service!Holders(h)
          /\ \A j \in 1..Len(h.line) : i # j => h.line[i] # h.line[j]
    <3>1. \A i \in 1..Len(h.line) : h.line[i] \in S \ Service!Holders(g) /\ h.line[i] # b
      BY <2>4, <2>5, <2>6, <2>10
    <3>2. \A i, j \in 1..Len(h.line) : i # j => i + 1 # j + 1  BY <2>2, <2>4
    <3>3. \A i, j \in 1..Len(h.line) : i # j => h.line[i] # h.line[j]  BY <2>6, <2>10, <3>2
    <3> QED  BY <2>3, <3>1, <3>3
  <2>12. Cardinality(Service!Holders(h)) <= Least  BY <2>8, <1>0
  <2> HIDE DEF h
  <2> QED  BY <2>1, <2>8, <2>9, <2>11, <2>12, GateMeans
<1> QED  BY <1>4, <1>5

\* The one woken is at the gate still.
LEMMA GateResumed ==
  ASSUME NEW g \in Service!Gates, NEW S, NEW q \in g.woken, Service!GateHolds(g, S)
  PROVE  Service!GateHolds([g EXCEPT !.woken = g.woken \ {q}, !.running = g.running \cup {q}], S)
<1> DEFINE h == [g EXCEPT !.woken = g.woken \ {q}, !.running = g.running \cup {q}]
<1>1. h.line = g.line /\ h.running = g.running \cup {q} /\ h.woken = g.woken \ {q}  BY DEF Service!Gates
<1>2. Service!Holders(h) = Service!Holders(g)  BY <1>1 DEF Service!Holders
<1>3. h.running \cap h.woken = {}  BY <1>1, GateMeans
<1> HIDE DEF h
<1>4. Service!GateHolds(h, S)  BY <1>1, <1>2, <1>3, GateMeans
<1> QED  BY <1>4 DEF h

LEMMA GatesKept ==
  ASSUME Service!ServiceTypes, Service!GatesHold, [Service!Next]_(Service!vars)
  PROVE  Service!GatesHold'
<1>0. /\ s6 \in [{"stt", "tts"} -> Service!Gates] /\ s3 \cup s4 \cup s5 \subseteq Service!Requests
      /\ \A k \in {"stt", "tts"} : Service!GateHolds(s6[k], s4)
      /\ s5 \subseteq s4 /\ \A q \in s5 : q.u \notin Texts
      /\ \A q \in Service!Holders(s6["stt"]) : q \notin s5
      /\ \A i \in 1..Len(s6["stt"].line) : s6["stt"].line[i] \notin s5
  <2>1. \A k \in {"stt", "tts"} : s6[k] \in Service!Gates  BY DEF Service!ServiceTypes
  <2>2. s6["stt"].line \in Seq(Service!Requests)  BY <2>1 DEF Service!Gates
  <2>3. \A i \in 1..Len(s6["stt"].line) : s6["stt"].line[i] \in Service!Range(s6["stt"].line)
    BY <2>2 DEF Service!Range
  <2> QED  BY <2>1, <2>3 DEF Service!ServiceTypes, Service!GatesHold
<1>1. ASSUME s6' \in [{"stt", "tts"} -> Service!Gates],
             \A k \in {"stt", "tts"} : Service!GateHolds(s6[k], s4)',
             s5' \subseteq s4', \A q \in s5' : q.u \notin Texts,
             \A q \in Service!Holders(s6["stt"]') : q \notin s5',
             \A i \in 1..Len(s6'["stt"].line) : s6'["stt"].line[i] \notin s5'
      PROVE  Service!GatesHold'
  <2>1. s6'["stt"].line \in Seq(Service!Requests)  BY <1>1 DEF Service!Gates
  <2>2. \A q \in Service!Range(s6'["stt"].line) : q \notin s5'  BY <1>1, <2>1 DEF Service!Range
  <2> QED  BY <1>1, <2>2 DEF Service!GatesHold
<1>t. s6' \in [{"stt", "tts"} -> Service!Gates]
  <2>1. Service!ServiceTypes'  BY ServiceTyped
  <2>2. Service!Gates' = Service!Gates  BY DEF Service!Gates, Service!Requests
  <2> QED  BY <2>1, <2>2 DEF Service!ServiceTypes
<1>2. CASE UNCHANGED <<s4, s5, s6>>  BY <1>2, <1>1, <1>0, <1>t
<1>3. ASSUME NEW q \in s3, Service!Arrive(q), ~UNCHANGED <<s4, s5, s6>> PROVE Service!GatesHold'
  <2>1. q \in Service!Requests /\ q \notin s4 /\ s4' = s4 \cup {q}
    BY <1>3, <1>0 DEF Service!Arrive
  <2>2. q \in s4' /\ s4 \subseteq s4'  BY <2>1
  <2>3. \A k \in {"stt", "tts"} : q \notin Service!Holders(s6[k]) /\ \A i \in 1..Len(s6[k].line) : s6[k].line[i] # q
    BY <2>1, <1>0, GateMeans
  <2>4. \A k \in {"stt", "tts"} : Service!GateHolds(s6[k], s4')  BY <1>0, <2>2, GateMeans
  <2>5. CASE UNCHANGED s6
    <3>1. s5' \subseteq s5 \cup {q} /\ \A r \in s5' : r.u \notin Texts  BY <1>3, <2>5, <1>0, <2>1 DEF Service!Arrive
    <3> QED  BY <1>0, <1>1, <1>t, <2>1, <2>3, <2>4, <2>5, <3>1
  <2>6. CASE s6' = [s6 EXCEPT !["tts"] = Service!Enter(@, q)] /\ UNCHANGED s5
    <3>1. Service!GateHolds(Service!Enter(s6["tts"], q), s4')  BY <1>0, <2>1, <2>2, <2>3, GateEntered
    <3>2. s6'["stt"] = s6["stt"] /\ s6'["tts"] = Service!Enter(s6["tts"], q)  BY <2>6, <1>0
    <3>3. \A k \in {"stt", "tts"} : Service!GateHolds(s6'[k], s4')  BY <3>1, <3>2, <2>4
    <3> QED  BY <1>0, <1>1, <1>t, <2>1, <2>6, <3>2, <3>3
  <2> QED  BY <1>3, <2>1, <2>5, <2>6 DEF Service!Arrive
<1>4. ASSUME NEW q \in s5, Service!Admit(q) PROVE Service!GatesHold'
  <2>1. q \in Service!Requests /\ q \in s4 /\ s4' = s4 /\ s5' = s5 \ {q}  BY <1>4, <1>0 DEF Service!Admit
  <2>2. CASE UNCHANGED s6  BY <2>1, <2>2, <1>0, <1>1, <1>t
  <2>3. CASE s6' = [s6 EXCEPT !["stt"] = Service!Enter(@, q)]
    <3> DEFINE g == s6["stt"]
    <3>1. g \in Service!Gates /\ q \notin Service!Holders(g) /\ \A i \in 1..Len(g.line) : g.line[i] # q
      BY <1>0
    <3>2. Service!GateHolds(Service!Enter(g, q), s4)  BY <3>1, <1>0, <2>1, GateEntered
    <3>3. s6'["tts"] = s6["tts"] /\ s6'["stt"] = Service!Enter(g, q)  BY <2>3, <1>0
    <3>4. \A k \in {"stt", "tts"} : Service!GateHolds(s6'[k], s4')  BY <3>2, <3>3, <2>1, <1>0
    <3>5. /\ Service!Holders(Service!Enter(g, q)) \subseteq Service!Holders(g) \cup {q}
          /\ \A i \in 1..Len(Service!Enter(g, q).line) : Service!Enter(g, q).line[i] = q \/
               (i \in 1..Len(g.line) /\ Service!Enter(g, q).line[i] = g.line[i])
      <4>1. CASE Service!MustWait(g)
        <5>1. Service!Enter(g, q).line = Append(g.line, q) /\ Service!Holders(Service!Enter(g, q)) = Service!Holders(g)
          BY <4>1, <3>1 DEF Service!Enter, Service!Holders, Service!Gates
        <5>2. g.line \in Seq(Service!Requests) /\ Len(g.line) \in Nat  BY <3>1 DEF Service!Gates
        <5>3. /\ Len(Append(g.line, q)) = Len(g.line) + 1 /\ Append(g.line, q)[Len(g.line) + 1] = q
              /\ \A i \in 1..Len(g.line) : Append(g.line, q)[i] = g.line[i]
          BY <5>2, <2>1, AppendProperties
        <5>4. \A i \in 1..(Len(g.line) + 1) : i \in 1..Len(g.line) \/ i = Len(g.line) + 1  BY <5>2
        <5> QED  BY <5>1, <5>3, <5>4
      <4>2. CASE ~Service!MustWait(g)
        BY <4>2, <3>1 DEF Service!Enter, Service!Holders, Service!Gates
      <4> QED  BY <4>1, <4>2
    <3> HIDE DEF g
    <3>6. /\ \A r \in Service!Holders(s6'["stt"]) : r \notin s5'
          /\ \A i \in 1..Len(s6'["stt"].line) : s6'["stt"].line[i] \notin s5'
      BY <3>3, <3>5, <2>1, <1>0 DEF g
    <3> QED  BY <3>4, <3>6, <2>1, <1>0, <1>1, <1>t
  <2> QED  BY <1>4, <2>2, <2>3 DEF Service!Admit
<1>5. ASSUME NEW k \in {"stt", "tts"}, NEW h \in Service!Gates, Service!GateHolds(h, s4),
             Service!Holders(h) \subseteq Service!Holders(s6[k]) \cup Service!Range(s6[k].line),
             Service!Range(h.line) \subseteq Service!Range(s6[k].line),
             s6' = [s6 EXCEPT ![k] = h], UNCHANGED <<s4, s5>>
      PROVE  Service!GatesHold'
  <2>1. \A j \in {"stt", "tts"} : s6'[j] = IF j = k THEN h ELSE s6[j]  BY <1>5, <1>0
  <2>2. \A j \in {"stt", "tts"} : Service!GateHolds(s6'[j], s4')  BY <2>1, <1>5, <1>0
  <2>3. \A r \in Service!Holders(s6'["stt"]) \cup Service!Range(s6'["stt"].line) : r \notin s5'
    BY <2>1, <1>5 DEF Service!GatesHold
  <2> QED  BY <2>2, <2>3, <1>0, <1>5 DEF Service!GatesHold
<1>6. ASSUME NEW k \in {"stt", "tts"}, Service!Resume(k) PROVE Service!GatesHold'
  <2>1. PICK q \in s6[k].woken :
          s6' = [s6 EXCEPT ![k].woken = @ \ {q}, ![k].running = @ \cup {q}]
    BY <1>6 DEF Service!Resume
  <2> DEFINE h == [s6[k] EXCEPT !.woken = s6[k].woken \ {q}, !.running = s6[k].running \cup {q}]
  <2>2. s6[k] \in Service!Gates /\ q \in Service!Requests  BY <1>0 DEF Service!Gates
  <2>3. s6' = [s6 EXCEPT ![k] = h]  BY <2>1, <1>0
  <2>4. h \in Service!Gates /\ Service!GateHolds(h, s4)  BY <2>2, <1>0, GatePut, GateResumed
  <2>5. h.line = s6[k].line /\ Service!Holders(h) = Service!Holders(s6[k])
    BY <2>2 DEF Service!Gates, Service!Holders
  <2>6. UNCHANGED <<s4, s5>>  BY <1>6 DEF Service!Resume
  <2> HIDE DEF h
  <2> QED  BY <2>3, <2>4, <2>5, <2>6, <1>5
<1>7. ASSUME NEW k \in {"stt", "tts"}, Service!Done(k) PROVE Service!GatesHold'
  <2>1. PICK q \in s6[k].running : s6' = [s6 EXCEPT ![k] = Service!Release(@, q)]
    BY <1>7 DEF Service!Done
  <2>2. s6[k] \in Service!Gates /\ q \in Service!Requests  BY <1>0 DEF Service!Gates
  <2> DEFINE g == s6[k]
             h == Service!Release(g, q)
  <2>3. s6' = [s6 EXCEPT ![k] = h]  BY <2>1, <1>0
  <2>4. h \in Service!Gates /\ Service!GateHolds(h, s4)  BY <2>2, <1>0, GatePut, GateReleased
  <2>5. /\ Service!Range(h.line) \subseteq Service!Range(g.line)
        /\ Service!Holders(h) \subseteq Service!Holders(g) \cup Service!Range(g.line)
    <3>1. CASE g.line = <<>>
      BY <3>1, <2>2 DEF Service!Release, Service!Gates, Service!Holders
    <3>2. CASE g.line # <<>>
      <4>1. h.line = Tail(g.line) /\ h.running = g.running \ {q} /\ h.woken = g.woken \cup {Head(g.line)}
        BY <3>2, <2>2 DEF Service!Release, Service!Gates
      <4>2. g.line \in Seq(Service!Requests) /\ Len(g.line) \in Nat  BY <2>2 DEF Service!Gates
      <4>3. /\ Len(g.line) >= 1 /\ Head(g.line) = g.line[1] /\ Tail(g.line) \in Seq(Service!Requests)
            /\ Len(Tail(g.line)) = Len(g.line) - 1
            /\ \A i \in 1..Len(Tail(g.line)) : Tail(g.line)[i] = g.line[i + 1]
        BY <4>2, <3>2, HeadTailProperties, EmptySeq
      <4>4. DOMAIN g.line = 1..Len(g.line) /\ DOMAIN Tail(g.line) = 1..(Len(g.line) - 1)  BY <4>2, <4>3
      <4>5. \A i \in 1..(Len(g.line) - 1) : i + 1 \in 1..Len(g.line)  BY <4>2
      <4>6. Service!Range(Tail(g.line)) \subseteq Service!Range(g.line)
        BY <4>3, <4>4, <4>5 DEF Service!Range
      <4>7. Head(g.line) \in Service!Range(g.line)  BY <4>2, <4>3, <4>4 DEF Service!Range
      <4> QED  BY <4>1, <4>6, <4>7 DEF Service!Holders
    <3> QED  BY <3>1, <3>2
  <2>6. UNCHANGED <<s4, s5>>  BY <1>7 DEF Service!Done
  <2> HIDE DEF h
  <2> QED  BY <2>3, <2>4, <2>5, <2>6, <1>5
<1>8. ASSUME Service!Tick \/ Service!Stranger
               \/ \E u \in Utterances : Service!Begin(u) \/ Service!Send(u) \/ Service!Late(u) \/ Service!Again(u)
      PROVE  UNCHANGED <<s4, s5, s6>>
  BY <1>8 DEF Service!Tick, Service!Stranger, Service!Begin, Service!Send, Service!Late, Service!Again
<1> QED  BY <1>2, <1>3, <1>4, <1>6, <1>7, <1>8 DEF Service!Next, Service!vars

\* What comes of a try that is over: nothing that would make the utterance be
\* sent again within the second.
LEMMA TryOver ==
  ASSUME s1 \in Nat, NEW a \in Service!Asks,
         NEW b \in {Service!Failed(a), Service!Refused(a), [a EXCEPT !.is = "answered"]}
  PROVE  /\ b.final = a.final /\ b.is \in {"kept", "resting", "given up", "answered"}
         /\ b.is = "kept" => ~a.final
         /\ b.is = "resting" => b.at > s1
<1>1. ASSUME NEW c \in Service!Asks
      PROVE  /\ Service!Rest(c, Least).final = c.final /\ Service!Rest(c, Least).is = "resting"
             /\ Service!Rest(c, Least).at > s1
  <2>1. s1 + Least > s1  BY BoundsAssumption
  <2>2. Service!Rest(c, Least) = [c EXCEPT !.is = "resting", !.at = s1 + Least]  BY DEF Service!Rest
  <2>3. \A n : LET d == [c EXCEPT !.is = "resting", !.at = n]
               IN  d.final = c.final /\ d.is = "resting" /\ d.at = n
    BY DEF Service!Asks
  <2> QED  BY <2>1, <2>2, <2>3
<1>2. a.errors \in Nat /\ a.busy \in Nat  BY DEF Service!Asks
<1>3. \A n \in Nat : [a EXCEPT !.errors = n] \in Service!Asks /\ [a EXCEPT !.errors = n].final = a.final
  BY DEF Service!Asks
<1>4. \A n \in Nat : [a EXCEPT !.busy = n] \in Service!Asks /\ [a EXCEPT !.busy = n].final = a.final
  BY DEF Service!Asks
<1>5. CASE b = Service!Failed(a)
  <2> DEFINE c == [a EXCEPT !.errors = @ + 1]
  <2>1. a.errors + 1 \in Nat  BY <1>2
  <2>2. c \in Service!Asks /\ c.final = a.final  BY <1>3, <2>1
  <2>3. \/ b = [a EXCEPT !.is = "kept"] /\ ~a.final
        \/ b = [a EXCEPT !.is = "given up", !.errors = @ + 1]
        \/ b = Service!Rest(c, Least)
    BY <1>5 DEF Service!Failed
  <2> HIDE DEF c
  <2>4. CASE b = Service!Rest(c, Least)  BY <2>4, <2>2, <1>1
  <2>5. CASE b # Service!Rest(c, Least)  BY <2>5, <2>3 DEF Service!Asks
  <2> QED  BY <2>4, <2>5
<1>6. CASE b = Service!Refused(a)
  <2> DEFINE c == [a EXCEPT !.busy = @ + 1]
  <2>1. a.busy + 1 \in Nat  BY <1>2
  <2>2. c \in Service!Asks /\ c.final = a.final  BY <1>4, <2>1
  <2>3. \/ b = [a EXCEPT !.is = "kept"] /\ ~a.final
        \/ b = [a EXCEPT !.is = "given up", !.busy = @ + 1]
        \/ b = Service!Rest(c, Least)
    BY <1>6 DEF Service!Refused
  <2> HIDE DEF c
  <2>4. CASE b = Service!Rest(c, Least)  BY <2>4, <2>2, <1>1
  <2>5. CASE b # Service!Rest(c, Least)  BY <2>5, <2>3 DEF Service!Asks
  <2> QED  BY <2>4, <2>5
<1>7. CASE b = [a EXCEPT !.is = "answered"]  BY <1>7 DEF Service!Asks
<1> QED  BY <1>5, <1>6, <1>7

LEMMA TriesKept ==
  ASSUME Service!ServiceTypes, Service!TriesHold, [Service!Next]_(Service!vars)
  PROVE  Service!TriesHold'
<1>0. /\ s1 \in Nat /\ s2 \in [Utterances -> Service!Asks] /\ s3 \cup s4 \cup s5 \subseteq Service!Requests
      /\ ~s7
      /\ \A q \in s3 \cup s4 : q.final =>
           /\ q.u \in Utterances /\ q.at <= s1 /\ q \notin s3 \cap s4
           /\ s2[q.u].final /\ s2[q.u].is \notin {"said", "kept"}
           /\ s2[q.u].is = "queued" => q.at < s1
           /\ s2[q.u].is = "resting" => q.at < s2[q.u].at
      /\ \A q \in s3 \cup s4 : q.at \in Nat
      /\ \A u \in Utterances : s2[u] \in Service!Asks /\ s2[u].at \in Nat
  <2>1. /\ s1 \in Nat /\ s2 \in [Utterances -> Service!Asks] /\ s3 \cup s4 \cup s5 \subseteq Service!Requests
    BY BoundsAssumption DEF Service!ServiceTypes
  <2>2. \A q \in Service!Requests : q.at \in Nat  BY BoundsAssumption DEF Service!Requests
  <2>3. \A a \in Service!Asks : a.at \in Nat  BY DEF Service!Asks
  <2>4. \A u \in Utterances : s2[u] \in Service!Asks  BY <2>1
  <2> QED  BY <2>1, <2>2, <2>3, <2>4 DEF Service!TriesHold
\* A step that makes no try of the final pass, and ends some.
<1>1. ASSUME s1' = s1, ~s7', \A q \in s3' \cup s4' : q.final => q \in s3 \cup s4 /\ q \notin s3' \cap s4',
             \A u \in Utterances :
               \/ s2'[u] = s2[u]
               \/ s2'[u] \in {Service!Failed(s2[u]), Service!Refused(s2[u]), [s2[u] EXCEPT !.is = "answered"]}
      PROVE  Service!TriesHold'
  <2>1. ASSUME NEW q \in s3' \cup s4', q.final
        PROVE  /\ q.u \in Utterances /\ q.at <= s1' /\ q \notin s3' \cap s4'
               /\ s2'[q.u].final /\ s2'[q.u].is \notin {"said", "kept"}
               /\ s2'[q.u].is = "queued" => q.at < s1'
               /\ s2'[q.u].is = "resting" => q.at < s2'[q.u].at
    <3>1. q \in s3 \cup s4 /\ q \notin s3' \cap s4' /\ q.u \in Utterances  BY <1>0, <1>1, <2>1
    <3>2. CASE s2'[q.u] = s2[q.u]  BY <3>1, <3>2, <2>1, <1>0, <1>1
    <3>3. CASE s2'[q.u] # s2[q.u]
      <4> DEFINE b == s2'[q.u]
      <4>1. b \in {Service!Failed(s2[q.u]), Service!Refused(s2[q.u]), [s2[q.u] EXCEPT !.is = "answered"]}
        BY <3>1, <3>3, <1>1
      <4>2. s2[q.u] \in Service!Asks  BY <3>1, <1>0
      <4>3. /\ b.final = s2[q.u].final /\ b.is \in {"kept", "resting", "given up", "answered"}
            /\ b.is = "kept" => ~s2[q.u].final
            /\ b.is = "resting" => b.at > s1
        BY <4>1, <4>2, <1>0, TryOver
      <4>4. q.at <= s1 /\ s2[q.u].final /\ q.at \in Nat  BY <3>1, <2>1, <1>0
      <4>5. b.is = "resting" => b.at \in Nat
        <5>1. b \in Service!Asks  BY <4>1, <4>2, <1>0, AskPut
        <5> QED  BY <5>1 DEF Service!Asks
      <4> HIDE DEF b
      <4>6. b.is = "resting" => q.at < b.at  BY <4>3, <4>4, <4>5, <1>0
      <4>7. b.final /\ b.is \notin {"said", "kept", "queued"}  BY <4>3, <4>4
      <4> QED  BY <3>1, <4>4, <4>6, <4>7, <1>1 DEF b
    <3> QED  BY <3>2, <3>3
  <2> QED  BY <1>1, <2>1 DEF Service!TriesHold
<1>2. CASE Service!Tick
  <2>1. s1' = s1 + 1 /\ UNCHANGED <<s2, s3, s4, s7>>  BY <1>2 DEF Service!Tick
  <2>2. \A q \in s3 \cup s4 : q.at <= s1 => q.at <= s1 + 1 /\ q.at < s1 + 1  BY <1>0
  <2> QED  BY <2>1, <2>2, <1>0 DEF Service!TriesHold
<1>3. CASE Service!Stranger  BY <1>3, <1>0, <1>1 DEF Service!Stranger
<1>4. ASSUME NEW u \in Utterances, Service!Begin(u) PROVE Service!TriesHold'
  <2>1. /\ UNCHANGED <<s1, s3, s4, s7>> /\ s2[u].is \in {"said", "kept"}
        /\ \A v \in Utterances : v # u => s2'[v] = s2[v]
    BY <1>4, <1>0 DEF Service!Begin
  <2>2. \A q \in s3 \cup s4 : q.final => q.u # u  BY <2>1, <1>0
  <2> QED  BY <2>1, <2>2, <1>0 DEF Service!TriesHold
<1>5. ASSUME NEW u \in Utterances, Service!Send(u) PROVE Service!TriesHold'
  <2> DEFINE n == [u |-> u, at |-> s1, final |-> s2[u].final]
  <2>1. /\ UNCHANGED <<s1, s4, s7>> /\ s2[u].is = "queued" /\ s3' \subseteq s3 \cup {n}
        /\ s2' = [s2 EXCEPT ![u].is = "sent", ![u].at = s1]
    BY <1>5 DEF Service!Send
  <2>2. /\ s2'[u].is = "sent" /\ s2'[u].final = s2[u].final
        /\ \A v \in Utterances : v # u => s2'[v] = s2[v]
    BY <2>1, <1>0 DEF Service!Asks
  <2>3. ASSUME NEW q \in s3' \cup s4', q.final
        PROVE  /\ q.u \in Utterances /\ q.at <= s1' /\ q \notin s3' \cap s4'
               /\ s2'[q.u].final /\ s2'[q.u].is \notin {"said", "kept"}
               /\ s2'[q.u].is = "queued" => q.at < s1'
               /\ s2'[q.u].is = "resting" => q.at < s2'[q.u].at
    <3>1. n.u = u /\ n.at = s1 /\ n.final = s2[u].final  OBVIOUS
    <3>2. n.final => n \notin s3 \cup s4  BY <3>1, <2>1, <1>0
    <3> HIDE DEF n
    <3>3. CASE q = n
      <4>1. q \notin s4'  BY <3>2, <3>3, <2>1, <2>3
      <4>2. q.u = u /\ q.at = s1 /\ s2[u].final  BY <3>1, <3>3, <2>3
      <4>3. s1' = s1 /\ s1 <= s1  BY <2>1, <1>0
      <4> QED  BY <4>1, <4>2, <4>3, <2>2
    <3>4. CASE q # n
      <4>1. q \in s3 \cup s4  BY <3>4, <2>1
      <4>2. q \notin s3' \cap s4'  BY <4>1, <3>4, <2>1, <2>3, <1>0
      <4> QED  BY <4>1, <4>2, <2>1, <2>2, <2>3, <1>0
    <3> QED  BY <3>3, <3>4
  <2> QED  BY <2>1, <2>3, <1>0 DEF Service!TriesHold
<1>6. ASSUME NEW u \in Utterances, Service!Late(u) PROVE Service!TriesHold'
  <2>1. UNCHANGED <<s1, s3, s4, s7>> /\ s2' = [s2 EXCEPT ![u] = Service!Failed(@)]  BY <1>6 DEF Service!Late
  <2>2. \A v \in Utterances : s2'[v] = s2[v] \/ s2'[v] = Service!Failed(s2[v])  BY <2>1, <1>0
  <2> QED  BY <2>1, <2>2, <1>0, <1>1
<1>7. ASSUME NEW u \in Utterances, Service!Again(u) PROVE Service!TriesHold'
  <2>1. /\ UNCHANGED <<s1, s3, s4, s7>> /\ s2[u].is = "resting" /\ s1 >= s2[u].at
        /\ s2' = [s2 EXCEPT ![u].is = "queued"]
    BY <1>7 DEF Service!Again
  <2>2. /\ s2'[u].is = "queued" /\ s2'[u].final = s2[u].final
        /\ \A v \in Utterances : v # u => s2'[v] = s2[v]
    BY <2>1, <1>0 DEF Service!Asks
  <2>3. \A q \in s3 \cup s4 : q.final /\ q.u = u => q.at < s1
    <3>1. \A q \in s3 \cup s4 : q.final /\ q.u = u => q.at < s2[u].at /\ q.at \in Nat  BY <2>1, <1>0
    <3>2. s2[u].at \in Nat  BY <1>0
    <3> QED  BY <3>1, <3>2, <2>1, <1>0
  <2> QED  BY <2>1, <2>2, <2>3, <1>0 DEF Service!TriesHold
<1>w. ASSUME NEW q, NEW a, Service!Reply(q, a) \/ UNCHANGED s2,
             q.u \in Utterances => a \in {Service!Failed(s2[q.u]), Service!Refused(s2[q.u]), [s2[q.u] EXCEPT !.is = "answered"]}
      PROVE  \A u \in Utterances :
               \/ s2'[u] = s2[u]
               \/ s2'[u] \in {Service!Failed(s2[u]), Service!Refused(s2[u]), [s2[u] EXCEPT !.is = "answered"]}
  BY <1>w, <1>0 DEF Service!Reply, Service!Waits
<1>8. ASSUME NEW q \in s3, Service!Arrive(q) PROVE Service!TriesHold'
  <2>1. s1' = s1 /\ s3' = s3 \ {q}  BY <1>8 DEF Service!Arrive
  <2>2. CASE {s \in s4 : s.u = q.u /\ s.at = q.at} # {}
    <3>1. /\ s7' = (s7 \/ (q.final /\ \E s \in {s \in s4 : s.u = q.u /\ s.at = q.at} : s.final))
          /\ Service!Reply(q, Service!Failed(s2[q.u])) /\ s4' = s4
      BY <1>8, <2>2 DEF Service!Arrive
    <3>2. ASSUME NEW s \in s4, s.u = q.u, s.at = q.at, q.final, s.final PROVE FALSE
      <4>1. s \in Service!Requests /\ q \in Service!Requests  BY <1>0
      <4>2. s = q  BY <4>1, <3>2 DEF Service!Requests
      <4> QED  BY <4>2, <3>2, <1>0
    <3>3. ~s7'  BY <3>1, <3>2, <1>0
    <3> QED  BY <3>1, <3>3, <2>1, <1>0, <1>1, <1>w
  <2>3. CASE {s \in s4 : s.u = q.u /\ s.at = q.at} = {}
    <3>1. UNCHANGED <<s2, s7>> /\ s4' = s4 \cup {q}  BY <1>8, <2>3 DEF Service!Arrive
    <3> QED  BY <3>1, <2>1, <1>0, <1>1
  <2> QED  BY <2>2, <2>3
<1>9. ASSUME NEW q \in s5, Service!Admit(q) PROVE Service!TriesHold'
  <2>1. UNCHANGED <<s1, s3, s4, s7>> /\ (Service!Reply(q, Service!Refused(s2[q.u])) \/ UNCHANGED s2)
    BY <1>9 DEF Service!Admit
  <2> QED  BY <2>1, <1>0, <1>1, <1>w
<1>10. ASSUME NEW k \in {"stt", "tts"}, Service!Resume(k) PROVE Service!TriesHold'
  BY <1>10, <1>0, <1>1 DEF Service!Resume
<1>11. ASSUME NEW k \in {"stt", "tts"}, Service!Done(k) PROVE Service!TriesHold'
  <2>1. PICK q \in s6[k].running :
          \/ UNCHANGED s2
          \/ Service!Reply(q, [s2[q.u] EXCEPT !.is = "answered"])
          \/ Service!Reply(q, Service!Failed(s2[q.u]))
    BY <1>11 DEF Service!Done
  <2>2. UNCHANGED <<s1, s3, s4, s7>>  BY <1>11 DEF Service!Done
  <2> QED  BY <2>1, <2>2, <1>0, <1>1, <1>w
<1>12. CASE UNCHANGED Service!vars  BY <1>12, <1>0, <1>1 DEF Service!vars
<1> QED  BY <1>2, <1>3, <1>4, <1>5, <1>6, <1>7, <1>8, <1>9, <1>10, <1>11, <1>12 DEF Service!Next

LEMMA ServiceStep == Service!ServiceHolds /\ [Service!Next]_(Service!vars) => Service!ServiceHolds'
BY ServiceTyped, GatesKept, TriesKept DEF Service!ServiceHolds

LEMMA ServiceServes == Service!ServiceHolds => Service!SpeechServed
<1> SUFFICES ASSUME Service!ServiceHolds PROVE Service!SpeechServed  OBVIOUS
<1>1. ASSUME NEW k \in {"stt", "tts"}
      PROVE  LET taken == Service!Cardinality(s6[k].running \cup s6[k].woken)
             IN  taken <= Least /\ (s6[k].line # <<>> => taken = Least)
  BY DEF Service!ServiceHolds, Service!GatesHold, Service!GateHolds, Service!Holders
<1> QED  BY <1>1 DEF Service!ServiceHolds, Service!TriesHold, Service!SpeechServed

-----------------------------------------------------------------------------
(* The gateway: the breaker.                                                *)
LEMMA GatewaySizes ==
  /\ \A S : Model!Cardinality(S) = Cardinality(S)
BY DEF Model!Cardinality, Cardinality, Model!IsFiniteSet, IsFiniteSet

\* A set of numbers from 1 that goes with each all that are smaller is an interval.
LEMMA DownClosed ==
  ASSUME NEW n \in Nat, NEW T \in SUBSET (1..n), \A i \in T : 1..i \subseteq T
  PROVE  Cardinality(T) \in 0..n /\ T = 1..Cardinality(T)
<1>1. \A m \in Nat : IsFiniteSet(1..m) /\ Cardinality(1..m) = m
  <2>1. ASSUME NEW m \in Nat PROVE IsFiniteSet(1..m) /\ Cardinality(1..m) = m
    <3>1. IsFiniteSet(1..m) /\ Cardinality(1..m) = IF 1 > m THEN 0 ELSE m - 1 + 1  BY FS_Interval
    <3> QED  BY <3>1
  <2> QED  BY <2>1
<1>2. IsFiniteSet(T) /\ Cardinality(T) <= n
  <2>1. IsFiniteSet(1..n) /\ Cardinality(1..n) = n  BY <1>1
  <2>2. IsFiniteSet(T) /\ Cardinality(T) <= Cardinality(1..n)  BY <2>1, FS_Subset
  <2> QED  BY <2>1, <2>2
<1>3. Cardinality(T) \in Nat  BY <1>2, FS_CardinalityType
<1>4. ASSUME NEW i \in T PROVE i \in 1..Cardinality(T)
  <2>1. i \in Nat /\ 1..i \in SUBSET T /\ i >= 1  OBVIOUS
  <2>2. Cardinality(1..i) <= Cardinality(T)  BY <2>1, <1>2, FS_Subset
  <2> QED  BY <2>1, <2>2, <1>1, <1>3
<1>5. T \in SUBSET (1..Cardinality(T))  BY <1>4
<1>6. Cardinality(1..Cardinality(T)) = Cardinality(T)  BY <1>1, <1>3
<1>7. 1..Cardinality(T) = T  BY <1>1, <1>3, <1>5, <1>6, FS_Subset
<1> QED  BY <1>2, <1>3, <1>7

\* What is kept of the failures, when they are in order of time.
LEMMA KeptRecent ==
  ASSUME s1 \in Nat, NEW f \in Seq(Nat), \A i \in 1..Len(f) : f[i] <= s1 /\ \A j \in 1..i : f[j] <= f[i]
  PROVE  \E m \in 0..Len(f) :
           /\ Model!Kept(f) \in Seq(Nat) /\ Len(Model!Kept(f)) = Len(f) - m
           /\ \A i \in 1..(Len(f) - m) : Model!Kept(f)[i] = f[m + i]
           /\ \A i \in 1..Len(f) : s1 - f[i] < Some <=> i > m
<1>0. Len(f) \in Nat /\ DOMAIN f = 1..Len(f) /\ Some \in Nat /\ \A i \in 1..Len(f) : f[i] \in Nat
  BY BoundsAssumption
<1> DEFINE T == {i \in 1..Len(f) : ~(s1 - f[i] < Some)}
           m == Cardinality(T)
<1>1. \A i \in T : 1..i \subseteq T
  <2>1. ASSUME NEW i \in T, NEW j \in 1..i PROVE j \in T
    <3>1. j \in 1..Len(f) /\ f[j] <= f[i]  BY <2>1, <1>0
    <3>2. f[i] \in Nat /\ f[j] \in Nat /\ s1 - f[i] >= Some  BY <2>1, <3>1, <1>0
    <3> QED  BY <3>1, <3>2, <1>0
  <2> QED  BY <2>1
<1>2. m \in 0..Len(f) /\ T = 1..m  BY <1>0, <1>1, DownClosed
<1>3. Model!Kept(f) = SubSeq(f, m + 1, Len(f))
  <2>1. {i \in DOMAIN f : ~Model!Recent(f[i])} = T  BY <1>0 DEF Model!Recent
  <2> HIDE DEF T
  <2> QED  BY <2>1, GatewaySizes DEF Model!Kept
<1>4. \A i \in 1..Len(f) : s1 - f[i] < Some <=> i > m
  <2>1. \A i \in 1..Len(f) : s1 - f[i] < Some <=> i \notin T  OBVIOUS
  <2> HIDE DEF T, m
  <2> QED  BY <2>1, <1>0, <1>2
<1> HIDE DEF T, m
<1>5. /\ SubSeq(f, m + 1, Len(f)) \in Seq(Nat)
      /\ Len(SubSeq(f, m + 1, Len(f))) = IF m + 1 <= Len(f) THEN Len(f) - (m + 1) + 1 ELSE 0
      /\ \A i \in 1..(Len(f) - (m + 1) + 1) : SubSeq(f, m + 1, Len(f))[i] = f[(m + 1) + i - 1]
  <2>1. m + 1 \in Int /\ Len(f) \in Int /\ \A i \in (m + 1)..Len(f) : f[i] \in Nat  BY <1>0, <1>2
  <2> QED  BY <2>1, SubSeqProperties
<1>6. Len(SubSeq(f, m + 1, Len(f))) = Len(f) - m
  <2>1. (IF m + 1 <= Len(f) THEN Len(f) - (m + 1) + 1 ELSE 0) = Len(f) - m
    <3>1. \A a, b \in Nat : a <= b => (IF a + 1 <= b THEN b - (a + 1) + 1 ELSE 0) = b - a  OBVIOUS
    <3>2. m \in Nat /\ m <= Len(f) /\ Len(f) \in Nat  BY <1>0, <1>2
    <3> QED  BY <3>1, <3>2
  <2> QED  BY <2>1, <1>5
<1>7. \A i \in 1..(Len(f) - m) : SubSeq(f, m + 1, Len(f))[i] = f[m + i]
  <2>1. \A i \in 1..(Len(f) - m) : (m + 1) + i - 1 = m + i /\ i \in 1..(Len(f) - (m + 1) + 1)  BY <1>0, <1>2
  <2> QED  BY <2>1, <1>5
<1> QED  BY <1>2, <1>3, <1>4, <1>5, <1>6, <1>7

LEMMA BreakerInit == Model!Init => Model!BreakerHolds
BY BoundsAssumption DEF Model!Init, Model!BreakerHolds

\* A failure more.
LEMMA BreakerFails ==
  ASSUME Model!BreakerHolds, s1' = s1, s6' = Append(s6, s1), s2' = Model!RecordFailure(s2)
  PROVE  Model!BreakerHolds'
<1>l. PICK L : L = Len(s6)  OBVIOUS
<1>f. PICK f : f = s2.failures  OBVIOUS
<1>d. PICK d : d = L - Len(f)  OBVIOUS
<1>0. /\ s1 \in Nat /\ s6 \in Seq(Nat) /\ s2 \in [failures : Seq(Nat), opened : BOOLEAN, probe : Nat]
      /\ Some \in Nat /\ Few \in Nat /\ Some > 0 /\ L \in Nat /\ f \in Seq(Nat) /\ Len(f) \in Nat
      /\ d \in Nat /\ \A i \in 1..L : s6[i] \in Nat /\ s6[i] <= s1
      /\ \A i \in 1..L : \A j \in 1..i : s6[j] <= s6[i]
      /\ \A i \in 1..Len(f) : f[i] = s6[d + i]
      /\ \A i \in 1..L : s6[L] - s6[i] < Some <=> i > d
  <2>1. /\ s1 \in Nat /\ s6 \in Seq(Nat) /\ s2 \in [failures : Seq(Nat), opened : BOOLEAN, probe : Nat]
        /\ d >= 0 /\ \A i \in 1..L : s6[i] <= s1 /\ \A j \in 1..i : s6[j] <= s6[i]
        /\ \A i \in 1..Len(f) : f[i] = s6[d + i]
        /\ \A i \in 1..L : s6[L] - s6[i] < Some <=> i > d
    BY <1>l, <1>f, <1>d DEF Model!BreakerHolds
  <2>2. L \in Nat /\ f \in Seq(Nat) /\ Len(f) \in Nat /\ \A i \in 1..L : s6[i] \in Nat  BY <2>1, <1>l, <1>f
  <2>3. Some \in Nat /\ Few \in Nat /\ Some > 0  BY BoundsAssumption
  <2> QED  BY <2>1, <2>2, <2>3, <1>d
<1>1. \A i \in 1..Len(f) : f[i] <= s1 /\ \A j \in 1..i : f[j] <= f[i]
  <2>1. ASSUME NEW i \in 1..Len(f) PROVE f[i] <= s1 /\ \A j \in 1..i : f[j] <= f[i]
    <3>1. d + i \in 1..L /\ \A j \in 1..i : d + j \in 1..(d + i) /\ j \in 1..Len(f)
      <4>1. Len(f) \in Nat /\ d \in Nat /\ L \in Nat /\ d = L - Len(f)  BY <1>0, <1>d
      <4> QED  BY <4>1
    <3> QED  BY <3>1, <1>0
  <2> QED  BY <2>1
<1>2. PICK m \in 0..Len(f) :
         /\ Model!Kept(f) \in Seq(Nat) /\ Len(Model!Kept(f)) = Len(f) - m
         /\ \A i \in 1..(Len(f) - m) : Model!Kept(f)[i] = f[m + i]
         /\ \A i \in 1..Len(f) : s1 - f[i] < Some <=> i > m
  <2> QED  BY <1>1, <1>0, KeptRecent
<1> DEFINE g == Append(Model!Kept(f), s1)
<1>e. PICK e : e = d + m  OBVIOUS
<1>n. L \in Nat /\ Len(f) \in Nat /\ d \in Nat /\ m \in Nat /\ m <= Len(f) /\ d = L - Len(f) /\ e = d + m
  BY <1>0, <1>2, <1>d, <1>e
<1>3. /\ g \in Seq(Nat) /\ Len(g) = Len(f) - m + 1 /\ g[Len(f) - m + 1] = s1
      /\ \A i \in 1..(Len(f) - m) : g[i] = f[m + i]
  <2>1. /\ g \in Seq(Nat) /\ Len(g) = Len(Model!Kept(f)) + 1 /\ g[Len(Model!Kept(f)) + 1] = s1
        /\ \A i \in 1..Len(Model!Kept(f)) : g[i] = Model!Kept(f)[i]
    BY <1>2, <1>0, AppendProperties
  <2> HIDE DEF g
  <2> QED  BY <2>1, <1>2
<1>4. /\ s6' \in Seq(Nat) /\ Len(s6') = L + 1 /\ s6'[L + 1] = s1 /\ \A i \in 1..L : s6'[i] = s6[i]
  BY <1>0, <1>l, AppendProperties
<1>5. /\ s2'.failures = g /\ s2' \in [failures : Seq(Nat), opened : BOOLEAN, probe : Nat]
      /\ IF Len(g) >= Few THEN s2'.opened /\ s2'.probe = s1 + Few
         ELSE s2'.opened = s2.opened /\ s2'.probe = s2.probe
  <2>1. s2' = IF Len(g) >= Few THEN [failures |-> g, opened |-> TRUE, probe |-> s1 + Few]
              ELSE [s2 EXCEPT !.failures = g]
    BY <1>f DEF Model!RecordFailure
  <2>2. s1 + Few \in Nat  BY <1>0
  <2> HIDE DEF g
  <2>3. s2.failures \in Seq(Nat) /\ s2.opened \in BOOLEAN /\ s2.probe \in Nat /\ g \in Seq(Nat)  BY <1>0, <1>3
  <2>4. CASE Len(g) >= Few
    <3>1. s2' = [failures |-> g, opened |-> TRUE, probe |-> s1 + Few]  BY <2>1, <2>4
    <3> QED  BY <2>2, <2>3, <2>4, <3>1
  <2>5. CASE ~(Len(g) >= Few)
    <3>1. s2' = [s2 EXCEPT !.failures = g]  BY <2>1, <2>5
    <3> QED  BY <2>3, <2>5, <3>1, <1>0
  <2> QED  BY <2>4, <2>5
<1> HIDE DEF g
<1>6. e \in Nat /\ e <= L /\ L + 1 - Len(g) = e  BY <1>0, <1>2, <1>3, <1>d, <1>e
<1>7. \A i \in 1..Len(g) : g[i] = s6'[e + i]
  <2>1. ASSUME NEW i \in 1..(Len(f) - m) PROVE g[i] = s6'[e + i]
    <3>1. g[i] = f[m + i] /\ m + i \in 1..Len(f) /\ d + (m + i) = e + i /\ e + i \in 1..L
      <4>1. g[i] = f[m + i]  BY <1>3
      <4>2. m + i \in 1..Len(f)  BY <1>2, <1>0
      <4>3. d + (m + i) = e + i /\ e + i \in 1..L  BY <4>2, <1>n
      <4> QED  BY <4>1, <4>2, <4>3
    <3> QED  BY <3>1, <1>4, <1>0
  <2>2. e + (Len(f) - m + 1) = L + 1  BY <1>2, <1>0, <1>d, <1>e
  <2>3. \A i \in 1..Len(g) : i \in 1..(Len(f) - m) \/ i = Len(f) - m + 1  BY <1>2, <1>3, <1>0
  <2> QED  BY <2>1, <2>2, <2>3, <1>3, <1>4
<1>8. \A i \in 1..(L + 1) : i \in 1..L \/ i = L + 1  BY <1>0
<1>9. \A i \in 1..L : s1 - s6[i] < Some <=> i > e
  <2>1. ASSUME NEW i \in 1..L, i > d PROVE s1 - s6[i] < Some <=> i > e
    <3>1. i - d \in 1..Len(f) /\ d + (i - d) = i  BY <2>1, <1>0, <1>d
    <3>2. f[i - d] = s6[i]  BY <3>1, <1>0
    <3>3. s1 - s6[i] < Some <=> i - d > m  BY <3>1, <3>2, <1>2
    <3> QED  BY <3>3, <1>0, <1>2, <1>e
  <2>2. ASSUME NEW i \in 1..L, ~(i > d) PROVE s1 - s6[i] < Some <=> i > e
    <3>1. ~(s6[L] - s6[i] < Some) /\ s6[L] <= s1 /\ s6[L] \in Nat /\ s6[i] \in Nat  BY <2>2, <1>0
    <3>2. ~(i > e)  BY <2>2, <1>0, <1>2, <1>e
    <3> QED  BY <3>1, <3>2, <1>0
  <2> QED  BY <2>1, <2>2
<1>10. \A i \in 1..(L + 1) : s6'[L + 1] - s6'[i] < Some <=> i > e
  <2>1. s1 - s1 < Some /\ L + 1 > e  BY <1>0, <1>6
  <2> QED  BY <1>4, <1>8, <1>9, <2>1
<1>11. \A i \in 1..(L + 1) : s6'[i] <= s1' /\ \A j \in 1..i : s6'[j] <= s6'[i]
  <2>1. ASSUME NEW i \in 1..L PROVE s6'[i] <= s1' /\ \A j \in 1..i : s6'[j] <= s6'[i]
    <3>1. \A j \in 1..i : j \in 1..L  BY <1>0
    <3> QED  BY <3>1, <1>0, <1>4
  <2>2. s6'[L + 1] <= s1' /\ \A j \in 1..(L + 1) : s6'[j] <= s6'[L + 1]
    BY <1>4, <1>8, <1>0
  <2> QED  BY <2>1, <2>2, <1>8
<1>12. \A i \in 1..L : Model!Trips(i)' = Model!Trips(i)
  <2>1. ASSUME NEW i \in 1..L
        PROVE {j \in 1..i : s6'[i] - s6'[j] < Some} = {j \in 1..i : s6[i] - s6[j] < Some}
    <3>1. \A j \in 1..i : j \in 1..L  BY <1>0
    <3> QED  BY <3>1, <1>4
  <2> QED  BY <2>1 DEF Model!Trips
<1>13. Model!Trips(L + 1)' <=> Len(g) >= Few
  <2>1. {j \in 1..(L + 1) : s6'[L + 1] - s6'[j] < Some} = (e + 1)..(L + 1)
    <3>1. {j \in 1..(L + 1) : s6'[L + 1] - s6'[j] < Some} = {j \in 1..(L + 1) : j > e}  BY <1>10
    <3>2. {j \in 1..(L + 1) : j > e} = (e + 1)..(L + 1)  BY <1>6, <1>n
    <3> QED  BY <3>1, <3>2
  <2>2. Cardinality((e + 1)..(L + 1)) = IF e + 1 > L + 1 THEN 0 ELSE (L + 1) - (e + 1) + 1
    <3>1. e + 1 \in Int /\ L + 1 \in Int  BY <1>6, <1>0
    <3> QED  BY <3>1, FS_Interval
  <2>3. Cardinality((e + 1)..(L + 1)) = Len(g)
    <3>1. e + 1 <= L + 1 /\ (L + 1) - (e + 1) + 1 = Len(f) - m + 1  BY <1>n
    <3>2. Len(g) = Len(f) - m + 1  BY <1>3
    <3>3. ~(e + 1 > L + 1)  BY <1>n
    <3> QED  BY <2>2, <3>1, <3>2, <3>3
  <2>4. Model!Trips(L + 1)' = (Cardinality({j \in 1..(L + 1) : s6'[L + 1] - s6'[j] < Some}) >= Few)
    BY GatewaySizes DEF Model!Trips
  <2> QED  BY <2>1, <2>3, <2>4
<1>14. IF s2'.opened
         THEN \E i \in 1..(L + 1) :
                /\ Model!Trips(i)' /\ s2'.probe = s6'[i] + Few
                /\ \A j \in 1..(L + 1) : Model!Trips(j)' => j <= i
         ELSE \A i \in 1..(L + 1) : ~Model!Trips(i)'
  <2>1. CASE Len(g) >= Few
    <3>1. s2'.opened /\ s2'.probe = s6'[L + 1] + Few /\ Model!Trips(L + 1)'  BY <2>1, <1>4, <1>5, <1>13
    <3>2. L + 1 \in 1..(L + 1) /\ \A j \in 1..(L + 1) : j <= L + 1  BY <1>0
    <3> QED  BY <3>1, <3>2
  <2>2. CASE ~(Len(g) >= Few) /\ s2.opened
    <3>1. PICK i \in 1..L : /\ Model!Trips(i) /\ s2.probe = s6[i] + Few
                            /\ \A j \in 1..L : Model!Trips(j) => j <= i
      BY <2>2, <1>l DEF Model!BreakerHolds
    <3>2. s2'.opened /\ s2'.probe = s6'[i] + Few /\ Model!Trips(i)'  BY <2>2, <3>1, <1>4, <1>5, <1>12
    <3>3. \A j \in 1..(L + 1) : Model!Trips(j)' => j <= i  BY <2>2, <3>1, <1>8, <1>12, <1>13
    <3>4. i \in 1..(L + 1)  BY <1>0
    <3> QED  BY <3>2, <3>3, <3>4
  <2>3. CASE ~(Len(g) >= Few) /\ ~s2.opened
    <3>1. \A i \in 1..L : ~Model!Trips(i)  BY <2>3, <1>l DEF Model!BreakerHolds
    <3>2. ~s2'.opened  BY <2>3, <1>5
    <3> QED  BY <2>3, <3>1, <3>2, <1>8, <1>12, <1>13
  <2> QED  BY <2>1, <2>2, <2>3
<1>15. Len(s6') - Len(s2'.failures) = e  BY <1>4, <1>5, <1>6, <1>0
<1>16. /\ s1' \in Nat /\ s6' \in Seq(Nat) /\ s2' \in [failures : Seq(Nat), opened : BOOLEAN, probe : Nat]
       /\ \A i \in 1..Len(s6') : s6'[i] <= s1' /\ \A j \in 1..i : s6'[j] <= s6'[i]
  BY <1>0, <1>4, <1>5, <1>11
<1>17. /\ e >= 0 /\ \A i \in 1..Len(s2'.failures) : s2'.failures[i] = s6'[e + i]
       /\ \A i \in 1..Len(s6') : s6'[Len(s6')] - s6'[i] < Some <=> i > e
  <2>1. e >= 0  BY <1>n
  <2>2. \A i \in 1..Len(s2'.failures) : s2'.failures[i] = s6'[e + i]  BY <1>5, <1>7
  <2>3. \A i \in 1..Len(s6') : s6'[Len(s6')] - s6'[i] < Some <=> i > e  BY <1>4, <1>10
  <2> QED  BY <2>1, <2>2, <2>3
<1>18. IF s2'.opened
         THEN \E i \in 1..Len(s6') :
                /\ Model!Trips(i)' /\ s2'.probe = s6'[i] + Few
                /\ \A j \in 1..Len(s6') : Model!Trips(j)' => j <= i
         ELSE \A i \in 1..Len(s6') : ~Model!Trips(i)'
  BY <1>4, <1>14
<1> QED  BY <1>15, <1>16, <1>17, <1>18 DEF Model!BreakerHolds

LEMMA BreakerStep == Model!BreakerHolds /\ [Model!Next]_(Model!vars) => Model!BreakerHolds'
<1> SUFFICES ASSUME Model!BreakerHolds, [Model!Next]_(Model!vars) PROVE Model!BreakerHolds'  OBVIOUS
<1>0. /\ s1 \in Nat /\ s6 \in Seq(Nat) /\ s2 \in [failures : Seq(Nat), opened : BOOLEAN, probe : Nat]
      /\ \A i \in 1..Len(s6) : s6[i] \in Nat /\ s6[i] <= s1
  <2>1. s6 \in Seq(Nat)  BY DEF Model!BreakerHolds
  <2> QED  BY <2>1 DEF Model!BreakerHolds
<1>1. CASE UNCHANGED <<s2, s6>> /\ s1' \in Nat /\ s1' >= s1
  <2>1. \A i \in 1..Len(s6) : s6[i] <= s1'  BY <1>0, <1>1
  <2>2. \A i \in 1..Len(s6) : Model!Trips(i)' = Model!Trips(i)  BY <1>1 DEF Model!Trips
  <2> QED  BY <1>1, <2>1, <2>2 DEF Model!BreakerHolds
<1>2. CASE s1' = s1 /\ s6' = <<>> /\ s2' = Model!RecordSuccess(s2)
  <2>1. s2' = [s2 EXCEPT !.failures = <<>>, !.opened = FALSE]  BY <1>2 DEF Model!RecordSuccess
  <2>2. s2'.failures = <<>> /\ ~s2'.opened /\ s2' \in [failures : Seq(Nat), opened : BOOLEAN, probe : Nat]
    <3>1. <<>> \in Seq(Nat)  OBVIOUS
    <3> QED  BY <2>1, <3>1, <1>0
  <2>3. Len(s6') = 0 /\ Len(s2'.failures) = 0 /\ s6' \in Seq(Nat)  BY <1>2, <2>2
  <2>4. Len(s6') - Len(s2'.failures) >= 0  BY <2>3
  <2>5. \A i : i \notin 1..Len(s6') /\ i \notin 1..Len(s2'.failures)  BY <2>3
  <2> QED  BY <1>0, <1>2, <2>2, <2>3, <2>4, <2>5 DEF Model!BreakerHolds
<1>3. ASSUME NEW s \in Callers, Model!Start(s) \/ Model!Answers(s) \/ Model!Fails(s)
      PROVE  \/ UNCHANGED <<s1, s2, s6>>
             \/ s1' = s1 /\ s6' = <<>> /\ s2' = Model!RecordSuccess(s2)
             \/ s1' = s1 /\ s6' = Append(s6, s1) /\ s2' = Model!RecordFailure(s2)
  BY <1>3 DEF Model!Start, Model!Answers, Model!Fails
<1>4. CASE Model!Tick \/ UNCHANGED Model!vars
  BY <1>4, <1>1, <1>0 DEF Model!Tick, Model!vars
<1> QED  BY <1>0, <1>1, <1>2, <1>3, <1>4, BreakerFails DEF Model!Next

LEMMA BreakerRefuses == Model!BreakerHolds => Model!RefusesInTime
<1> SUFFICES ASSUME Model!BreakerHolds PROVE Model!RefusesInTime  OBVIOUS
<1>1. /\ s1 \in Nat /\ s2.probe \in Nat /\ s6 \in Seq(Nat) /\ Few \in Nat
      /\ DOMAIN s6 = 1..Len(s6) /\ \A i \in 1..Len(s6) : s6[i] \in Nat
      /\ \A i \in 1..Len(s6) : \A j \in 1..i : s6[j] <= s6[i]
  BY BoundsAssumption DEF Model!BreakerHolds
<1>2. CASE s2.opened
  <2>1. PICK i \in 1..Len(s6) :
          /\ Model!Trips(i) /\ s2.probe = s6[i] + Few
          /\ \A j \in 1..Len(s6) : Model!Trips(j) => j <= i
    BY <1>2 DEF Model!BreakerHolds
  <2>2. ~Model!Available(s2) <=> s1 < s6[i] + Few  BY <1>1, <1>2, <2>1 DEF Model!Available
  <2>3. \A j \in 1..Len(s6) : s1 - s6[j] < Few <=> s1 < s6[j] + Few  BY <1>1
  <2>4. \A j \in 1..Len(s6) : Model!Trips(j) => s6[j] <= s6[i]
    <3>1. \A j \in 1..Len(s6) : Model!Trips(j) => j \in 1..i  BY <2>1
    <3> QED  BY <3>1, <1>1
  <2>5. \A j \in 1..Len(s6) : Model!Trips(j) /\ s1 < s6[j] + Few => s1 < s6[i] + Few  BY <2>4, <1>1
  <2> QED  BY <1>1, <2>1, <2>2, <2>3, <2>5 DEF Model!RefusesInTime
<1>3. CASE ~s2.opened
  BY <1>1, <1>3 DEF Model!BreakerHolds, Model!RefusesInTime, Model!Available
<1> QED  BY <1>2, <1>3

-----------------------------------------------------------------------------
(* When the AI moves on: the summary of the last ticks.                     *)
LEMMA AdvanceSizes == \A S : Moves!Cardinality(S) = Cardinality(S)
BY DEF Moves!Cardinality, Cardinality, Moves!IsFiniteSet, IsFiniteSet

\* The last ones of a sequence, counted from its end.
LEMMA BackLast ==
  ASSUME NEW S, NEW s \in Seq(S), NEW n \in Nat
  PROVE  LET l == Moves!LastOf(s, n) IN
         /\ l \in Seq(S) /\ Len(l) = IF Len(s) < n THEN Len(s) ELSE n
         /\ \A j \in 0..(Len(l) - 1) : Moves!Back(l, j) = Moves!Back(s, j)
<1>0. Len(s) \in Nat /\ \A i \in 1..Len(s) : s[i] \in S  OBVIOUS
<1>1. PICK b \in 1..(Len(s) + 1) : /\ Moves!LastOf(s, n) = SubSeq(s, b, Len(s))
                                   /\ b = IF Len(s) > n THEN Len(s) - n + 1 ELSE 1
  <2>1. (IF Len(s) > n THEN Len(s) - n + 1 ELSE 1) \in 1..(Len(s) + 1)  BY <1>0
  <2> QED  BY <2>1 DEF Moves!LastOf
<1>2. PICK l : l = SubSeq(s, b, Len(s))  OBVIOUS
<1>3. /\ l \in Seq(S) /\ Len(l) = IF b <= Len(s) THEN Len(s) - b + 1 ELSE 0
      /\ \A i \in 1..(Len(s) - b + 1) : l[i] = s[b + i - 1]
  <2>1. b \in Int /\ Len(s) \in Int /\ \A i \in b..Len(s) : s[i] \in S  BY <1>0, <1>1
  <2> QED  BY <2>1, <1>2, SubSeqProperties
<1>4. Len(l) = Len(s) - b + 1 /\ b \in Nat
  <2>1. \A x \in Nat : \A y \in 1..(x + 1) : y \in Nat /\ (IF y <= x THEN x - y + 1 ELSE 0) = x - y + 1
    OBVIOUS
  <2>2. PICK x : x = Len(s)  OBVIOUS
  <2>3. b \in 1..(x + 1) /\ x \in Nat  BY <1>0, <1>1, <2>2
  <2>4. b \in Nat /\ (IF b <= x THEN x - b + 1 ELSE 0) = x - b + 1  BY <2>1, <2>3
  <2>5. Len(l) = IF b <= x THEN x - b + 1 ELSE 0  BY <1>3, <2>2
  <2> QED  BY <2>2, <2>4, <2>5
<1>5. Len(l) = IF Len(s) < n THEN Len(s) ELSE n
  <2>1. \A x \in Nat : x - (IF x > n THEN x - n + 1 ELSE 1) + 1 = IF x < n THEN x ELSE n  OBVIOUS
  <2> QED  BY <2>1, <1>0, <1>1, <1>4
<1>6. ASSUME NEW j \in 0..(Len(l) - 1) PROVE Moves!Back(l, j) = Moves!Back(s, j)
  <2>1. Len(l) - j \in 1..(Len(s) - b + 1) /\ b + (Len(l) - j) - 1 = Len(s) - j  BY <1>0, <1>4
  <2> QED  BY <2>1, <1>3 DEF Moves!Back
<1> QED  BY <1>1, <1>2, <1>3, <1>5, <1>6

LEMMA BackAppend ==
  ASSUME NEW S, NEW s \in Seq(S), NEW x \in S
  PROVE  /\ Append(s, x) \in Seq(S) /\ Len(Append(s, x)) = Len(s) + 1 /\ Moves!Back(Append(s, x), 0) = x
         /\ \A j \in 1..Len(s) : Moves!Back(Append(s, x), j) = Moves!Back(s, j - 1)
<1>0. Len(s) \in Nat  OBVIOUS
<1>1. PICK t : t = Append(s, x)  OBVIOUS
<1>2. /\ t \in Seq(S) /\ Len(t) = Len(s) + 1 /\ t[Len(s) + 1] = x /\ \A i \in 1..Len(s) : t[i] = s[i]
  BY <1>1, AppendProperties
<1>3. Moves!Back(t, 0) = x
  <2>1. Len(t) - 0 = Len(s) + 1  BY <1>0, <1>2
  <2> QED  BY <2>1, <1>2 DEF Moves!Back
<1>4. ASSUME NEW j \in 1..Len(s) PROVE Moves!Back(t, j) = Moves!Back(s, j - 1)
  <2>1. Len(t) - j = Len(s) - (j - 1) /\ Len(s) - (j - 1) \in 1..Len(s)  BY <1>0, <1>2
  <2> QED  BY <2>1, <1>2 DEF Moves!Back
<1> QED  BY <1>1, <1>2, <1>3, <1>4

\* What is kept of a tick.
LEMMA TopicKept ==
  ASSUME s1 \in 1..Some, NEW r \in Moves!Topics
  PROVE  /\ r.sid \in 0..Some /\ r.conf \in Nat /\ (r.conf >= 2 <=> r.sid # 0)
         /\ Moves!Heard(r) \in Moves!Known /\ Moves!Heard(r).sid = r.sid
         /\ Moves!Heard(r).conf = 4 <=> r.conf = 4
         /\ Moves!Entry(r) \in Moves!Topics /\ Moves!Entry(r) \in Moves!EntryOf(Moves!Heard(r))
         /\ IF r.sid > s1 THEN Moves!Entry(r) = r /\ r # Moves!Nothing ELSE Moves!Entry(r) = Moves!Nothing
<1>0. Some \in Nat  BY BoundsAssumption
<1>1. Moves!Nothing \in Moves!Topics /\ Moves!Nothing.sid = 0 /\ Moves!Nothing.conf = 0
  BY DEF Moves!Topics, Moves!Nothing, Moves!None, Moves!Faint
<1>2. CASE r = Moves!Nothing
  <2>1. Moves!Heard(r) = Moves!Nothing /\ Moves!Entry(r) = Moves!Nothing
    BY <1>1, <1>2, <1>0 DEF Moves!Heard, Moves!Entry, Moves!Likely
  <2>2. Moves!Nothing \in Moves!Known  BY DEF Moves!Known
  <2>3. ~(0 > s1) /\ 0 \in 0..Some  BY <1>0
  <2> QED  BY <2>1, <2>2, <2>3, <1>1, <1>2 DEF Moves!EntryOf
<1>3. CASE r \in [sid : 1..Some, conf : 2..4]
  <2>1. r.sid \in 1..Some /\ r.conf \in 2..4  BY <1>3
  <2>2. PICK h : h = Moves!Heard(r)  OBVIOUS
  <2>3. h = [r EXCEPT !.conf = IF @ = 4 THEN @ ELSE 2]
    BY <2>1, <2>2 DEF Moves!Heard, Moves!Likely, Moves!Certain
  <2>4. h \in [sid : 1..Some, conf : {2, 4}] /\ h.sid = r.sid /\ (h.conf = 4 <=> r.conf = 4)
    BY <2>3, <1>3
  <2>5. h \in Moves!Known  BY <2>4 DEF Moves!Known, Moves!Points, Moves!Likely, Moves!Certain
  <2>6. Moves!Entry(r) = IF r.sid > s1 THEN r ELSE Moves!Nothing  BY <2>1 DEF Moves!Entry, Moves!Likely
  <2>7. r # Moves!Nothing  BY <2>1, <1>1
  <2>8. Moves!Entry(r) \in Moves!Topics /\ Moves!Entry(r) \in Moves!EntryOf(h)
    BY <2>4, <2>6, <1>1 DEF Moves!EntryOf, Moves!Certain
  <2> QED  BY <2>1, <2>2, <2>4, <2>5, <2>6, <2>7, <2>8, <1>0
<1> QED  BY <1>2, <1>3 DEF Moves!Topics, Moves!Points, Moves!Likely, Moves!Certain

\* later_hist after a tick is as the last ticks with this one.
LEMMA HistNext ==
  ASSUME Moves!AdvanceTypes, Moves!HistHolds, NEW r \in Moves!Topics
  PROVE  LET talk == Append(s8, Moves!Heard(r)) IN
         /\ Moves!Hist(r) \in Seq(Moves!Topics)
         /\ Len(Moves!Hist(r)) = IF Len(talk) < Some THEN Len(talk) ELSE Some
         /\ Moves!Back(Moves!Hist(r), 0) = Moves!Entry(r)
         /\ \A j \in 0..(Len(Moves!Hist(r)) - 1) :
              Moves!Back(Moves!Hist(r), j) \in Moves!EntryOf(Moves!Back(talk, j))
<1>0. Some \in Nat /\ Some > 0 /\ (Some - 1) \in Nat  BY BoundsAssumption
<1>1. /\ s1 \in 1..Some /\ s5 \in Seq(Moves!Topics) /\ s8 \in Seq(Moves!Known) /\ Len(s8) <= Some
      /\ Len(s5) \in Nat /\ Len(s8) \in Nat
  BY DEF Moves!AdvanceTypes, Moves!Points
<1>2. /\ Moves!Entry(r) \in Moves!Topics /\ Moves!Entry(r) \in Moves!EntryOf(Moves!Heard(r))
      /\ Moves!Heard(r) \in Moves!Known
  BY <1>1, TopicKept
<1>3. PICK talk : talk = Append(s8, Moves!Heard(r))  OBVIOUS
<1>4. PICK l : l = Moves!LastOf(s5, Some - 1)  OBVIOUS
<1>5. PICK h : h = Append(l, Moves!Entry(r))  OBVIOUS
<1>6. h = Moves!Hist(r)  BY <1>4, <1>5 DEF Moves!Hist
<1>7. /\ l \in Seq(Moves!Topics) /\ Len(l) = IF Len(s5) < Some - 1 THEN Len(s5) ELSE Some - 1
      /\ \A j \in 0..(Len(l) - 1) : Moves!Back(l, j) = Moves!Back(s5, j)
  BY <1>0, <1>1, <1>4, BackLast
<1>8. /\ h \in Seq(Moves!Topics) /\ Len(h) = Len(l) + 1 /\ Moves!Back(h, 0) = Moves!Entry(r)
      /\ \A j \in 1..Len(l) : Moves!Back(h, j) = Moves!Back(l, j - 1)
  BY <1>2, <1>5, <1>7, BackAppend
<1>9. /\ Len(talk) = Len(s8) + 1 /\ Moves!Back(talk, 0) = Moves!Heard(r)
      /\ \A j \in 1..Len(s8) : Moves!Back(talk, j) = Moves!Back(s8, j - 1)
  BY <1>1, <1>2, <1>3, BackAppend
<1>10. /\ Len(s5) = IF Len(s8) < Some THEN Len(s8) ELSE Some
       /\ \A j \in 0..(Len(s5) - 1) : Moves!Back(s5, j) \in Moves!EntryOf(Moves!Back(s8, j))
  BY DEF Moves!HistHolds
<1>11. Len(l) \in Nat /\ Len(l) <= Len(s5) /\ Len(s5) <= Len(s8)  BY <1>0, <1>1, <1>7, <1>10
<1>12. Len(h) = IF Len(talk) < Some THEN Len(talk) ELSE Some
  BY <1>0, <1>1, <1>7, <1>8, <1>9, <1>10
<1>13. ASSUME NEW j \in 0..(Len(h) - 1) PROVE Moves!Back(h, j) \in Moves!EntryOf(Moves!Back(talk, j))
  <2>1. CASE j = 0  BY <2>1, <1>2, <1>8, <1>9
  <2>2. CASE j # 0
    <3>1. /\ j \in 1..Len(l) /\ (j - 1) \in 0..(Len(l) - 1) /\ (j - 1) \in 0..(Len(s5) - 1)
          /\ j \in 1..Len(s8)
      BY <2>2, <1>1, <1>8, <1>11
    <3> QED  BY <3>1, <1>7, <1>8, <1>9, <1>10
  <2> QED  BY <2>1, <2>2
<1> QED  BY <1>3, <1>6, <1>8, <1>12, <1>13

\* And later_run.
LEMMA RunNext ==
  ASSUME Moves!AdvanceTypes, Moves!RunHolds, NEW r \in Moves!Topics
  PROVE  LET talk == Append(s8, Moves!Heard(r))
             u == Moves!Run(Moves!Entry(r)) IN
         /\ u \in [sid : 0..Some, n : Nat]
         /\ u.n <= Len(talk) \/ Len(talk) > Some
         /\ \A j \in 0..(Len(talk) - 1) : j < u.n => Moves!Back(talk, j).sid = u.sid
         /\ IF r.sid > s1 THEN /\ u.sid = r.sid /\ u.n >= 1
                               /\ u.n < Len(talk) => Moves!Back(talk, u.n).sid # u.sid
            ELSE u.sid = 0 /\ u.n = 0
<1>0. Some \in Nat /\ Some > 0  BY BoundsAssumption
<1>1. /\ s1 \in 1..Some /\ s8 \in Seq(Moves!Known) /\ Len(s8) <= Some /\ Len(s8) \in Nat
      /\ s6 \in [sid : 0..Some, n : Nat]
  BY <1>0 DEF Moves!AdvanceTypes, Moves!Points, Moves!None
<1>2. /\ Moves!Heard(r) \in Moves!Known /\ Moves!Heard(r).sid = r.sid /\ r.sid \in 0..Some
      /\ IF r.sid > s1 THEN Moves!Entry(r) = r /\ r # Moves!Nothing ELSE Moves!Entry(r) = Moves!Nothing
  BY <1>1, TopicKept
<1>3. PICK talk : talk = Append(s8, Moves!Heard(r))  OBVIOUS
<1>4. PICK u : u = Moves!Run(Moves!Entry(r))  OBVIOUS
<1>5. /\ Len(talk) = Len(s8) + 1 /\ Moves!Back(talk, 0).sid = r.sid
      /\ \A j \in 1..Len(s8) : Moves!Back(talk, j) = Moves!Back(s8, j - 1)
  BY <1>1, <1>2, <1>3, BackAppend
<1>6. /\ s6.n <= Len(s8) \/ Len(s8) = Some
      /\ \A j \in 0..(Len(s8) - 1) : j < s6.n => Moves!Back(s8, j).sid = s6.sid
      /\ s6.sid = 0 => s6.n = 0 /\ (s8 # <<>> => Moves!Back(s8, 0).sid <= s1)
      /\ s6.sid # 0 => s6.n >= 1 /\ (s6.n < Len(s8) => Moves!Back(s8, s6.n).sid # s6.sid)
  BY DEF Moves!RunHolds, Moves!None
<1>7. CASE r.sid > s1
  <2>0. u = [sid |-> r.sid, n |-> IF s6.sid = r.sid THEN s6.n + 1 ELSE 1]  BY <1>2, <1>4, <1>7 DEF Moves!Run
  <2>1. u.sid = r.sid /\ u.n = (IF s6.sid = r.sid THEN s6.n + 1 ELSE 1) /\ s6.n \in Nat
    BY <2>0, <1>1
  <2>2. u.n \in Nat /\ u.n >= 1 /\ u \in [sid : 0..Some, n : Nat]
    <3>1. (IF s6.sid = r.sid THEN s6.n + 1 ELSE 1) \in Nat  BY <2>1
    <3>2. u.n >= 1  BY <2>1
    <3> QED  BY <2>0, <2>1, <3>1, <3>2, <1>2
  <2>3. u.n <= Len(talk) \/ Len(talk) > Some  BY <2>1, <1>0, <1>1, <1>5, <1>6
  <2>4. ASSUME NEW j \in 0..(Len(talk) - 1), j < u.n PROVE Moves!Back(talk, j).sid = u.sid
    <3>1. CASE j = 0  BY <3>1, <2>1, <1>5
    <3>2. CASE j # 0
      <4>1. j \in 1..Len(s8) /\ (j - 1) \in 0..(Len(s8) - 1)  BY <3>2, <1>1, <1>5
      <4>2. s6.sid = r.sid /\ j - 1 < s6.n  BY <3>2, <2>1, <2>4, <4>1
      <4> QED  BY <4>1, <4>2, <2>1, <1>5, <1>6
    <3> QED  BY <3>1, <3>2
  <2>5. ASSUME u.n < Len(talk) PROVE Moves!Back(talk, u.n).sid # u.sid
    <3>1. u.n \in 1..Len(s8) /\ Moves!Back(talk, u.n) = Moves!Back(s8, u.n - 1)
      BY <2>2, <2>5, <1>1, <1>5
    <3>2. CASE s6.sid = r.sid
      <4>1. u.n - 1 = s6.n /\ s6.n < Len(s8)  BY <3>1, <3>2, <2>1, <1>1
      <4>2. s6.sid # 0  BY <3>2, <1>1, <1>7
      <4> QED  BY <3>1, <3>2, <4>1, <4>2, <2>1, <1>6
    <3>3. CASE s6.sid # r.sid
      <4>1. u.n - 1 = 0 /\ 0 \in 0..(Len(s8) - 1) /\ s8 # <<>>  BY <3>1, <3>3, <2>1, <1>1
      <4>2. Moves!Back(s8, 0).sid # r.sid
        <5>1. CASE s6.sid = 0
          <6>1. Moves!Back(s8, 0).sid <= s1  BY <5>1, <4>1, <1>6
          <6>2. ~(r.sid <= s1)  BY <1>1, <1>2, <1>7
          <6> QED  BY <6>1, <6>2
        <5>2. CASE s6.sid # 0
          <6>1. 0 < s6.n  BY <5>2, <1>6, <2>1
          <6> QED  BY <6>1, <4>1, <3>3, <1>6
        <5> QED  BY <5>1, <5>2
      <4> QED  BY <3>1, <4>1, <4>2, <2>1
    <3> QED  BY <3>2, <3>3
  <2> QED  BY <2>1, <2>2, <2>3, <2>4, <2>5, <1>3, <1>4, <1>7
<1>8. CASE ~(r.sid > s1)
  <2>1. u = [sid |-> 0, n |-> 0]  BY <1>2, <1>4, <1>8 DEF Moves!Run, Moves!NoRun, Moves!None
  <2>2. u.sid = 0 /\ u.n = 0 /\ u \in [sid : 0..Some, n : Nat]  BY <2>1, <1>0
  <2>3. 0 <= Len(talk)  BY <1>1, <1>5
  <2>4. \A j \in 0..(Len(talk) - 1) : ~(j < 0)  OBVIOUS
  <2> QED  BY <2>2, <2>3, <2>4, <1>3, <1>4, <1>8
<1> QED  BY <1>7, <1>8

\* The histories start anew after a move.
LEMMA AdvanceAnew ==
  ASSUME Moves!Forget, s1' \in 1..Some
  PROVE  Moves!AdvanceHolds'
<1>0. Some \in Nat /\ Some > 0 /\ Least \in Nat  BY BoundsAssumption
<1>1. /\ s3' = 0 /\ s4' = [sid |-> 0, age |-> 0] /\ s5' = <<>> /\ s6' = [sid |-> 0, n |-> 0] /\ s8' = <<>>
      /\ s9' = [p \in 1..Some |-> Least + 1]
  BY DEF Moves!Forget, Moves!None, Moves!NoHint, Moves!NoRun, Moves!Points
<1>2. Len(<<>>) = 0 /\ \A S : <<>> \in Seq(S)  OBVIOUS
<1>3. Moves!AdvanceTypes'
  <2>1. s9' \in [1..Some -> Nat]  BY <1>0, <1>1
  <2>2. 0 <= Some /\ 0 \in Nat  BY <1>0
  <2> QED  BY <1>1, <1>2, <2>1, <2>2 DEF Moves!AdvanceTypes, Moves!Points, Moves!None
<1>4. Moves!HistHolds'
  <2>1. Len(s5') = 0 /\ Len(s8') = 0 /\ 0 < Some /\ \A j \in 0..(0 - 1) : FALSE  BY <1>0, <1>1, <1>2
  <2> QED  BY <2>1 DEF Moves!HistHolds
<1>5. Moves!RunHolds'
  <2>1. s6'.sid = 0 /\ s6'.n = 0 /\ Len(s8') = 0 /\ 0 <= 0 /\ \A j \in 0..(0 - 1) : FALSE  BY <1>1, <1>2
  <2> QED  BY <2>1, <1>1 DEF Moves!RunHolds, Moves!None
<1>6. Moves!CuesHold'
  <2>1. s4'.sid = 0  BY <1>1
  <2> QED  BY <2>1, <1>1 DEF Moves!CuesHold, Moves!None
<1> QED  BY <1>3, <1>4, <1>5, <1>6 DEF Moves!AdvanceHolds

LEMMA AdvanceInit == Moves!Init => Moves!AdvanceHolds
<1> SUFFICES ASSUME Moves!Init PROVE Moves!AdvanceHolds  OBVIOUS
<1>0. Some \in Nat /\ Some > 0 /\ Least \in Nat  BY BoundsAssumption
<1>1. /\ s1 = 1 /\ s3 = 0 /\ s4 = [sid |-> 0, age |-> 0] /\ s5 = <<>> /\ s6 = [sid |-> 0, n |-> 0] /\ s8 = <<>>
      /\ s9 = [p \in 1..Some |-> Least + 1]
  BY DEF Moves!Init, Moves!None, Moves!NoHint, Moves!NoRun, Moves!Points
<1>2. Len(<<>>) = 0 /\ \A S : <<>> \in Seq(S)  OBVIOUS
<1>3. Moves!AdvanceTypes
  <2>1. s9 \in [1..Some -> Nat]  BY <1>0, <1>1
  <2>2. 0 <= Some /\ 0 \in Nat /\ 1 \in 1..Some  BY <1>0
  <2> QED  BY <1>1, <1>2, <2>1, <2>2 DEF Moves!AdvanceTypes, Moves!Points, Moves!None
<1>4. Moves!HistHolds
  <2>1. Len(s5) = 0 /\ Len(s8) = 0 /\ 0 < Some /\ \A j \in 0..(0 - 1) : FALSE  BY <1>0, <1>1, <1>2
  <2> QED  BY <2>1 DEF Moves!HistHolds
<1>5. Moves!RunHolds
  <2>1. s6.sid = 0 /\ s6.n = 0 /\ Len(s8) = 0 /\ 0 <= 0 /\ \A j \in 0..(0 - 1) : FALSE  BY <1>1, <1>2
  <2> QED  BY <2>1, <1>1 DEF Moves!RunHolds, Moves!None
<1>6. Moves!CuesHold
  <2>1. s4.sid = 0  BY <1>1
  <2> QED  BY <2>1, <1>1 DEF Moves!CuesHold, Moves!None
<1> QED  BY <1>3, <1>4, <1>5, <1>6 DEF Moves!AdvanceHolds

\* A tick that moves nothing.
LEMMA AdvanceHeard ==
  ASSUME Moves!AdvanceHolds, NEW r \in Moves!Topics, NEW a \in Moves!Cues,
         s1' = s1, s3' = Moves!Candidate(r), s4' = Moves!Hint(a), s5' = Moves!Hist(r),
         s6' = Moves!Run(Moves!Entry(r)), s8' = Moves!LastOf(Append(s8, Moves!Heard(r)), Some),
         s9' = IF a.sid > s1 /\ a.conf >= 1 THEN [s9 EXCEPT ![a.sid] = 0] ELSE s9
  PROVE  Moves!AdvanceHolds'
<1>0. Some \in Nat /\ Some > 0  BY BoundsAssumption
<1>1. /\ s1 \in 1..Some /\ s3 \in 0..Some /\ s4 \in [sid : 0..Some, age : Nat] /\ s9 \in [1..Some -> Nat]
      /\ s8 \in Seq(Moves!Known) /\ Len(s8) <= Some /\ Len(s8) \in Nat
  BY <1>0 DEF Moves!AdvanceHolds, Moves!AdvanceTypes, Moves!Points, Moves!None
<1>2. /\ Moves!Heard(r) \in Moves!Known /\ Moves!Heard(r).sid = r.sid /\ r.sid \in 0..Some
  BY <1>1, TopicKept
<1>3. PICK talk : talk = Append(s8, Moves!Heard(r))  OBVIOUS
<1>4. /\ talk \in Seq(Moves!Known) /\ Len(talk) = Len(s8) + 1 /\ Moves!Back(talk, 0).sid = r.sid
  BY <1>1, <1>2, <1>3, BackAppend
<1>5. PICK w : w = s8'  OBVIOUS
<1>6. /\ w \in Seq(Moves!Known) /\ Len(w) = IF Len(talk) < Some THEN Len(talk) ELSE Some
      /\ \A j \in 0..(Len(w) - 1) : Moves!Back(w, j) = Moves!Back(talk, j)
  <2>1. w = Moves!LastOf(talk, Some)  BY <1>3, <1>5
  <2> QED  BY <2>1, <1>0, <1>4, BackLast
<1>7. Len(w) \in Nat /\ Len(w) >= 1 /\ Len(w) <= Some /\ Len(w) <= Len(talk) /\ 0 \in 0..(Len(w) - 1)
  BY <1>0, <1>1, <1>4, <1>6
<1>8. w # <<>> /\ Moves!Back(w, 0).sid = r.sid  BY <1>4, <1>6, <1>7
<1>9. PICK h : h = s5'  OBVIOUS
<1>10. /\ h \in Seq(Moves!Topics) /\ Len(h) = Len(w)
       /\ \A j \in 0..(Len(h) - 1) : Moves!Back(h, j) \in Moves!EntryOf(Moves!Back(w, j))
  <2>1. /\ h \in Seq(Moves!Topics) /\ Len(h) = IF Len(talk) < Some THEN Len(talk) ELSE Some
        /\ \A j \in 0..(Len(h) - 1) : Moves!Back(h, j) \in Moves!EntryOf(Moves!Back(talk, j))
    BY <1>3, <1>9, HistNext DEF Moves!AdvanceHolds
  <2> QED  BY <2>1, <1>6
<1>11. PICK u : u = s6'  OBVIOUS
<1>12. /\ u \in [sid : 0..Some, n : Nat]
       /\ u.n <= Len(talk) \/ Len(talk) > Some
       /\ \A j \in 0..(Len(talk) - 1) : j < u.n => Moves!Back(talk, j).sid = u.sid
       /\ IF r.sid > s1 THEN /\ u.sid = r.sid /\ u.n >= 1
                             /\ u.n < Len(talk) => Moves!Back(talk, u.n).sid # u.sid
          ELSE u.sid = 0 /\ u.n = 0
  BY <1>3, <1>11, RunNext DEF Moves!AdvanceHolds
<1>13. Moves!HistHolds'
  <2>1. Len(h) = IF Len(w) < Some THEN Len(w) ELSE Some  BY <1>0, <1>7, <1>10
  <2>2. ASSUME NEW j \in 0..(Len(h) - 1)
        PROVE  (Moves!Back(s5, j) \in Moves!EntryOf(Moves!Back(s8, j)))'
    <3>1. Moves!Back(h, j) \in Moves!EntryOf(Moves!Back(w, j))  BY <1>10
    <3> QED  BY <3>1, <1>5, <1>9 DEF Moves!EntryOf, Moves!Back
  <2> QED  BY <2>1, <2>2, <1>5, <1>9 DEF Moves!HistHolds
<1>14. Moves!RunHolds'
  <2>1. u.n <= Len(w) \/ Len(w) = Some  BY <1>0, <1>4, <1>6, <1>12
  <2>2. ASSUME NEW j \in 0..(Len(w) - 1), j < u.n PROVE Moves!Back(w, j).sid = u.sid
    <3>1. j \in 0..(Len(talk) - 1)  BY <1>4, <1>7, <1>1
    <3> QED  BY <3>1, <2>2, <1>6, <1>12
  <2>3. IF u.sid = 0 THEN u.n = 0 /\ (w # <<>> => Moves!Back(w, 0).sid <= s1)
        ELSE /\ u.n >= 1 /\ w # <<>> /\ u.sid > s1
             /\ u.n < Len(w) => Moves!Back(w, u.n).sid # u.sid
    <3>1. CASE r.sid > s1
      <4>1. r.sid # 0 /\ u.sid = r.sid /\ u.n >= 1  BY <3>1, <1>1, <1>12
      <4>2. ASSUME u.n < Len(w) PROVE Moves!Back(w, u.n).sid # u.sid
        <5>1. u.n \in Nat  BY <1>12
        <5>2. u.n \in 0..(Len(w) - 1) /\ u.n < Len(talk)  BY <5>1, <4>2, <1>1, <1>4, <1>7
        <5> QED  BY <5>2, <3>1, <1>6, <1>12
      <4> QED  BY <3>1, <4>1, <4>2, <1>8
    <3>2. CASE ~(r.sid > s1)
      <4>1. r.sid <= s1  BY <3>2, <1>1, <1>2
      <4> QED  BY <3>2, <4>1, <1>8, <1>12
    <3> QED  BY <3>1, <3>2
  <2>4. /\ s6'.n <= Len(s8') \/ Len(s8') = Some
        /\ \A j \in 0..(Len(s8') - 1) : j < s6'.n => Moves!Back(s8', j).sid = s6'.sid
        /\ IF s6'.sid = 0 THEN s6'.n = 0 /\ (s8' # <<>> => Moves!Back(s8', 0).sid <= s1')
           ELSE /\ s6'.n >= 1 /\ s8' # <<>> /\ s6'.sid > s1'
                /\ s6'.n < Len(s8') => Moves!Back(s8', s6'.n).sid # s6'.sid
    BY <2>1, <2>2, <2>3, <1>5, <1>11
  <2> QED  BY <2>4 DEF Moves!RunHolds, Moves!None, Moves!Back
<1>15. a.sid \in 0..Some /\ s4' = (IF a.sid > s1 /\ a.conf >= 1 THEN [sid |-> a.sid, age |-> 0] ELSE s4)
  <2>1. a.sid \in 0..Some
    BY <1>0 DEF Moves!Cues, Moves!Nothing, Moves!None, Moves!Points, Moves!Hinted, Moves!Certain
  <2> QED  BY <2>1 DEF Moves!Hint, Moves!Hinted
<1>16. /\ s4' \in [sid : 0..Some, age : Nat] /\ s9' \in [1..Some -> Nat]
       /\ s4'.sid # 0 => s4'.age = s9'[s4'.sid]
  <2>0. s4.sid # 0 => s4.age = s9[s4.sid]  BY DEF Moves!AdvanceHolds, Moves!CuesHold, Moves!None
  <2>1. CASE a.sid > s1 /\ a.conf >= 1
    <3>1. a.sid \in 1..Some  BY <2>1, <1>1, <1>15
    <3>2. s4' = [sid |-> a.sid, age |-> 0] /\ s9' = [s9 EXCEPT ![a.sid] = 0]  BY <2>1, <1>15
    <3>3. s9' \in [1..Some -> Nat] /\ s9'[a.sid] = 0  BY <3>1, <3>2, <1>1
    <3>4. s4' \in [sid : 0..Some, age : Nat] /\ s4'.sid = a.sid /\ s4'.age = 0  BY <3>2, <1>15
    <3> QED  BY <3>3, <3>4
  <2>2. CASE ~(a.sid > s1 /\ a.conf >= 1)
    <3>1. s4' = s4 /\ s9' = s9  BY <2>2, <1>15
    <3> QED  BY <3>1, <2>0, <1>1
  <2> QED  BY <2>1, <2>2
<1>17. s3' \in 0..Some /\ (s3' # 0 => s3' = r.sid)
  BY <1>0, <1>2 DEF Moves!Candidate, Moves!None
<1>18. Moves!CuesHold'
  <2>1. s3' # 0 => s8' # <<>> /\ Moves!Back(s8', 0).sid = s3'  BY <1>5, <1>8, <1>17
  <2> QED  BY <2>1, <1>16 DEF Moves!CuesHold, Moves!None, Moves!Back
<1>19. Moves!AdvanceTypes'
  <2>1. s3' \in 1..Some \cup {0} /\ s4' \in [sid : 1..Some \cup {0}, age : Nat]
        /\ s6' \in [sid : 1..Some \cup {0}, n : Nat]
    <3>1. 0..Some = 1..Some \cup {0}  BY <1>0
    <3> QED  BY <3>1, <1>11, <1>12, <1>16, <1>17
  <2> QED  BY <2>1, <1>1, <1>5, <1>6, <1>7, <1>9, <1>10, <1>16
           DEF Moves!AdvanceTypes, Moves!Points, Moves!None, Moves!Topics, Moves!Known
<1> QED  BY <1>13, <1>14, <1>18, <1>19 DEF Moves!AdvanceHolds

\* The clock.
LEMMA AdvanceOlder == Moves!AdvanceHolds /\ Moves!Pass => Moves!AdvanceHolds'
<1> SUFFICES ASSUME Moves!AdvanceHolds, Moves!Pass PROVE Moves!AdvanceHolds'  OBVIOUS
<1>0. Some \in Nat /\ Some > 0 /\ Least \in Nat  BY BoundsAssumption
<1>1. /\ s4 \in [sid : 1..Some \cup {0}, age : Nat] /\ s9 \in [1..Some -> Nat]
      /\ s4.sid # 0 => s4.age = s9[s4.sid]
  BY DEF Moves!AdvanceHolds, Moves!AdvanceTypes, Moves!CuesHold, Moves!Points, Moves!None
<1>2. /\ s1' = s1 /\ s3' = s3 /\ s5' = s5 /\ s6' = s6 /\ s8' = s8
      /\ s4' = [s4 EXCEPT !.age = IF s4 = Moves!NoHint THEN 0 ELSE Moves!Older(@)]
      /\ s9' = [p \in 1..Some |-> Moves!Older(s9[p])]
  BY DEF Moves!Pass, Moves!Points
<1>3. \A n \in Nat : Moves!Older(n) \in Nat  BY <1>0 DEF Moves!Older
<1>4. PICK x : x = IF s4 = Moves!NoHint THEN 0 ELSE Moves!Older(s4.age)  OBVIOUS
<1>5. x \in Nat  BY <1>1, <1>3, <1>4
<1>6. s4' = [s4 EXCEPT !.age = x]  BY <1>2, <1>4
<1>7. s4' \in [sid : 1..Some \cup {0}, age : Nat] /\ s4'.sid = s4.sid /\ s4'.age = x  BY <1>1, <1>5, <1>6
<1>8. s9' \in [1..Some -> Nat]  BY <1>1, <1>2, <1>3
<1>9. ASSUME s4.sid # 0 PROVE s4'.age = s9'[s4'.sid]
  <2>1. s4 # Moves!NoHint  BY <1>9 DEF Moves!NoHint, Moves!None
  <2>2. s4.sid \in 1..Some  BY <1>1, <1>9
  <2>3. s9'[s4.sid] = Moves!Older(s9[s4.sid])  BY <2>2, <1>2
  <2> QED  BY <2>1, <2>3, <1>1, <1>4, <1>7, <1>9
<1>10. Moves!AdvanceTypes'
  BY <1>2, <1>7, <1>8
     DEF Moves!AdvanceHolds, Moves!AdvanceTypes, Moves!Points, Moves!None, Moves!Topics, Moves!Known
<1>11. Moves!HistHolds'
  BY <1>2 DEF Moves!AdvanceHolds, Moves!HistHolds, Moves!EntryOf, Moves!Back
<1>12. Moves!RunHolds'  BY <1>2 DEF Moves!AdvanceHolds, Moves!RunHolds, Moves!Back
<1>13. Moves!CuesHold'
  BY <1>2, <1>7, <1>9 DEF Moves!AdvanceHolds, Moves!CuesHold, Moves!Back, Moves!None
<1> QED  BY <1>10, <1>11, <1>12, <1>13 DEF Moves!AdvanceHolds

LEMMA AdvanceStep == Moves!AdvanceHolds /\ [Moves!Next]_(Moves!vars) => Moves!AdvanceHolds'
<1> SUFFICES ASSUME Moves!AdvanceHolds, [Moves!Next]_(Moves!vars) PROVE Moves!AdvanceHolds'  OBVIOUS
<1>0. Some \in Nat /\ Some > 0  BY BoundsAssumption
<1>1. CASE Moves!Tick
  <2>1. PICK r \in Moves!Topics, a \in Moves!Cues :
          \/ Moves!Decided(r, a) # Moves!None /\ Moves!MoveTo(Moves!Decided(r, a))
          \/ /\ s3' = Moves!Candidate(r) /\ s4' = Moves!Hint(a) /\ s5' = Moves!Hist(r)
             /\ s6' = Moves!Run(Moves!Entry(r)) /\ s8' = Moves!LastOf(Append(s8, Moves!Heard(r)), Some)
             /\ s9' = (IF a.sid > s1 /\ a.conf >= 1 THEN [s9 EXCEPT ![a.sid] = 0] ELSE s9)
             /\ s1' = s1
    BY <1>1 DEF Moves!Tick, Moves!Hinted
  <2>2. CASE Moves!Decided(r, a) # Moves!None /\ Moves!MoveTo(Moves!Decided(r, a))
    <3>1. r.sid \in 0..Some /\ a.sid \in 0..Some
      BY <1>0 DEF Moves!Topics, Moves!Cues, Moves!Nothing, Moves!None, Moves!Points, Moves!Hinted,
         Moves!Certain, Moves!Likely
    <3>2. Moves!Decided(r, a) \in {0, r.sid, a.sid}  BY DEF Moves!Decided, Moves!None
    <3>3. Moves!Decided(r, a) \in 1..Some  BY <3>1, <3>2, <2>2, <1>0 DEF Moves!None
    <3>4. s1' \in 1..Some /\ Moves!Forget  BY <3>3, <2>2 DEF Moves!MoveTo, Moves!Reset
    <3> QED  BY <3>4, AdvanceAnew
  <2> QED  BY <2>1, <2>2, AdvanceHeard
<1>2. CASE Moves!ChairMove
  <2>1. s1' \in 1..Some /\ Moves!Forget  BY <1>2 DEF Moves!ChairMove, Moves!MoveTo, Moves!Reset, Moves!Points
  <2> QED  BY <2>1, AdvanceAnew
<1>3. CASE Moves!Pass  BY <1>3, AdvanceOlder
<1>4. CASE UNCHANGED Moves!vars
  BY <1>4 DEF Moves!vars, Moves!AdvanceHolds, Moves!AdvanceTypes, Moves!HistHolds, Moves!RunHolds,
     Moves!CuesHold, Moves!EntryOf, Moves!Back, Moves!Topics, Moves!Known
<1> QED  BY <1>1, <1>2, <1>3, <1>4 DEF Moves!Next

\* A topic stayed on, counted from the end.
LEMMA StayedBack ==
  ASSUME NEW p \in Seq(Moves!Known), NEW t, NEW n \in Nat, NEW c
  PROVE  Moves!StayedOn(p, t, n, c) <=>
           /\ Len(p) >= n
           /\ \A j \in 0..(n - 1) : Moves!Back(p, j).sid = t /\ Moves!Back(p, j).conf >= c
<1>0. Len(p) \in Nat  OBVIOUS
<1>1. PICK L \in Nat : L = Len(p)  BY <1>0
<1>2. ASSUME L >= n, \A i \in (L - n + 1)..L : p[i].sid = t /\ p[i].conf >= c, NEW j \in 0..(n - 1)
      PROVE  p[L - j].sid = t /\ p[L - j].conf >= c
  <2>1. (L - j) \in (L - n + 1)..L  BY <1>2
  <2> QED  BY <2>1, <1>2
<1>3. ASSUME L >= n, \A j \in 0..(n - 1) : p[L - j].sid = t /\ p[L - j].conf >= c,
             NEW i \in (L - n + 1)..L
      PROVE  p[i].sid = t /\ p[i].conf >= c
  <2>1. (L - i) \in 0..(n - 1) /\ L - (L - i) = i  BY <1>3
  <2> QED  BY <2>1, <1>3
<1> QED  BY <1>1, <1>2, <1>3 DEF Moves!StayedOn, Moves!Back

LEMMA AdvanceDecides == Moves!AdvanceHolds => Moves!MovesAsHeard
<1> SUFFICES ASSUME Moves!AdvanceHolds, NEW r \in Moves!Topics, NEW a \in Moves!Cues
             PROVE  LET talk == Append(s8, Moves!Heard(r))
                        lately == \/ a.sid = r.sid /\ a.conf >= 1
                                  \/ r.sid # 0 /\ s9[r.sid] <= Least
                        silent == r.sid > s1 /\ Moves!StayedOn(talk, r.sid, Some, 2)
                        drifts == Moves!Drifted(Moves!Hist(r), Moves!Run(Moves!Entry(r)), Moves!Hint(a))
                    IN /\ drifts => silent \/ (lately /\ (\/ Moves!StayedOn(talk, r.sid, 2, 4)
                                                          \/ Moves!Often(talk, r.sid)))
                       /\ silent => drifts
                       /\ Moves!Changes(r) => r.conf >= 3 \/ Moves!StayedOn(talk, r.sid, 2, 2)
  BY DEF Moves!MovesAsHeard, Moves!Hinted, Moves!Likely, Moves!Certain, Moves!Sure, Moves!None
<1>0. Some \in Nat /\ Some > 0  BY BoundsAssumption
<1>1. /\ s1 \in 1..Some /\ s3 \in 0..Some /\ s4 \in [sid : 0..Some, age : Nat] /\ s9 \in [1..Some -> Nat]
      /\ s8 \in Seq(Moves!Known) /\ Len(s8) <= Some /\ Len(s8) \in Nat
  BY <1>0 DEF Moves!AdvanceHolds, Moves!AdvanceTypes, Moves!Points, Moves!None
<1>2. /\ Moves!Heard(r) \in Moves!Known /\ Moves!Heard(r).sid = r.sid /\ r.sid \in 0..Some
      /\ r.conf \in Nat /\ (r.conf >= 2 <=> r.sid # 0) /\ (Moves!Heard(r).conf = 4 <=> r.conf = 4)
      /\ IF r.sid > s1 THEN Moves!Entry(r) = r /\ r # Moves!Nothing ELSE Moves!Entry(r) = Moves!Nothing
  BY <1>1, TopicKept
<1>3. PICK talk : talk = Append(s8, Moves!Heard(r))  OBVIOUS
<1>4. /\ talk \in Seq(Moves!Known) /\ Len(talk) = Len(s8) + 1 /\ Moves!Back(talk, 0) = Moves!Heard(r)
      /\ \A j \in 1..Len(s8) : Moves!Back(talk, j) = Moves!Back(s8, j - 1)
  BY <1>1, <1>2, <1>3, BackAppend
<1>5. PICK h : h = Moves!Hist(r)  OBVIOUS
<1>6. /\ h \in Seq(Moves!Topics) /\ Len(h) = (IF Len(talk) < Some THEN Len(talk) ELSE Some)
      /\ Moves!Back(h, 0) = Moves!Entry(r)
      /\ \A j \in 0..(Len(h) - 1) : Moves!Back(h, j) \in Moves!EntryOf(Moves!Back(talk, j))
  BY <1>3, <1>5, HistNext DEF Moves!AdvanceHolds
<1>7. PICK u : u = Moves!Run(Moves!Entry(r))  OBVIOUS
<1>8. /\ u \in [sid : 0..Some, n : Nat]
      /\ u.n <= Len(talk) \/ Len(talk) > Some
      /\ \A j \in 0..(Len(talk) - 1) : j < u.n => Moves!Back(talk, j).sid = u.sid
      /\ r.sid > s1 => /\ u.sid = r.sid /\ u.n >= 1
                       /\ u.n < Len(talk) => Moves!Back(talk, u.n).sid # u.sid
  BY <1>3, <1>7, RunNext DEF Moves!AdvanceHolds
<1>9. PICK cue : cue = Moves!Hint(a)  OBVIOUS
<1>10. Len(talk) \in Nat /\ Len(talk) >= 1 /\ Len(h) \in Nat /\ Len(h) >= 1 /\ Len(h) <= Len(talk)
  BY <1>0, <1>1, <1>4, <1>6
<1>11. h[Len(h)] = Moves!Entry(r)
  <2>1. Len(h) - 0 = Len(h)  BY <1>10
  <2> QED  BY <2>1, <1>6 DEF Moves!Back
<1>12. Moves!Drifted(h, u, cue) <=>
         /\ r.sid > s1
         /\ \/ u.n >= Some
            \/ /\ cue.sid = r.sid /\ cue.age <= Least
               /\ \/ Len(h) >= 2 /\ {h[Len(h)], h[Len(h) - 1]} = {[sid |-> r.sid, conf |-> 4]}
                  \/ Cardinality({i \in 1..Len(h) : h[i].sid = r.sid}) >= Few
  <2>1. CASE r.sid > s1
    <3>1. h[Len(h)] = r /\ r # Moves!Nothing  BY <2>1, <1>2, <1>11
    <3> QED  BY <2>1, <3>1, AdvanceSizes DEF Moves!Drifted, Moves!Certain
  <2>2. CASE ~(r.sid > s1)
    <3>1. h[Len(h)] = Moves!Nothing  BY <2>2, <1>2, <1>11
    <3> QED  BY <2>2, <3>1 DEF Moves!Drifted
  <2> QED  BY <2>1, <2>2
<1>13. \A k \in Moves!Known : k.sid \in 0..Some /\ k.conf \in {0, 2, 4} /\ (k.sid # 0 => k.conf >= 2)
  BY <1>0 DEF Moves!Known, Moves!Nothing, Moves!None, Moves!Faint, Moves!Points, Moves!Likely, Moves!Certain
<1>14. ASSUME NEW j \in 0..(Len(talk) - 1) PROVE Moves!Back(talk, j) \in Moves!Known
  <2>1. (Len(talk) - j) \in 1..Len(talk)  BY <1>10
  <2> QED  BY <2>1, <1>4 DEF Moves!Back
<1>15. ASSUME r.sid > s1
       PROVE  u.n >= Some <=> Moves!StayedOn(talk, r.sid, Some, 2)
  <2>1. ASSUME u.n >= Some PROVE Moves!StayedOn(talk, r.sid, Some, 2)
    <3>1. Len(talk) >= Some  BY <2>1, <1>0, <1>8, <1>10
    <3>2. ASSUME NEW j \in 0..(Some - 1)
          PROVE  Moves!Back(talk, j).sid = r.sid /\ Moves!Back(talk, j).conf >= 2
      <4>0. u.n \in Nat  BY <1>8
      <4>1. j \in 0..(Len(talk) - 1) /\ j < u.n  BY <4>0, <3>1, <2>1, <1>0, <1>10
      <4>2. Moves!Back(talk, j).sid = r.sid  BY <4>1, <1>8, <1>15
      <4>3. r.sid # 0  BY <1>1, <1>15
      <4> QED  BY <4>1, <4>2, <4>3, <1>13, <1>14
    <3> QED  BY <3>1, <3>2, <1>0, <1>4, StayedBack
  <2>2. ASSUME Moves!StayedOn(talk, r.sid, Some, 2), ~(u.n >= Some) PROVE FALSE
    <3>0. Moves!StayedOn(talk, r.sid, Some, 2) <=>
            /\ Len(talk) >= Some
            /\ \A j \in 0..(Some - 1) : Moves!Back(talk, j).sid = r.sid /\ Moves!Back(talk, j).conf >= 2
      BY <1>0, <1>4, StayedBack
    <3>1. Len(talk) >= Some /\ \A j \in 0..(Some - 1) : Moves!Back(talk, j).sid = r.sid
      BY <2>2, <3>0
    <3>2. u.n \in 0..(Some - 1) /\ u.n < Len(talk)
      <4>1. u.n \in Nat  BY <1>8
      <4> QED  BY <4>1, <3>1, <2>2, <1>0, <1>10
    <3> QED  BY <3>1, <3>2, <1>8, <1>15
  <2> QED  BY <2>1, <2>2
<1>16. ASSUME r.sid > s1, cue.sid = r.sid, cue.age <= Least
       PROVE  (a.sid = r.sid /\ a.conf >= 1) \/ (r.sid # 0 /\ s9[r.sid] <= Least)
  <2>1. CASE a.sid > s1 /\ a.conf >= 1
    <3>1. cue = [sid |-> a.sid, age |-> 0]  BY <2>1, <1>9 DEF Moves!Hint, Moves!Hinted
    <3> QED  BY <3>1, <2>1, <1>16
  <2>2. CASE ~(a.sid > s1 /\ a.conf >= 1)
    <3>1. cue = s4  BY <2>2, <1>9 DEF Moves!Hint, Moves!Hinted
    <3>2. r.sid # 0  BY <1>1, <1>16
    <3> QED  BY <3>1, <3>2, <1>16 DEF Moves!AdvanceHolds, Moves!CuesHold, Moves!None
  <2> QED  BY <2>1, <2>2
<1>17. ASSUME r.sid > s1, NEW j \in 0..(Len(h) - 1)
       PROVE  /\ Moves!Back(h, j).sid = r.sid <=> Moves!Back(talk, j).sid = r.sid
              /\ Moves!Back(h, j) = [sid |-> r.sid, conf |-> 4] => Moves!Back(talk, j).conf = 4
  <2>1. Moves!Back(h, j) \in Moves!EntryOf(Moves!Back(talk, j))  BY <1>6
  <2>2. PICK k : k = Moves!Back(talk, j)  OBVIOUS
  <2>3. j \in 0..(Len(talk) - 1)  BY <1>10
  <2>4. k.sid \in 0..Some  BY <2>2, <2>3, <1>13, <1>14
  <2>5. r.sid # 0 /\ r.sid \in Nat  BY <1>0, <1>1, <1>2, <1>17
  <2>6. CASE k.sid > s1
    <3>1. Moves!Back(h, j).sid = k.sid /\ (Moves!Back(h, j).conf = 4 <=> k.conf = 4)
      BY <2>1, <2>2, <2>6 DEF Moves!EntryOf, Moves!Certain
    <3>2. Moves!Back(h, j) = [sid |-> r.sid, conf |-> 4] => Moves!Back(h, j).conf = 4  OBVIOUS
    <3> QED  BY <3>1, <3>2, <2>2
  <2>7. CASE ~(k.sid > s1)
    <3>1. Moves!Back(h, j) = Moves!Nothing  BY <2>1, <2>2, <2>7 DEF Moves!EntryOf
    <3>2. Moves!Back(h, j).sid = 0  BY <3>1 DEF Moves!Nothing, Moves!None
    <3>3. k.sid # r.sid  BY <2>4, <2>7, <1>17
    <3>4. Moves!Back(h, j) # [sid |-> r.sid, conf |-> 4]  BY <3>2, <2>5
    <3> QED  BY <3>2, <3>3, <3>4, <2>2, <2>5
  <2> QED  BY <2>6, <2>7
<1>18. ASSUME r.sid > s1, Len(h) >= 2, {h[Len(h)], h[Len(h) - 1]} = {[sid |-> r.sid, conf |-> 4]}
       PROVE  Moves!StayedOn(talk, r.sid, 2, 4)
  <2>1. h[Len(h)] = [sid |-> r.sid, conf |-> 4] /\ h[Len(h) - 1] = [sid |-> r.sid, conf |-> 4]
    BY <1>18
  <2>2. ASSUME NEW j \in 0..1 PROVE Moves!Back(talk, j).sid = r.sid /\ Moves!Back(talk, j).conf >= 4
    <3>1. j \in 0..(Len(h) - 1)  BY <1>10, <1>18
    <3>2. Moves!Back(h, j) = [sid |-> r.sid, conf |-> 4]
      <4>1. j = 0 \/ j = 1  OBVIOUS
      <4>2. Len(h) - 0 = Len(h)  BY <1>10
      <4> QED  BY <4>1, <4>2, <2>1 DEF Moves!Back
    <3>3. Moves!Back(h, j).sid = r.sid  BY <3>2
    <3>4. Moves!Back(talk, j).sid = r.sid /\ Moves!Back(talk, j).conf = 4  BY <3>1, <3>2, <3>3, <1>17, <1>18
    <3> QED  BY <3>4
  <2>3. Len(talk) >= 2 /\ 2 - 1 = 1  BY <1>10, <1>18
  <2> QED  BY <2>2, <2>3, <1>4, StayedBack
<1>19. ASSUME r.sid > s1, Cardinality({i \in 1..Len(h) : h[i].sid = r.sid}) >= Few
       PROVE  Moves!Often(talk, r.sid)
  <2>1. PICK w : w = Moves!LastOf(talk, Some)  OBVIOUS
  <2>2. /\ Len(w) = (IF Len(talk) < Some THEN Len(talk) ELSE Some)
        /\ \A j \in 0..(Len(w) - 1) : Moves!Back(w, j) = Moves!Back(talk, j)
    BY <2>1, <1>0, <1>4, BackLast
  <2>3. Len(w) = Len(h)  BY <2>2, <1>6
  <2>4. ASSUME NEW i \in 1..Len(h) PROVE h[i].sid = r.sid <=> w[i].sid = r.sid
    <3>1. (Len(h) - i) \in 0..(Len(h) - 1) /\ Len(h) - (Len(h) - i) = i  BY <1>10
    <3>2. Moves!Back(h, Len(h) - i) = h[i] /\ Moves!Back(w, Len(h) - i) = w[i]
      BY <3>1, <2>3 DEF Moves!Back
    <3> QED  BY <3>1, <3>2, <2>2, <2>3, <1>17, <1>19
  <2>5. {i \in 1..Len(w) : w[i].sid = r.sid} = {i \in 1..Len(h) : h[i].sid = r.sid}  BY <2>3, <2>4
  <2> QED  BY <2>1, <2>5, <1>19, AdvanceSizes DEF Moves!Often
<1>20. ASSUME Moves!Changes(r) PROVE r.conf >= 3 \/ Moves!StayedOn(talk, r.sid, 2, 2)
  <2>1. r.sid # 0 /\ (r.conf >= 3 \/ s3 = r.sid)  BY <1>20 DEF Moves!Changes, Moves!None, Moves!Sure
  <2>2. ASSUME s3 = r.sid PROVE Moves!StayedOn(talk, r.sid, 2, 2)
    <3>1. s8 # <<>> /\ Moves!Back(s8, 0).sid = r.sid
      BY <2>1, <2>2 DEF Moves!AdvanceHolds, Moves!CuesHold, Moves!None
    <3>2. Len(s8) >= 1 /\ 1 \in 1..Len(s8) /\ 1 - 1 = 0 /\ Len(talk) >= 2  BY <3>1, <1>1, <1>4
    <3>3. Moves!Back(talk, 1).sid = r.sid  BY <3>1, <3>2, <1>4
    <3>4. Moves!Back(talk, 0).sid = r.sid  BY <1>2, <1>4
    <3>5. ASSUME NEW j \in 0..1 PROVE Moves!Back(talk, j).sid = r.sid /\ Moves!Back(talk, j).conf >= 2
      <4>1. j = 0 \/ j = 1  OBVIOUS
      <4>2. j \in 0..(Len(talk) - 1)  BY <3>2, <1>10
      <4>3. Moves!Back(talk, j).sid = r.sid  BY <4>1, <3>3, <3>4
      <4> QED  BY <4>2, <4>3, <2>1, <1>13, <1>14
    <3>6. 2 - 1 = 1  OBVIOUS
    <3> QED  BY <3>2, <3>5, <3>6, <1>4, StayedBack
  <2> QED  BY <2>1, <2>2
<1>21. Moves!Drifted(h, u, cue) =>
         \/ r.sid > s1 /\ Moves!StayedOn(talk, r.sid, Some, 2)
         \/ /\ (a.sid = r.sid /\ a.conf >= 1) \/ (r.sid # 0 /\ s9[r.sid] <= Least)
            /\ Moves!StayedOn(talk, r.sid, 2, 4) \/ Moves!Often(talk, r.sid)
  BY <1>12, <1>15, <1>16, <1>18, <1>19
<1>22. r.sid > s1 /\ Moves!StayedOn(talk, r.sid, Some, 2) => Moves!Drifted(h, u, cue)
  BY <1>12, <1>15
<1> QED  BY <1>3, <1>5, <1>7, <1>9, <1>20, <1>21, <1>22

(* What the speech service is sent gets the slots in turn and no retry is   *)
(* taken for a replay; the gateway refuses a call in the time after too     *)
(* many failures and only then; and the AI moves on when the last ticks say *)
(* so: an accepted request is at one place of its gate, which has no free   *)
(* slot while one waits; the breaker has the failures that were recent when *)
(* the last came; and later_hist and later_run are those of the last ticks. *)
THEOREM ModelsServeHolds == ServicesSpec => []ModelsServe
<1> DEFINE Inv == /\ part = "service" => Service!ServiceHolds
                  /\ part = "model" => Model!BreakerHolds
                  /\ part = "advance" => Moves!AdvanceHolds
<1>1. ServicesInit => Inv  BY ServiceInit, BreakerInit, AdvanceInit DEF ServicesInit
<1>2. Inv /\ [ServicesNext]_all => Inv'  BY ServiceStep, BreakerStep, AdvanceStep, StepOfPart
<1>3. Inv => ModelsServe  BY ServiceServes, BreakerRefuses, AdvanceDecides DEF ModelsServe
<1> QED  BY <1>1, <1>2, <1>3, PTL DEF ServicesSpec

-----------------------------------------------------------------------------
(* Decisions. *)
(***************************************************************************)
(* For every number of decisions and voters, every choice of majority      *)
(* rules and whatever votes are named: the model adopts only what it heard *)
(* agreed, a vote has the result of its count under the rules of now, a    *)
(* person's count stands, and an impossible count decides nothing.         *)
(*                                                                         *)
(* None of this is about two decisions, so the invariant is one of each    *)
(* decision and its vote (Entry).  It adds what the four properties need:  *)
(* what a person counted or confirmed is locked, which keeps the model and *)
(* its recounts away from it; and nobody has taken what is to be taken.    *)
(***************************************************************************)
Follows(v, r) ==
  v.tally # NoCount =>
    \/ v.result = Result(r, v.tally)
    \/ v.by # "person" /\ Exceeds(v.tally, v.present)

Typed(dec, v) ==
  /\ dec \in DecisionType /\ v \in VoteType \cup {NoVote}
  /\ dec.status = "absent" => dec = Absent /\ v = NoVote

Locks(dec, v) == (v.by = "person" \/ v.confirmed) => dec.locked

Taken(dec) ==
  /\ dec.status = "adopted" /\ dec.by \in {"ai", "count"} => dec.agreed
  /\ dec.status = "pending" => dec.by \in {"none", "person"}

Entry(dec, v, r) == Typed(dec, v) /\ Follows(v, r) /\ Locks(dec, v) /\ Taken(dec)

IInv ==
  /\ \A d \in Refs : Entry(decision[d], vote[d], rule)
  /\ decision \in [Refs -> DecisionType]
  /\ vote \in [Refs -> VoteType \cup {NoVote}]
  /\ rule \in Rules /\ formal \in BOOLEAN /\ present \in Turnouts

-----------------------------------------------------------------------------
(* Votes. *)

LEMMA NoVoteIsNone ==
  ASSUME NEW v \in VoteType \cup {NoVote}
  PROVE  /\ v.method \in Methods \cup {"none"} /\ (v.method = "none" => v = NoVote)
         /\ v.tally \in Tallies /\ v.rows \in BOOLEAN /\ v.confirmed \in BOOLEAN
         /\ v.by \in {"none", "ai", "person", "assent"} /\ v.result \in Final \cup {"none"}
<1>1. CASE v = NoVote
  BY <1>1 DEF NoVote, Tallies
<1>2. CASE v \in VoteType
  BY <1>2 DEF VoteType, Methods
<1> QED
  BY <1>1, <1>2

LEMMA ResultType ==
  ASSUME NEW t, NEW r
  PROVE  Result(r, t) \in Final \cup {"none"} /\ (t # NoCount => Result(r, t) # "none")
  BY DEF Result, Final

(* A rule carries what a stricter one carries (compute_result): a unanimous *)
(* vote has every majority, and a two-thirds majority is an ordinary one.   *)
THEOREM StricterRulesAgree ==
  ASSUME NEW t \in Counts
  PROVE  /\ Result("unanimous", t) = "adopted" => Result("four_fifths", t) = "adopted"
         /\ Result("four_fifths", t) = "adopted" => Result("two_thirds", t) = "adopted"
         /\ Result("two_thirds", t) = "adopted" => Result("ordinary", t) = "adopted"
<1> USE DEF Result, Carried
<1>1. t # NoCount
  BY DEF Counts, NoCount
<1>2. t.for \in Nat /\ t.against \in Nat
  BY DEF Counts
<1>3. Result("unanimous", t) = "adopted" => Result("four_fifths", t) = "adopted"
  BY <1>1, <1>2
<1>4. Result("four_fifths", t) = "adopted" => Result("two_thirds", t) = "adopted"
  BY <1>1, <1>2
<1>5. Result("two_thirds", t) = "adopted" => Result("ordinary", t) = "adopted"
  BY <1>1, <1>2
<1> QED
  BY <1>3, <1>4, <1>5

LEMMA CountedType ==
  ASSUME NEW v, NEW data \in DataType, present \in Turnouts
  PROVE  Counted(v, data) \in Tallies
<1>1. [Zero EXCEPT !.for = present] \in Counts
  BY DecisionsAssumption DEF Zero, Counts
<1> QED
  BY <1>1 DEF Counted, Tallies, DataType

LEMMA ResultOfType ==
  ASSUME NEW dec \in DecisionType, NEW v, NEW count, NEW who, NEW r
  PROVE  ResultOf(dec, v, count, who, r) \in Final \cup {"none"}
  BY ResultType DEF ResultOf

(* What apply_vote returns is a vote, which follows the rule it is given    *)
(* when the model is kept away from what is locked.                         *)
LEMMA ApplyVoteType ==
  ASSUME NEW dec \in DecisionType, NEW v \in VoteType \cup {NoVote}, NEW data \in DataType,
         NEW who \in {"ai", "person", "rules"}, NEW r, present \in Turnouts
  PROVE  ApplyVote(dec, v, data, who, r) \in VoteType
<1> DEFINE count == Counted(v, data)
<1>1. count \in Tallies
  BY CountedType
<1>2. ResultOf(dec, v, count, who, r) \in Final \cup {"none"}
  BY ResultOfType
<1>3. Method(v, data) \in Methods
  BY NoVoteIsNone DEF Method, DataType, Methods
<1>4. (IF count = NoCount THEN v.tally ELSE count) \in Tallies
  BY <1>1, NoVoteIsNone
<1>5. (data.ballots = "read" \/ (v.rows /\ data.ballots = "none") \/ Assented(v, data)) \in BOOLEAN
  OBVIOUS
<1>6. (IF count = NoCount THEN v.by ELSE IF who = "rules" THEN "assent" ELSE who)
        \in {"none", "ai", "person", "assent"}
  BY NoVoteIsNone
<1>7. v.confirmed \in BOOLEAN
  BY NoVoteIsNone
<1> QED
  BY <1>2, <1>3, <1>4, <1>5, <1>6, <1>7 DEF ApplyVote, VoteType

LEMMA ApplyVoteFollows ==
  ASSUME NEW dec, NEW v \in VoteType \cup {NoVote}, NEW data,
         NEW who, NEW r, Locks(dec, v), who = "ai" => ~dec.locked
  PROVE  Follows(ApplyVote(dec, v, data, who, r), r)
<1> DEFINE count == Counted(v, data)
           tally == IF count = NoCount THEN v.tally ELSE count
           v2 == ApplyVote(dec, v, data, who, r)
           impossible == ModelCount(dec, v, count, who) /\ Exceeds(tally, present)
<1>1. /\ v2.tally = tally /\ v2.present = present
      /\ v2.result = ResultOf(dec, v, count, who, r)
      /\ v2.by = IF count = NoCount THEN v.by ELSE IF who = "rules" THEN "assent" ELSE who
  BY DEF ApplyVote
<1> SUFFICES ASSUME tally # NoCount
             PROVE  v2.result = Result(r, tally) \/ (v2.by # "person" /\ Exceeds(tally, present))
  BY <1>1 DEF Follows
<1>2. CASE ~impossible
  <2>1. ResultOf(dec, v, count, who, r) = Result(r, tally)
    BY <1>2, ResultType DEF ResultOf
  <2> QED  BY <1>1, <2>1
<1>3. CASE impossible
  <2>1. v2.by # "person"
    BY <1>1, <1>3 DEF ModelCount, Locks
  <2> QED  BY <1>3, <2>1
<1> QED
  BY <1>2, <1>3

-----------------------------------------------------------------------------
(* Operations on a decision. *)

Speakers == {"ai", "person"}
StatusWords == Statuses \cup {"none"}

(* The operations of the model and of a person, as _decision_fields gets    *)
(* them: the model is kept away from what is locked.                        *)
Sound(dec, v, who, st, data, heard) ==
  /\ Entry(dec, v, rule) /\ dec.status # "absent"
  /\ who \in Speakers /\ st \in StatusWords /\ data \in VoteData \cup {Unvoted}
  /\ heard \in BOOLEAN
  /\ who = "ai" => ~dec.locked /\ st # "pending"

LEMMA RequestType ==
  ASSUME NEW data \in VoteData \cup {Unvoted}, Voted(data)
  PROVE  data \in DataType
  BY DecisionsAssumption DEF Voted, Unvoted, Says

LEMMA AssentType == Says("assent") \in DataType /\ Says("none") \in DataType
  BY DEF Says, DataType, Methods, Tallies

LEMMA StatedType ==
  ASSUME NEW dec \in DecisionType, NEW who, NEW st \in StatusWords, NEW data, NEW heard
  PROVE  Stated(dec, who, st, data, heard) \in StatusWords
  BY DEF Stated, StatusWords, Statuses

LEMMA WithStatusType ==
  ASSUME NEW dec \in DecisionType, NEW st \in StatusWords
  PROVE  /\ WithStatus(dec, st) \in DecisionType
         /\ WithStatus(dec, st).locked = dec.locked
         /\ WithStatus(dec, st).status = IF st = "none" THEN dec.status ELSE st
  BY DEF WithStatus, DecisionType, StatusWords

(* The vote after an operation is a vote or none, follows the rule and is   *)
(* locked if a person made it.                                              *)
LEMMA VoteAfterEntry ==
  ASSUME NEW dec, NEW v, NEW who, NEW st, NEW data, NEW heard,
         Sound(dec, v, who, st, data, heard), present \in Turnouts
  PROVE  LET v2 == VoteAfter(dec, v, who, st, data, heard)
         IN /\ v2 \in VoteType \cup {NoVote}
            /\ Follows(v2, rule)
            /\ (v2.by = "person" \/ v2.confirmed) => dec.locked \/ who = "person"
<1> DEFINE stated == WithStatus(dec, Stated(dec, who, st, data, heard))
           v2 == VoteAfter(dec, v, who, st, data, heard)
<1>1. /\ dec \in DecisionType /\ v \in VoteType \cup {NoVote} /\ Locks(dec, v) /\ Follows(v, rule)
      /\ who \in Speakers /\ st \in StatusWords /\ data \in VoteData \cup {Unvoted}
      /\ who = "ai" => ~dec.locked
  BY DEF Sound, Entry, Typed
<1>2. stated \in DecisionType /\ stated.locked = dec.locked /\ Locks(stated, v)
  BY <1>1, StatedType, WithStatusType DEF Locks
<1>3. ASSUME NEW request \in DataType, NEW confirmed \in BOOLEAN, confirmed => who = "person",
             v2 = [ApplyVote(stated, v, request, who, rule) EXCEPT !.confirmed = confirmed]
      PROVE  /\ v2 \in VoteType
             /\ Follows(v2, rule)
             /\ (v2.by = "person" \/ v2.confirmed) => dec.locked \/ who = "person"
  <2> DEFINE a == ApplyVote(stated, v, request, who, rule)
  <2>1. a \in VoteType
    BY <1>1, <1>2, ApplyVoteType DEF Speakers
  <2>2. Follows(a, rule)
    BY <1>1, <1>2, ApplyVoteFollows
  <2>3. a.by = "person" => dec.locked \/ who = "person"
    BY <1>1 DEF ApplyVote, Locks
  <2> HIDE DEF a
  <2>4. /\ v2 \in VoteType /\ v2.confirmed = confirmed /\ v2.by = a.by
        /\ v2.tally = a.tally /\ v2.result = a.result /\ v2.present = a.present
    BY <1>3, <2>1 DEF VoteType, a
  <2> QED
    BY <1>3, <2>2, <2>3, <2>4 DEF Follows
<1>4. CASE Voted(data) /\ ~Unheard(dec, who, st, data, heard)
  <2>1. v2 = [ApplyVote(stated, v, data, who, rule) EXCEPT !.confirmed = (who = "person")]
    BY <1>4 DEF VoteAfter
  <2> QED
    BY <1>1, <1>3, <1>4, <2>1, RequestType
<1>5. CASE v2 = [ApplyVote(stated, v, Says("assent"), who, rule) EXCEPT !.confirmed = FALSE]
  BY <1>3, <1>5, AssentType
<1>6. CASE v2 = v
  BY <1>1, <1>6 DEF Locks
<1> QED
  BY <1>4, <1>5, <1>6 DEF VoteAfter

(* The status after an operation: the one it states, or that of the vote.   *)
LEMMA DecisionAfterStatus ==
  ASSUME NEW dec, NEW v, NEW who, NEW st, NEW data, NEW heard,
         Sound(dec, v, who, st, data, heard), present \in Turnouts
  PROVE  LET v2 == VoteAfter(dec, v, who, st, data, heard)
             dec2 == DecisionAfter(dec, v2, who, st, data, heard)
             counts == Decides(dec, v2, who, st, data, heard)
         IN /\ dec2.status \in Statuses
            /\ dec2.status = IF counts THEN v2.result
                             ELSE WithStatus(dec, Stated(dec, who, st, data, heard)).status
            /\ dec2.by = IF dec2.status = dec.status THEN dec.by
                         ELSE IF counts /\ who = "ai" THEN "count" ELSE who
            /\ dec2.locked = (dec.locked \/ who = "person")
            /\ dec2.agreed = (dec.agreed \/ (who = "ai" /\ heard))
            /\ dec2 \in DecisionType
<1> DEFINE v2 == VoteAfter(dec, v, who, st, data, heard)
           counts == Decides(dec, v2, who, st, data, heard)
           stated == WithStatus(dec, Stated(dec, who, st, data, heard))
           dec2 == DecisionAfter(dec, v2, who, st, data, heard)
           status == IF counts THEN v2.result ELSE stated.status
<1>1. /\ dec \in DecisionType /\ dec.status # "absent"
      /\ who \in Speakers /\ st \in StatusWords /\ heard \in BOOLEAN
  BY DEF Sound, Entry, Typed
<1>2. dec.status \in Statuses
  BY <1>1 DEF DecisionType
<1>3. stated.status \in Statuses
  BY <1>1, <1>2, StatedType, WithStatusType DEF StatusWords
<1>4. counts => v2.result \in Final
  BY VoteAfterEntry, NoVoteIsNone DEF Decides
<1>5. status \in Statuses
  BY <1>3, <1>4 DEF Final, Statuses
<1> HIDE DEF counts, stated
<1>6. dec2 = [status |-> status, locked |-> dec.locked \/ who = "person",
              by |-> IF status = dec.status THEN dec.by ELSE IF counts /\ who = "ai" THEN "count" ELSE who,
              agreed |-> dec.agreed \/ (who = "ai" /\ heard)]
  BY DEF DecisionAfter, counts, stated
<1>7. (IF status = dec.status THEN dec.by ELSE IF counts /\ who = "ai" THEN "count" ELSE who)
        \in {"none", "ai", "count", "person", "rules"}
  BY <1>1 DEF DecisionType, Speakers
<1>8. (dec.locked \/ who = "person") \in BOOLEAN /\ (dec.agreed \/ (who = "ai" /\ heard)) \in BOOLEAN
  OBVIOUS
<1> HIDE DEF status, dec2
<1>9. dec2 \in DecisionType
  BY <1>5, <1>6, <1>7, <1>8 DEF DecisionType
<1> QED
  BY <1>5, <1>6, <1>9 DEF status, dec2, counts, stated

(* What the model adopts it has heard: stated, or by its count.             *)
LEMMA HeardWhenAdopted ==
  ASSUME NEW dec, NEW v, NEW st, NEW data, NEW heard,
         Sound(dec, v, "ai", st, data, heard), present \in Turnouts,
         LET v2 == VoteAfter(dec, v, "ai", st, data, heard)
         IN DecisionAfter(dec, v2, "ai", st, data, heard).status = "adopted",
         dec.status # "adopted"
  PROVE  heard
<1> DEFINE v2 == VoteAfter(dec, v, "ai", st, data, heard)
<1> SUFFICES ASSUME ~heard PROVE FALSE
  OBVIOUS
<1>0. dec \in DecisionType /\ st \in StatusWords
  BY DEF Sound, Entry, Typed
<1>1. CASE Decides(dec, v2, "ai", st, data, heard)
  BY <1>1 DEF Decides, Unheard
<1>2. CASE ~Decides(dec, v2, "ai", st, data, heard)
  <2>1. WithStatus(dec, Stated(dec, "ai", st, data, heard)).status = "adopted"
    BY <1>2, DecisionAfterStatus
  <2>2. Stated(dec, "ai", st, data, heard) = "adopted"
    BY <1>0, <2>1, StatedType, WithStatusType
  <2> QED
    BY <2>2 DEF Stated, Unheard
<1> QED
  BY <1>1, <1>2

LEMMA FieldsEntry ==
  ASSUME NEW dec, NEW v, NEW who, NEW st, NEW data, NEW heard,
         Sound(dec, v, who, st, data, heard), present \in Turnouts
  PROVE  LET v2 == VoteAfter(dec, v, who, st, data, heard)
         IN Entry(DecisionAfter(dec, v2, who, st, data, heard), v2, rule)
<1> DEFINE v2 == VoteAfter(dec, v, who, st, data, heard)
           dec2 == DecisionAfter(dec, v2, who, st, data, heard)
<1>1. /\ v2 \in VoteType \cup {NoVote} /\ Follows(v2, rule)
      /\ (v2.by = "person" \/ v2.confirmed) => dec.locked \/ who = "person"
  BY VoteAfterEntry
<1>2. /\ dec2 \in DecisionType /\ dec2.status \in Statuses
      /\ dec2.locked = (dec.locked \/ who = "person")
      /\ dec2.agreed = (dec.agreed \/ (who = "ai" /\ heard))
      /\ dec2.status = dec.status => dec2.by = dec.by
      /\ dec2.status # dec.status => dec2.by \in {"count", who}
      /\ dec2.by = "count" /\ dec2.status # dec.status => who = "ai"
  BY DecisionAfterStatus DEF Sound, Speakers
<1>3. Taken(dec) /\ who \in Speakers /\ (who = "ai" => st # "pending") /\ dec \in DecisionType
      /\ st \in StatusWords
  BY DEF Sound, Entry, Typed
<1>4. ASSUME dec2.status = "adopted", dec2.by \in {"ai", "count"} PROVE dec2.agreed
  <2>1. CASE dec2.status = dec.status
    BY <1>2, <1>3, <1>4, <2>1 DEF Taken
  <2>2. CASE dec2.status # dec.status
    <3>1. who = "ai"
      BY <1>2, <1>3, <1>4, <2>2 DEF Speakers
    <3>2. Sound(dec, v, "ai", st, data, heard)
          /\ DecisionAfter(dec, VoteAfter(dec, v, "ai", st, data, heard), "ai", st, data, heard).status = "adopted"
      BY <1>4, <3>1
    <3>3. dec.status # "adopted"
      BY <1>4, <2>2
    <3>4. heard
      BY <3>2, <3>3, HeardWhenAdopted
    <3> QED
      BY <1>2, <3>1, <3>4
  <2> QED
    BY <2>1, <2>2
<1>5. ASSUME dec2.status = "pending" PROVE dec2.by \in {"none", "person"}
  <2>1. CASE dec2.status = dec.status
    BY <1>2, <1>3, <1>5, <2>1 DEF Taken
  <2>2. CASE dec2.status # dec.status /\ who = "ai"
    <3>1. ~Decides(dec, v2, who, st, data, heard)
      BY <1>1, <1>5, DecisionAfterStatus, NoVoteIsNone DEF Decides, Final
    <3>2. WithStatus(dec, Stated(dec, who, st, data, heard)).status = "pending"
      BY <1>5, <3>1, DecisionAfterStatus
    <3>3. Stated(dec, who, st, data, heard) = "pending"
      BY <1>3, <1>5, <2>2, <3>2, StatedType, WithStatusType
    <3> QED
      BY <1>3, <2>2, <3>3 DEF Stated
  <2>3. CASE dec2.status # dec.status /\ who = "person"
    BY <1>2, <2>3
  <2> QED
    BY <1>3, <2>1, <2>2, <2>3 DEF Speakers
<1>6. dec2.status # "absent"
  BY <1>2 DEF Statuses
<1> QED
  BY <1>1, <1>2, <1>4, <1>5, <1>6 DEF Entry, Typed, Locks, Taken

(* A person's count is out of the model's reach, and no operation decides   *)
(* on an impossible count of the model.                                     *)
LEMMA FieldsKeep ==
  ASSUME NEW dec, NEW v, NEW who, NEW st, NEW data, NEW heard,
         Sound(dec, v, who, st, data, heard), v.by = "person"
  PROVE  VoteAfter(dec, v, who, st, data, heard).by = "person"
<1>1. who = "person" /\ v \in VoteType \cup {NoVote}
  BY DEF Sound, Entry, Locks, Typed, Speakers
<1> DEFINE stated == WithStatus(dec, Stated(dec, who, st, data, heard))
           a == ApplyVote(stated, v, data, who, rule)
<1>2. CASE VoteAfter(dec, v, who, st, data, heard) = [a EXCEPT !.confirmed = (who = "person")]
  <2>1. a.by = "person"
    BY <1>1 DEF ApplyVote
  <2>2. [a EXCEPT !.confirmed = (who = "person")].by = a.by
    BY DEF ApplyVote
  <2> QED
    BY <1>2, <2>1, <2>2
<1>3. CASE VoteAfter(dec, v, who, st, data, heard) = v
  BY <1>3
<1> QED
  BY <1>1, <1>2, <1>3 DEF VoteAfter

LEMMA FieldsDecideNothing ==
  ASSUME NEW dec, NEW v, NEW who, NEW st, NEW data, NEW heard,
         Sound(dec, v, who, st, data, heard), present \in Turnouts
  PROVE  LET v2 == VoteAfter(dec, v, who, st, data, heard)
             dec2 == DecisionAfter(dec, v2, who, st, data, heard)
         IN ~ /\ dec2.status # dec.status /\ dec2.by \in {"count", "rules"}
              /\ Exceeds(v2.tally, v2.present)
<1> DEFINE v2 == VoteAfter(dec, v, who, st, data, heard)
           dec2 == DecisionAfter(dec, v2, who, st, data, heard)
           count == Counted(v, data)
           tally == IF count = NoCount THEN v.tally ELSE count
           a == ApplyVote(dec, v, data, who, rule)
<1> SUFFICES ASSUME dec2.status # dec.status, dec2.by \in {"count", "rules"},
                    Exceeds(v2.tally, v2.present)
             PROVE  FALSE
  OBVIOUS
<1>1. who \in Speakers
  BY DEF Sound
<1>2. who = "ai" /\ Decides(dec, v2, who, st, data, heard) /\ dec2.status = v2.result
  BY <1>1, DecisionAfterStatus DEF Speakers
<1>3. st = "none" /\ v2.result # "none" /\ Voted(data) /\ ~Unheard(dec, who, st, data, heard)
  BY <1>2 DEF Decides
<1>4. WithStatus(dec, Stated(dec, who, st, data, heard)) = dec
  BY <1>3 DEF Stated, WithStatus
<1>5. v2 = [a EXCEPT !.confirmed = (who = "person")]
  BY <1>3, <1>4 DEF VoteAfter
<1>6. v2.tally = tally /\ v2.present = present /\ v2.result = ResultOf(dec, v, count, who, rule)
  BY <1>5 DEF ApplyVote
<1>7. ModelCount(dec, v, count, who) /\ Exceeds(tally, present)
  BY <1>2, <1>6 DEF ModelCount
<1>8. v2.result \in {"none", dec.status}
  BY <1>6, <1>7 DEF ResultOf
<1> QED
  BY <1>2, <1>3, <1>8

-----------------------------------------------------------------------------
(* Corrections and new rules. *)

LEMMA CorrectedEntry ==
  ASSUME IInv, NEW d \in Refs, Exists(d), NEW data \in VoteData,
         NEW says \in {"unsaid", "yes", "no"}, NEW emptied \in BOOLEAN
  PROVE  LET v2 == Corrected(d, data, says, emptied)
         IN /\ Entry(CorrectedDecision(decision[d], v2, says), v2, rule)
            /\ vote[d].by = "person" => v2.by = "person"
            /\ LET dec2 == CorrectedDecision(decision[d], v2, says)
               IN dec2.status # decision[d].status => dec2.by = "person"
<1> DEFINE dec == decision[d]
           v == vote[d]
           a == ApplyVote(dec, v, data, "person", rule)
           v2 == Corrected(d, data, says, emptied)
           dec2 == CorrectedDecision(dec, v2, says)
<1>1. /\ dec \in DecisionType /\ v \in VoteType \cup {NoVote} /\ Locks(dec, v) /\ Taken(dec)
      /\ dec.status # "absent"
  BY DEF IInv, Entry, Typed, Exists
<1>2. a \in VoteType
  BY <1>1, ApplyVoteType, DecisionsAssumption DEF IInv
<1>3. Follows(a, rule)
  BY <1>1, ApplyVoteFollows
<1>4. v.by = "person" => a.by = "person"
  BY DEF ApplyVote
<1>5. v2 = [a EXCEPT !.rows = @ /\ ~emptied, !.confirmed = (says = "yes" \/ (says = "unsaid" /\ @))]
  BY DEF Corrected
<1> HIDE DEF a
<1>6. /\ v2 \in VoteType /\ v2.by = a.by
      /\ v2.tally = a.tally /\ v2.result = a.result /\ v2.present = a.present
  BY <1>2, <1>5 DEF VoteType
<1>7. Follows(v2, rule)
  BY <1>3, <1>6 DEF Follows
<1> HIDE DEF v2
<1>8. \/ dec2 = [dec EXCEPT !.locked = TRUE]
      \/ /\ v2.result \in Final
         /\ dec2 = [[dec EXCEPT !.locked = TRUE] EXCEPT !.status = v2.result, !.by = "person"]
  BY <1>6 DEF CorrectedDecision, VoteType
<1>9. /\ dec2 \in DecisionType /\ dec2.locked /\ dec2.status # "absent" /\ Taken(dec2)
      /\ dec2.status # dec.status => dec2.by = "person"
  <2>1. CASE dec2 = [dec EXCEPT !.locked = TRUE]
    BY <1>1, <2>1 DEF DecisionType, Taken
  <2>2. CASE /\ v2.result \in Final
             /\ dec2 = [[dec EXCEPT !.locked = TRUE] EXCEPT !.status = v2.result, !.by = "person"]
    BY <1>1, <2>2 DEF DecisionType, Taken, Final, Statuses
  <2> QED
    BY <1>8, <2>1, <2>2
<1> QED
  BY <1>4, <1>6, <1>7, <1>9 DEF Entry, Typed, Locks, v2

LEMMA UnderRulesEntry ==
  ASSUME IInv, PutRules, NEW d \in Refs
  PROVE  /\ Entry(decision'[d], vote'[d], rule')
         /\ vote[d].by = "person" /\ vote'[d].by # "person" => vote[d].method = "assent" /\ ~vote[d].rows
         /\ /\ decision'[d].status # decision[d].status
            /\ vote'[d].by = "ai" /\ Exceeds(vote'[d].tally, vote'[d].present)
            => decision[d].locked
<1> DEFINE dec == decision[d]
           v == vote[d]
           data == Says("none")
           count == Counted(v, data)
           tally == IF count = NoCount THEN v.tally ELSE count
           a == ApplyVote(dec, v, data, "rules", rule')
           Ruled(e) == [decision[e] EXCEPT !.status = vote'[e].result, !.by = "rules"]
           Changes(e) == decision[e].status \in Final /\ vote'[e].result \in Final \ {decision[e].status}
<1>0. decision' = [e \in Refs |-> IF Changes(e) THEN Ruled(e) ELSE decision[e]]
  BY DEF PutRules
<1>1. /\ dec \in DecisionType /\ v \in VoteType \cup {NoVote} /\ Locks(dec, v) /\ Taken(dec)
      /\ Typed(dec, v) /\ Follows(v, rule) /\ present \in Turnouts
  BY DEF IInv, Entry, Typed
<1>2. CASE v = NoVote
  <2>1. vote'[d] = NoVote
    BY <1>2 DEF PutRules, VoteUnder
  <2>2. decision'[d] = dec
    <3> HIDE DEF Ruled
    <3> QED
      BY <1>0, <2>1 DEF NoVote, Final
  <2> QED
    BY <1>1, <1>2, <2>1, <2>2 DEF Entry, Follows, NoVote
<1>3. CASE v # NoVote
  <2>1. vote'[d] = a
    BY <1>3 DEF PutRules, VoteUnder
  <2>2. a \in VoteType
    BY <1>1, AssentType, ApplyVoteType
  <2>3. Follows(a, rule')
    BY <1>1, ApplyVoteFollows
  <2>4. /\ a.tally = tally /\ a.present = present /\ a.confirmed = v.confirmed
        /\ a.by = IF count = NoCount THEN v.by ELSE "assent"
        /\ a.result = ResultOf(dec, v, count, "rules", rule')
    BY DEF ApplyVote
  <2>5. v.by = "person" /\ a.by # "person" => v.method = "assent" /\ ~v.rows
    <3>1. count # NoCount => Assented(v, data)
      BY DEF Counted, Says
    <3>2. Assented(v, data) => v.method \in {"none", "assent"} /\ ~v.rows
      BY DEF Assented, Method, Says
    <3> QED
      BY <1>1, <1>3, <2>4, <3>1, <3>2, NoVoteIsNone
  <2>6. /\ decision' \in [Refs -> DecisionType]
        /\ \/ decision'[d] = dec
           \/ /\ dec.status \in Final /\ a.result \in Final \ {dec.status}
              /\ decision'[d] = [dec EXCEPT !.status = a.result, !.by = "rules"]
    <3>1. ASSUME NEW e \in Refs, Changes(e) PROVE Ruled(e) \in DecisionType
      <4>1. decision[e] \in DecisionType
        BY DEF IInv
      <4> QED
        BY <3>1, <4>1 DEF DecisionType, Final, Statuses
    <3>2. \A e \in Refs : decision[e] \in DecisionType
      BY DEF IInv
    <3>3. Ruled(d) = [dec EXCEPT !.status = vote'[d].result, !.by = "rules"]
      OBVIOUS
    <3> HIDE DEF Ruled
    <3>4. decision' \in [Refs -> DecisionType]
      BY <1>0, <3>1, <3>2
    <3>5. CASE Changes(d)
      BY <1>0, <2>1, <3>3, <3>4, <3>5
    <3>6. CASE ~Changes(d)
      BY <1>0, <3>4, <3>6
    <3> QED
      BY <3>5, <3>6
  <2>7. ASSUME decision'[d] # dec, a.by = "ai", Exceeds(a.tally, a.present), ~dec.locked
        PROVE  FALSE
    <3>1. count = NoCount /\ ~v.confirmed
      BY <1>1, <2>4, <2>7 DEF Locks
    <3>2. ModelCount(dec, v, count, "rules") /\ Exceeds(tally, present)
      BY <2>4, <2>7, <3>1 DEF ModelCount
    <3>3. a.result \in {"none", dec.status}
      BY <2>4, <3>2 DEF ResultOf
    <3> QED
      BY <2>6, <2>7, <3>3 DEF Final
  <2> HIDE DEF a
  <2>8. /\ decision'[d] \in DecisionType /\ decision'[d].locked = dec.locked
        /\ Taken(decision'[d]) /\ decision'[d].status # "absent"
    <3>1. CASE decision'[d] = dec
      BY <1>1, <1>3, <3>1 DEF Typed
    <3>2. CASE /\ a.result \in Final \ {dec.status}
               /\ decision'[d] = [dec EXCEPT !.status = a.result, !.by = "rules"]
      BY <1>1, <3>2, <2>6 DEF DecisionType, Taken, Final
    <3> QED
      BY <2>6, <3>1, <3>2
  <2>9. Locks(decision'[d], a)
    BY <1>1, <2>4, <2>8 DEF Locks
  <2> QED
    BY <2>1, <2>2, <2>3, <2>5, <2>7, <2>8, <2>9 DEF Entry, Typed
<1> QED
  BY <1>2, <1>3

-----------------------------------------------------------------------------
(* The invariant. *)

LEMMA AbsentEntry ==
  ASSUME NEW r
  PROVE  /\ Entry(Absent, NoVote, r) /\ Entry(New, NoVote, r)
         /\ Entry([Absent EXCEPT !.status = "pending"], NoVote, r)
  BY DEF Entry, Typed, Follows, Locks, Taken, Absent, New, NoVote, DecisionType, Statuses

(* A step of one decision leaves the others and their votes as they are.    *)
LEMMA OneDecision ==
  ASSUME IInv, NEW d \in Refs, NEW dec2, NEW v2, Entry(dec2, v2, rule),
         decision' = [decision EXCEPT ![d] = dec2], vote' = [vote EXCEPT ![d] = v2],
         UNCHANGED <<rule, formal, present>>
  PROVE  /\ IInv'
         /\ \A e \in Refs : e # d => decision'[e] = decision[e] /\ vote'[e] = vote[e]
         /\ decision'[d] = dec2 /\ vote'[d] = v2
  BY DEF IInv, Entry, Typed

(* What an operation works on, of the model or of a person. *)
LEMMA FieldsSound ==
  ASSUME IInv, NEW d \in Refs, NEW who \in Speakers, NEW st \in StatusWords,
         NEW data \in Votes, NEW heard \in BOOLEAN, who = "ai" => st # "pending",
         Add(d, who, st, data, heard) \/ Update(d, who, st, data, heard)
  PROVE  \E dec \in {New, decision[d]} :
           /\ Sound(dec, vote[d], who, st, data, heard)
           /\ Fields(d, dec, who, st, data, heard)
           /\ ~Exists(d) => dec = New /\ vote[d] = NoVote
           /\ Exists(d) => dec = decision[d]
<1>1. CASE Add(d, who, st, data, heard)
  <2>1. vote[d] = NoVote /\ ~Exists(d)
    BY <1>1 DEF Add, Exists, IInv, Entry, Typed
  <2>2. New.status # "absent" /\ ~New.locked
    BY DEF New, Absent
  <2>3. Sound(New, vote[d], who, st, data, heard)
    BY <2>1, <2>2, AbsentEntry DEF Sound, Votes
  <2> QED
    BY <1>1, <2>1, <2>3 DEF Add
<1>2. CASE Update(d, who, st, data, heard)
  <2>1. Sound(decision[d], vote[d], who, st, data, heard)
    BY <1>2 DEF Update, Exists, MayChange, Sound, IInv, Votes, Speakers
  <2> QED
    BY <1>2, <2>1 DEF Update
<1> QED
  BY <1>1, <1>2

(* A step of IInv on the decisions, and what it keeps of a vote.            *)
CountKept(d) ==
  /\ vote[d].by = "person" /\ vote'[d].by # "person"
     => decision'[d] = Absent \/ (vote[d].method = "assent" /\ ~vote[d].rows)
  /\ TakenOnCount(d) /\ vote'[d].by = "ai" /\ Exceeds(vote'[d].tally, vote'[d].present)
     => decision[d].locked

LEMMA OperationKeeps ==
  ASSUME IInv, NEW d \in Refs, Tick(d) \/ Edit(d)
  PROVE  IInv' /\ \A e \in Refs : CountKept(e)
<1>1. PICK who \in Speakers, st \in StatusWords, data \in Votes, heard \in BOOLEAN :
        /\ who = "ai" => st # "pending"
        /\ Add(d, who, st, data, heard) \/ Update(d, who, st, data, heard)
  BY DEF Tick, Edit, Speakers, StatusWords, Statuses
<1>2. PICK dec \in {New, decision[d]} :
        /\ Sound(dec, vote[d], who, st, data, heard)
        /\ Fields(d, dec, who, st, data, heard)
        /\ ~Exists(d) => dec = New /\ vote[d] = NoVote
        /\ Exists(d) => dec = decision[d]
  BY <1>1, FieldsSound
<1> DEFINE v2 == VoteAfter(dec, vote[d], who, st, data, heard)
           dec2 == DecisionAfter(dec, v2, who, st, data, heard)
<1>3. present \in Turnouts /\ vote \in [Refs -> VoteType \cup {NoVote}]
  BY DEF IInv
<1>4. /\ Entry(dec2, v2, rule)
      /\ vote[d].by = "person" => v2.by = "person"
      /\ ~(dec2.status # dec.status /\ dec2.by \in {"count", "rules"} /\ Exceeds(v2.tally, v2.present))
      /\ dec2.status = dec.status => dec2.by = dec.by
  BY <1>2, <1>3, FieldsEntry, FieldsKeep, FieldsDecideNothing, DecisionAfterStatus
<1>5. vote' = [vote EXCEPT ![d] = v2] /\ vote'[d] = v2
  BY <1>2, <1>3 DEF Fields
<1> HIDE DEF v2
<1>6. decision' = [decision EXCEPT ![d] = dec2] /\ UNCHANGED <<rule, formal, present>>
  BY <1>2, <1>5 DEF Fields
<1> HIDE DEF dec2
<1>7. /\ IInv'
      /\ \A e \in Refs : e # d => decision'[e] = decision[e] /\ vote'[e] = vote[e]
      /\ decision'[d] = dec2 /\ vote'[d] = v2
  BY <1>4, <1>5, <1>6, OneDecision
<1>8. ASSUME TakenOnCount(d), vote'[d].by = "ai", Exceeds(vote'[d].tally, vote'[d].present)
      PROVE  FALSE
  <2>1. dec2.status = dec.status
    BY <1>4, <1>7, <1>8 DEF TakenOnCount
  <2>2. dec2.by = dec.by /\ dec2.by \in {"count", "rules"}
    BY <1>4, <1>7, <1>8, <2>1 DEF TakenOnCount
  <2>3. Exists(d)
    BY <1>2, <2>2 DEF New, Absent
  <2> QED
    BY <1>2, <1>7, <1>8, <2>1, <2>3 DEF TakenOnCount
<1>9. CountKept(d)
  BY <1>4, <1>7, <1>8 DEF CountKept
<1>10. \A e \in Refs : e # d => CountKept(e)
  BY <1>7 DEF CountKept, TakenOnCount
<1> QED
  BY <1>7, <1>9, <1>10

LEMMA RowKeeps ==
  ASSUME IInv, NEW d \in Refs, Confirm(d) \/ Remove(d) \/ Prefill(d) \/ Unfill(d) \/ PutVote(d)
  PROVE  IInv' /\ \A e \in Refs : CountKept(e)
<1> SUFFICES ASSUME NEW dec2, NEW v2, Entry(dec2, v2, rule),
                    decision' = [decision EXCEPT ![d] = dec2], vote' = [vote EXCEPT ![d] = v2],
                    UNCHANGED <<rule, formal, present>>,
                    vote[d].by = "person" /\ v2.by # "person" => dec2 = Absent,
                    dec2.status # decision[d].status => dec2.by \notin {"count", "rules"}
             PROVE  IInv' /\ \A e \in Refs : CountKept(e)
  <2>0. /\ Entry(decision[d], vote[d], rule)
        /\ decision \in [Refs -> DecisionType] /\ vote \in [Refs -> VoteType \cup {NoVote}]
    BY DEF IInv
  <2>1. vote = [vote EXCEPT ![d] = vote[d]]
    BY <2>0
  <2>2. CASE Confirm(d)
    <3> DEFINE dec2 == [decision[d] EXCEPT !.locked = TRUE, !.status = IF @ = "pending" THEN "proposed" ELSE @]
    <3>1. decision' = [decision EXCEPT ![d] = dec2]
      BY <2>0, <2>2 DEF Confirm
    <3>2. decision[d] \in DecisionType /\ decision[d].status # "absent"
      BY <2>0, <2>2 DEF Confirm, Exists
    <3>3. /\ dec2 \in DecisionType /\ dec2.locked /\ dec2.status # "absent" /\ dec2.by = decision[d].by
          /\ dec2.agreed = decision[d].agreed
          /\ dec2.status # decision[d].status => decision[d].status = "pending" /\ dec2.status = "proposed"
          /\ dec2.status # "pending"
      BY <3>2 DEF DecisionType, Statuses
    <3> HIDE DEF dec2
    <3>4. Entry(dec2, vote[d], rule)
      BY <2>0, <3>3 DEF Entry, Typed, Locks, Taken
    <3>5. dec2.status # decision[d].status => dec2.by \notin {"count", "rules"}
      BY <2>0, <3>3 DEF Entry, Taken
    <3> QED
      BY <2>1, <2>2, <3>1, <3>4, <3>5 DEF Confirm
  <2>3. CASE Remove(d) \/ Unfill(d)
    <3>1. Absent.by = "none"
      BY DEF Absent
    <3> QED
      BY <2>3, <3>1, AbsentEntry DEF Remove, Unfill, Delete
  <2>4. CASE Prefill(d)
    <3>1. vote[d] = NoVote
      BY <2>0, <2>4 DEF Entry, Typed, Prefill, Exists
    <3>2. [Absent EXCEPT !.status = "pending"].by = "none"
      BY DEF Absent
    <3> QED
      BY <2>1, <2>4, <3>1, <3>2, AbsentEntry DEF Prefill
  <2>5. CASE PutVote(d)
    <3>1. PICK data \in VoteData, says \in {"unsaid", "yes", "no"}, emptied \in BOOLEAN :
            /\ vote' = [vote EXCEPT ![d] = Corrected(d, data, says, emptied)]
            /\ decision' = [decision EXCEPT ![d] = CorrectedDecision(@, vote'[d], says)]
      BY <2>5 DEF PutVote
    <3> DEFINE v2 == Corrected(d, data, says, emptied)
               dec2 == CorrectedDecision(decision[d], v2, says)
    <3>2. /\ Entry(dec2, v2, rule)
          /\ vote[d].by = "person" => v2.by = "person"
          /\ dec2.status # decision[d].status => dec2.by = "person"
      BY <2>5, CorrectedEntry DEF PutVote
    <3> HIDE DEF v2
    <3>3. vote' = [vote EXCEPT ![d] = v2] /\ vote'[d] = v2
      BY <2>0, <3>1 DEF v2
    <3>4. decision' = [decision EXCEPT ![d] = dec2]
      BY <2>0, <3>1, <3>3
    <3> HIDE DEF dec2
    <3> QED
      BY <2>5, <3>2, <3>3, <3>4 DEF PutVote
  <2> QED
    BY <2>2, <2>3, <2>4, <2>5
<1>1. /\ IInv'
      /\ \A e \in Refs : e # d => decision'[e] = decision[e] /\ vote'[e] = vote[e]
      /\ decision'[d] = dec2 /\ vote'[d] = v2
  BY OneDecision
<1> QED
  BY <1>1 DEF CountKept, TakenOnCount

LEMMA StepKeeps ==
  ASSUME IInv, [Next]_vars
  PROVE  IInv' /\ \A d \in Refs : CountKept(d)
<1>1. ASSUME NEW d \in Refs, Tick(d) \/ Edit(d)
      PROVE  IInv' /\ \A e \in Refs : CountKept(e)
  BY <1>1, OperationKeeps
<1>2. ASSUME NEW d \in Refs, Confirm(d) \/ Remove(d) \/ Prefill(d) \/ Unfill(d) \/ PutVote(d)
      PROVE  IInv' /\ \A e \in Refs : CountKept(e)
  BY <1>2, RowKeeps
<1>3. CASE PutRules
  <2>1. \A d \in Refs : Entry(decision'[d], vote'[d], rule') /\ CountKept(d)
    BY <1>3, UnderRulesEntry DEF CountKept, TakenOnCount
  <2>2. /\ decision' = [d \in Refs |-> decision'[d]] /\ vote' = [d \in Refs |-> vote'[d]]
        /\ rule' \in Rules /\ formal' \in BOOLEAN /\ present' \in Turnouts
    BY <1>3 DEF PutRules, IInv
  <2>3. decision' \in [Refs -> DecisionType] /\ vote' \in [Refs -> VoteType \cup {NoVote}]
    BY <2>1, <2>2 DEF Entry, Typed
  <2> QED
    BY <2>1, <2>2, <2>3 DEF IInv
<1>4. CASE Attend
  BY <1>4 DEF Attend, IInv, CountKept, TakenOnCount, Entry, Typed
<1>5. CASE UNCHANGED vars
  BY <1>5 DEF vars, IInv, CountKept, TakenOnCount
<1> QED
  BY <1>1, <1>2, <1>3, <1>4, <1>5 DEF Next

LEMMA Invariant == Spec => []IInv
<1>1. Init => IInv
  BY AbsentEntry, DecisionsAssumption DEF Init, IInv, Entry, Typed
<1>2. IInv /\ [Next]_vars => IInv'
  BY StepKeeps
<1> QED
  BY <1>1, <1>2, PTL DEF Spec

-----------------------------------------------------------------------------
(* Types, and no vote without its decision (delete_decision). *)
THEOREM DecisionsTyped == Spec => []TypeOK
<1>1. IInv => TypeOK
  BY DEF IInv, TypeOK, Entry, Typed
<1> QED
  BY <1>1, Invariant, PTL

(* The gate of agreement.py holds of every way to an adoption.              *)
THEOREM AdoptedOnAgreementHolds == Spec => []AdoptedOnAgreement
<1>1. IInv => AdoptedOnAgreement
  BY DEF IInv, Entry, Taken, AdoptedOnAgreement
<1> QED
  BY <1>1, Invariant, PTL

(* put_rules leaves no vote with the result of the rules before.            *)
THEOREM ResultFollowsRuleHolds == Spec => []ResultFollowsRule
<1>1. IInv => ResultFollowsRule
  BY DEF IInv, Entry, Follows, ResultFollowsRule
<1> QED
  BY <1>1, Invariant, PTL

(* A person's count stands: it is locked, so that the model is kept away.   *)
THEOREM PersonsCountStandsHolds == Spec => PersonsCountStands
<1>1. IInv /\ [Next]_vars =>
        [\A d \in Refs :
           /\ vote[d].by = "person" /\ vote'[d].by # "person"
           => \/ decision'[d] = Absent
              \/ vote[d].method = "assent" /\ ~vote[d].rows]_vars
  BY StepKeeps DEF CountKept
<1> QED
  BY <1>1, Invariant, PTL DEF Spec, PersonsCountStands

(* An impossible count decides nothing, at once or when it is recounted.    *)
THEOREM ImpossibleDecidesNothingHolds == Spec => ImpossibleDecidesNothing
<1>1. IInv /\ [Next]_vars =>
        [\A d \in Refs :
           TakenOnCount(d) /\ vote'[d].by = "ai" /\ Exceeds(vote'[d].tally, vote'[d].present)
             => decision[d].locked]_vars
  BY StepKeeps DEF CountKept
<1> QED
  BY <1>1, Invariant, PTL DEF Spec, ImpossibleDecidesNothing
=============================================================================
