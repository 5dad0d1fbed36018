------------------------------- MODULE Background -------------------------------
(***************************************************************************)
(* What goes on in a room with nobody asking for it: the public channel is *)
(* kept up (Egress), the minutes get written (Compose) and what is said    *)
(* becomes the transcript (Transcription). The three share no state, so    *)
(* one instance checks them side by side: a behaviour is of the part that  *)
(* "part" names, and the variables s1 to s16 are that part's, in the order *)
(* its module declares them.                                               *)
(***************************************************************************)
EXTENDS Naturals, FiniteSets

CONSTANTS
  Callers, ChannelKinds, ChannelFaults,          \* of Egress
  Crashes,                                       \* of Compose
  N, MaxBatch, Outages, Losses,                  \* of Transcription
  Many, Few                                      \* their bounds

ASSUME BackgroundAssumption ==
  {Crashes, N, Outages, Losses, Many, Few} \subseteq Nat /\ MaxBatch \in Nat \ {0}

VARIABLES part, s1, s2, s3, s4, s5, s6, s7, s8, s9, s10, s11, s12, s13, s14, s15, s16

slots == <<s1, s2, s3, s4, s5, s6, s7, s8, s9, s10, s11, s12, s13, s14, s15, s16>>
vars == <<part, slots>>

Channel == INSTANCE Egress WITH
  Kinds <- ChannelKinds, Public <- TRUE, SlowHooks <- TRUE, Faults <- ChannelFaults,
  MaxRequests <- Many, MaxFaults <- Many,
  eg <- s1, hooks <- s2, pointer <- s3, running <- s4, layout <- s5, saved <- s6,
  playing <- s7, flags <- s8, syncs <- s9, call <- s10, requests <- s11, faults <- s12

Minutes == INSTANCE Compose WITH
  Drafts <- TRUE, MaxSaid <- Many, MaxMoves <- Many, MaxAsked <- Few, MaxEdits <- Few,
  session <- s1, section <- s2, said <- s3, closedAt <- s4, tier <- s5, minute <- s6,
  task <- s7, asked <- s8, job <- s9, left <- s10

Speech == INSTANCE Transcription WITH
  phase <- s1, prev <- s2, latest <- s3, routes <- s4, tried <- s5, worker <- s6, stored <- s7,
  queue <- s8, flight <- s9, final <- s10, rows <- s11, text <- s12, passed <- s13,
  left <- s14

(* The slots a part does not use.                                           *)
Few14 == <<s15, s16>>
Few12 == <<s13, s14, s15, s16>>
Few10 == <<s11, s12, s13, s14, s15, s16>>

Init ==
  \/ part = "channel" /\ Channel!Init /\ s13 = 0 /\ s14 = 0 /\ s15 = 0 /\ s16 = 0
  \/ part = "minutes" /\ Minutes!Init
     /\ s11 = 0 /\ s12 = 0 /\ s13 = 0 /\ s14 = 0 /\ s15 = 0 /\ s16 = 0
  \/ part = "speech" /\ Speech!Init /\ s15 = 0 /\ s16 = 0

Next ==
  \/ part = "channel" /\ Channel!Next /\ UNCHANGED <<part, Few12>>
  \/ part = "minutes" /\ Minutes!Next /\ UNCHANGED <<part, Few10>>
  \/ part = "speech" /\ Speech!Next /\ UNCHANGED <<part, Few14>>

(* The fairness of each part, as its module states and justifies it.        *)
ChannelFairness ==
  /\ \A c \in Callers : WF_vars(part = "channel" /\ Channel!Proceeds(c) /\ UNCHANGED <<part, Few12>>)
  /\ WF_vars(part = "channel" /\ (\E c \in Callers : Channel!Watchdog(c)) /\ UNCHANGED <<part, s12, Few12>>)
  /\ WF_vars(part = "channel" /\ (\E e \in Channel!Ids : Channel!EgressEnded(e) \/ Channel!Stopped(e))
             /\ UNCHANGED <<part, Few12>>)
  /\ WF_vars(part = "channel" /\ (\E e \in Channel!Ids : Channel!Reap(e)) /\ UNCHANGED <<part, Few12>>)
  /\ WF_vars(part = "channel" /\ (\E e \in {0} \cup Channel!Ids : Channel!SyncFlags(e)) /\ UNCHANGED <<part, Few12>>)

MinutesFairness ==
  /\ \A a \in Minutes!Askers :
       WF_vars(part = "minutes" /\ Minutes!Start(a) /\ UNCHANGED <<part, Few10>>)
  /\ WF_vars(part = "minutes" /\ (Minutes!Begin \/ Minutes!ReadTranscript \/ Minutes!Store \/ Minutes!Finish)
             /\ UNCHANGED <<part, Few10>>)
  /\ WF_vars(part = "minutes" /\ Minutes!ComposeJob /\ UNCHANGED <<part, Few10>>)
  /\ WF_vars(part = "minutes" /\ Minutes!JobComposes /\ UNCHANGED <<part, Few10>>)
  /\ WF_vars(part = "minutes" /\ Minutes!Review /\ UNCHANGED <<part, Few10>>)

SpeechFairness ==
  /\ \A u \in 1..N : WF_vars(part = "speech" /\ Speech!Progress(u) /\ UNCHANGED <<part, Few14>>)
                  /\ WF_vars(part = "speech" /\ Speech!PassOver(u) /\ UNCHANGED <<part, Few14>>)
  /\ WF_vars(part = "speech" /\ Speech!StartPass /\ UNCHANGED <<part, Few14>>)
  /\ WF_vars(part = "speech" /\ Speech!Verdict /\ UNCHANGED <<part, Few14>>)
  /\ WF_vars(part = "speech" /\ Speech!Send /\ UNCHANGED <<part, Few14>>)
  /\ WF_vars(part = "speech" /\ Speech!Arrive /\ UNCHANGED <<part, Few14>>)
  /\ WF_vars(part = "speech" /\ Speech!Acknowledge /\ UNCHANGED <<part, Few14>>)

FairSpec == Init /\ [][Next]_vars /\ ChannelFairness /\ MinutesFairness
            /\ SpeechFairness

-----------------------------------------------------------------------------
TypeOK ==
  /\ part = "channel" => Channel!TypeOK
  /\ part = "minutes" => Minutes!TypeOK
  /\ part = "speech" => Speech!TypeOK

(* The watchdog "starts a genuinely new egress" (scheduler.py): whatever    *)
(* ends, dies or fails to start, in the end the public channel streams and  *)
(* keeps on; and "no egress may run untracked"                              *)
(* (tests/test_egress_orphans.py): what a crash or a lost answer left       *)
(* running is stopped.                                                      *)
ChannelKept ==
  /\ <>[](part = "channel" => Channel!Streams)
  /\ []<>(part = "channel" => \A e \in Channel!Ids : ~Channel!Orphan(e))

(* A composition is never left behind (see Compose), and "edited by a       *)
(* person while composing: the edit wins" (compose.py _store).              *)
MinutesKept ==
  /\ [](part = "minutes" => Minutes!NothingLeftOpen)
  /\ [][part = "minutes" => Minutes!EditGivesWay]_vars

(* The order of speaking is kept, nothing comes after the verdict of the    *)
(* final pass, and the final text of an utterance stands (Transcription).   *)
SpeechKept ==
  /\ [](part = "speech" => Speech!SpeechKept)
  /\ [][part = "speech" => \A u \in 1..N : s12[u] = "final" => s12'[u] = "final"]_vars

(* The verdict of a final pass that was asked for reaches meeting-api, or   *)
(* was given up with the queue (Transcription).                             *)
VerdictComes ==
  []<>(part = "speech" /\ s10.at # "off" => s10.at = "ended" /\ s8 = <<>>)

(* The compose job ends and the session comes to its review (Compose).      *)
ReachesReview == []<>(part = "minutes" /\ ~Minutes!Active => s1 = "review")
=============================================================================
