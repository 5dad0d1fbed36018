-------------------------------- MODULE Services --------------------------------
(***************************************************************************)
(* The services of the application that share no state with each other,    *)
(* checked side by side in one instance: recordings and streams (Egress),  *)
(* the sittings Mail prepares (MailSync); payments and vouchers (Billing); *)
(* the stage (Stage); who is in a room (Rooms); an account (Accounts);     *)
(* limits and block lists (Defence); a meeting's broadcasts on YouTube     *)
(* (YouTube); a finished recording (Shelf); who attended a session         *)
(* (Attendance); the agent in the room (Scribe); publishing a session      *)
(* (Outputs); follow-up actions (Actions); what people write to each other *)
(* (Talk); the capture of a microphone (Capture); the speech service       *)
(* (Speech); the gateway to the language model (Gateway); where a stream   *)
(* goes to (Destinations); the video behind the entries of the playlist    *)
(* (Library); when the AI moves to the next point (Advance); the agent's   *)
(* own decoder (Decoder) and the decisions of a session (Decisions, which  *)
(* this module extends). A behaviour is of the part that "part" names: the *)
(* variables s1 to s16 are that part's, in the order its module declares   *)
(* them, and those it does not use stay 0.                                 *)
(***************************************************************************)
EXTENDS MCDecisions, Slots, TLC

Symmetry == Permutations(Callers) \cup Permutations(Copies)

all == <<part, slots, vars>>

OnStage == INSTANCE Stage WITH
  Streams <- Shares, MaxMoves <- Many, MaxFaults <- Least,
  md <- s1, patches <- s2, holding <- s3, live <- s4, running <- s5, base <- s6, wrote <- s7,
  moves <- s8, late <- s9, faults <- s10

Defend == INSTANCE Defence WITH
  Limit <- Few, Window <- Few, Threshold <- Few, Cap <- Some, Block <- Few, Admins <- Callers,
  MaxNow <- Some, MaxRequests <- Some, MaxChanges <- Few, MaxFaults <- Least,
  now <- s1, zset <- s2, stamp <- s3, accepted <- s4, slow <- s5, ring <- s6, blockedTo <- s7,
  listed <- s8, cached <- s9, reload <- s10, crossed <- s11, hits <- s12, requests <- s13,
  changes <- s14, faults <- s15

Attends == INSTANCE Attendance WITH
  MaxJoins <- Some, MaxQueue <- Few, MaxRequests <- Few, MaxFaults <- Least,
  ours <- s1, status <- s2, roster <- s3, rows <- s4, consents <- s5, room <- s6, agent <- s7,
  posts <- s8, asking <- s9, blind <- s10, counts <- s11

Mic == INSTANCE Capture WITH
  StartFrames <- Few, RunMax <- Some, EndFrames <- Few, MinSpeech <- Some, PreRoll <- Least,
  PostRoll <- Least, MaxFrames <- Most, CutSearch <- Few, Chunk <- Few, MaxHeard <- 8,
  MaxChanges <- Some, MaxFaults <- Least,
  heard <- s1, run <- s2, waiting <- s3, seg <- s4, paused <- s5, due <- s6, kept <- s7,
  short <- s8, dropped <- s9, faulty <- s10, changes <- s11, faults <- s12

Service == INSTANCE Speech WITH
  Parallel <- Least, QueueMax <- Least, TextQueue <- Least, Pause <- Least, RetryAfter <- Least,
  MaxBusy <- Least, MaxNow <- Few, MaxFaults <- Least,
  now <- s1, ask <- s2, transit <- s3, seen <- s4, decoding <- s5, gate <- s6, clash <- s7,
  faults <- s8

Model == INSTANCE Gateway WITH
  Rooms <- Callers, Threshold <- Few, Window <- Some, OpenFor <- Few, MaxRetries <- Least,
  MaxNow <- Most, MaxTries <- Most,
  now <- s1, brk <- s2, failing <- s3, call <- s4, told <- s5, since <- s6, tries <- s7

Moves == INSTANCE Advance WITH
  Last <- Some, Agenda <- {2, 3}, Window <- Some, Hits <- Few, Silent <- Some, HintFor <- Least,
  MaxTicks <- Many,
  live <- s1, topic <- s2, candidate <- s3, hint <- s4, hist <- s5, run <- s6, discussed <- s7,
  past <- s8, cued <- s9, ticks <- s10

Queue == INSTANCE Decoder WITH
  Sessions <- Callers, MaxItems <- Some, Degrade <- Least, Recover <- Least, DropAbove <- Few,
  MaxNow <- Some,
  now <- s1, load <- s2, queue <- s3, inflight <- s4, owes <- s5, degraded <- s6, told <- s7,
  away <- s8, outstanding <- s9, open <- s10, verdicts <- s11, taken <- s12

-----------------------------------------------------------------------------
Still == Init /\ rule = "ordinary" /\ ~formal

ServicesInit ==
  \/ part = "decisions" /\ Init
     /\ s1 = 0 /\ s2 = 0 /\ s3 = 0 /\ s4 = 0 /\ s5 = 0 /\ s6 = 0 /\ s7 = 0 /\ s8 = 0
     /\ s9 = 0 /\ s10 = 0 /\ s11 = 0 /\ s12 = 0 /\ s13 = 0 /\ s14 = 0 /\ s15 = 0 /\ s16 = 0
  \/ part = "egress" /\ Still /\ Recorder!Init
     /\ s13 = 0 /\ s14 = 0 /\ s15 = 0 /\ s16 = 0
  \/ part = "mail" /\ Still /\ Mail!Init
     /\ s8 = 0 /\ s9 = 0 /\ s10 = 0 /\ s11 = 0 /\ s12 = 0 /\ s13 = 0 /\ s14 = 0 /\ s15 = 0
     /\ s16 = 0
  \/ part = "billing" /\ Still /\ Bill!Init
     /\ s13 = 0 /\ s14 = 0 /\ s15 = 0 /\ s16 = 0
  \/ part = "stage" /\ Still /\ OnStage!Init
     /\ s11 = 0 /\ s12 = 0 /\ s13 = 0 /\ s14 = 0 /\ s15 = 0 /\ s16 = 0
  \/ part = "rooms" /\ Still /\ Room!Init
  \/ part = "accounts" /\ Still /\ Account!Init
     /\ s9 = 0 /\ s10 = 0 /\ s11 = 0 /\ s12 = 0 /\ s13 = 0 /\ s14 = 0 /\ s15 = 0 /\ s16 = 0
  \/ part = "defence" /\ Still /\ Defend!Init
     /\ s16 = 0
  \/ part = "youtube" /\ Still /\ Tube!Init
     /\ s8 = 0 /\ s9 = 0 /\ s10 = 0 /\ s11 = 0 /\ s12 = 0 /\ s13 = 0 /\ s14 = 0 /\ s15 = 0
     /\ s16 = 0
  \/ part = "shelf" /\ Still /\ Kept!Init
     /\ s11 = 0 /\ s12 = 0 /\ s13 = 0 /\ s14 = 0 /\ s15 = 0 /\ s16 = 0
  \/ part = "attendance" /\ Still /\ Attends!Init
     /\ s12 = 0 /\ s13 = 0 /\ s14 = 0 /\ s15 = 0 /\ s16 = 0
  \/ part = "scribe" /\ Still /\ Agent!Init
     /\ s8 = 0 /\ s9 = 0 /\ s10 = 0 /\ s11 = 0 /\ s12 = 0 /\ s13 = 0 /\ s14 = 0 /\ s15 = 0
     /\ s16 = 0
  \/ part = "outputs" /\ Still /\ Out!Init
     /\ s15 = 0 /\ s16 = 0
  \/ part = "actions" /\ Still /\ Follow!Init
     /\ s13 = 0 /\ s14 = 0 /\ s15 = 0 /\ s16 = 0
  \/ part = "talk" /\ Still /\ Chats!Init
     /\ s14 = 0 /\ s15 = 0 /\ s16 = 0
  \/ part = "mic" /\ Still /\ Mic!Init
     /\ s13 = 0 /\ s14 = 0 /\ s15 = 0 /\ s16 = 0
  \/ part = "service" /\ Still /\ Service!Init
     /\ s9 = 0 /\ s10 = 0 /\ s11 = 0 /\ s12 = 0 /\ s13 = 0 /\ s14 = 0 /\ s15 = 0 /\ s16 = 0
  \/ part = "model" /\ Still /\ Model!Init
     /\ s8 = 0 /\ s9 = 0 /\ s10 = 0 /\ s11 = 0 /\ s12 = 0 /\ s13 = 0 /\ s14 = 0 /\ s15 = 0
     /\ s16 = 0
  \/ part = "destinations" /\ Still /\ Targets!Init
     /\ s12 = 0 /\ s13 = 0 /\ s14 = 0 /\ s15 = 0 /\ s16 = 0
  \/ part = "library" /\ Still /\ Videos!Init
     /\ s10 = 0 /\ s11 = 0 /\ s12 = 0 /\ s13 = 0 /\ s14 = 0 /\ s15 = 0 /\ s16 = 0
  \/ part = "advance" /\ Still /\ Moves!Init
     /\ s11 = 0 /\ s12 = 0 /\ s13 = 0 /\ s14 = 0 /\ s15 = 0 /\ s16 = 0
  \/ part = "decoder" /\ Still /\ Queue!Init
     /\ s13 = 0 /\ s14 = 0 /\ s15 = 0 /\ s16 = 0

ServicesNext ==
  \/ part = "decisions" /\ Next /\ UNCHANGED <<part, slots>>
  \/ part = "egress" /\ Recorder!Next /\ UNCHANGED <<part, s13, s14, s15, s16, vars>>
  \/ part = "mail" /\ Mail!Next
     /\ UNCHANGED <<part, s8, s9, s10, s11, s12, s13, s14, s15, s16, vars>>
  \/ part = "billing" /\ Bill!Next /\ UNCHANGED <<part, s13, s14, s15, s16, vars>>
  \/ part = "stage" /\ OnStage!Next /\ UNCHANGED <<part, s11, s12, s13, s14, s15, s16, vars>>
  \/ part = "rooms" /\ Room!Next /\ UNCHANGED <<part, vars>>
  \/ part = "accounts" /\ Account!Next
     /\ UNCHANGED <<part, s9, s10, s11, s12, s13, s14, s15, s16, vars>>
  \/ part = "defence" /\ Defend!Next /\ UNCHANGED <<part, s16, vars>>
  \/ part = "youtube" /\ Tube!Next
     /\ UNCHANGED <<part, s8, s9, s10, s11, s12, s13, s14, s15, s16, vars>>
  \/ part = "shelf" /\ Kept!Next /\ UNCHANGED <<part, s11, s12, s13, s14, s15, s16, vars>>
  \/ part = "attendance" /\ Attends!Next /\ UNCHANGED <<part, s12, s13, s14, s15, s16, vars>>
  \/ part = "scribe" /\ Agent!Next
     /\ UNCHANGED <<part, s8, s9, s10, s11, s12, s13, s14, s15, s16, vars>>
  \/ part = "outputs" /\ Out!Next /\ UNCHANGED <<part, s15, s16, vars>>
  \/ part = "actions" /\ Follow!Next /\ UNCHANGED <<part, s13, s14, s15, s16, vars>>
  \/ part = "talk" /\ Chats!Next /\ UNCHANGED <<part, s14, s15, s16, vars>>
  \/ part = "mic" /\ Mic!Next /\ UNCHANGED <<part, s13, s14, s15, s16, vars>>
  \/ part = "service" /\ Service!Next
     /\ UNCHANGED <<part, s9, s10, s11, s12, s13, s14, s15, s16, vars>>
  \/ part = "model" /\ Model!Next
     /\ UNCHANGED <<part, s8, s9, s10, s11, s12, s13, s14, s15, s16, vars>>
  \/ part = "destinations" /\ Targets!Next /\ UNCHANGED <<part, s12, s13, s14, s15, s16, vars>>
  \/ part = "library" /\ Videos!Next /\ UNCHANGED <<part, s10, s11, s12, s13, s14, s15, s16, vars>>
  \/ part = "advance" /\ Moves!Next /\ UNCHANGED <<part, s11, s12, s13, s14, s15, s16, vars>>
  \/ part = "decoder" /\ Queue!Next /\ UNCHANGED <<part, s13, s14, s15, s16, vars>>

ServicesSpec == ServicesInit /\ [][ServicesNext]_all

-----------------------------------------------------------------------------
(* "The fix is to never run more than one egress per meeting"               *)
(* (egress_mgr.py): two transitions never leave two of them on the host     *)
(* (Egress).                                                                *)
(* When nothing is under way, the room metadata says what runs.             *)
(* A livestream goes where the settings say, and its destinations are shown *)
(* as streaming no longer than that (Destinations).                         *)
RecorderKnown ==
  /\ part = "egress" => Recorder!OneEgress /\ Recorder!FlagsFollow
  /\ part = "destinations" => Targets!DestinationsFollow

(* "one live session per room" (external.py): whatever Mail pushes and the  *)
(* room starts, ends or aborts, at most one sitting is being prepared, held *)
(* or finalised; and what a sitting said of an action, and decided, stands  *)
(* until that sitting is published, whatever Mail pushes for another        *)
(* (MailSync).                                                              *)
SittingsStand ==
  [][part = "mail" => Mail!PushLeavesOutcome /\ Mail!OneLiveSitting']_all

(* A captured order or a redeemed voucher extends the entitlement once, and *)
(* one that was not extends nothing (Billing).                              *)
CountsOnce == part = "billing" => Bill!CountsOnce

(* No writer's change of the room metadata is lost, and the stage is given  *)
(* to streams that run and back when they end (Stage).                      *)
StageHolds == part = "stage" => OnStage!NothingLost /\ OnStage!StageGivenBack

(* The participant rows, and the Cafe's list, say who is in the room, once  *)
(* the webhooks have been handled; never two open rows of one identity      *)
(* (Rooms).                                                                 *)
RoomKnown == part = "rooms" => Room!RowsFollowRoom /\ Room!CafeListsRoom

(* Requests one after the other never leave an account with a second        *)
(* factor whose secret its owner does not have, whatever answers are lost;  *)
(* with every answer delivered the recovery codes are the owner's, however  *)
(* requests overlap (Accounts).                                             *)
NotShutOut == part = "accounts" => Account!NotShutOut

(* No window holds more accepted requests than the limit, and the copy of   *)
(* the block list in memory is what the administrators made of it (Defence). *)
AddressesLimited == part = "defence" => Defend!LimitHolds /\ Defend!ListApplied

(* A broadcast the application opened is completed, or named by the row, or *)
(* given up for a stated reason, once nothing is under way (YouTube).       *)
BroadcastsEnd == part = "youtube" => Tube!BroadcastsEnd

(* A finished recording is on the disk, on YouTube, or was deleted, expired *)
(* or evicted (Shelf).                                                      *)
(* A video's links have its file and its length, its readers have the bytes *)
(* they asked for, and what the public list names can be played (Library).  *)
SomewhereOrDeleted ==
  /\ part = "shelf" => Kept!SomewhereOrDeleted
  /\ part = "library" => Videos!LibraryKept

(* A person is one attendee, whose consent is theirs, and who is online     *)
(* when the agent has told that they are in the room (Attendance).          *)
AttendanceKnown == part = "attendance" => Attends!AttendanceKnown

(* "a ghost hidden participant" (session.py): every connection to the room  *)
(* is left by the one who made it or waits for it, the room is empty when   *)
(* the session is over and no request was lost, and an agent that ended     *)
(* said "offline" last (Scribe).                                            *)
ScribeLeaves == part = "scribe" => Agent!ScribeLeaves

(* "one new meeting, created on the first publish and reused on             *)
(* re-publishing" (invites.py); every version up to the session's is listed *)
(* and has its report; what was to be deleted is, and the transcript is     *)
(* there until the minutes are written (Outputs).                           *)
OutputsWhole == part = "outputs" => Out!OutputsWhole

(* "Human changes (locked) are kept" (compose.py); what the AI closed is    *)
(* confirmed, reports give the status of their action, and no action is     *)
(* listed twice, whatever the checks of the finalisation read before        *)
(* (Actions).                                                               *)
ActionsKept == part = "actions" => Follow!ActionsKept

(* A closed poll stands, a cleared whiteboard takes strokes, a press on a   *)
(* question's arrow counts, and a message's picture is there (Talk).        *)
TalkKept == part = "talk" => Chats!TalkKept

(* "keep the speech we already have" (consumer.py): speech the segmenter    *)
(* has opened an utterance for is transcribed, once, whatever cuts, fails,  *)
(* pauses or ends the capture, unless the consent was taken back (Capture); *)
(* and what is queued for the agent's own decoder is decoded or told to be  *)
(* dropped, once (Decoder).                                                 *)
CaptureKept ==
  /\ part = "mic" => Mic!CaptureKept
  /\ part = "decoder" => Queue!SpeechDecoded

(* The speech service's slots are passed on and no retry is taken for a     *)
(* replay (Speech); the gateway refuses a call in the time after too many   *)
(* failures, and only then (Gateway).  The AI follows the talk to another   *)
(* point when the last ticks say so, whatever was before the last move      *)
(* (Advance).                                                               *)
ModelsServe ==
  /\ part = "service" => Service!SpeechServed
  /\ part = "model" => Model!RefusesInTime
  /\ part = "advance" => Moves!MovesAsHeard
=============================================================================
