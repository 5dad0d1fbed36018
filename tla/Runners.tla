-------------------------------- MODULE Runners --------------------------------
(***************************************************************************)
(* Two tasks that run on their own once something has started them, and    *)
(* share no state: the finalisation of a session (Finalisation, which this *)
(* module extends) and the playlist of a room (Playback). A behaviour is   *)
(* of the part that "part" names: the variables s1 to s11 are the          *)
(* playlist's, in the order its module declares them.                      *)
(***************************************************************************)
EXTENDS Finalisation

CONSTANTS Items, Long, Ids, HookTasks, Faults   \* of Playback

VARIABLES part, s1, s2, s3, s4, s5, s6, s7, s8, s9, s10, s11

slots == <<s1, s2, s3, s4, s5, s6, s7, s8, s9, s10, s11>>
all == <<part, slots, vars>>

Playlist == INSTANCE Playback WITH
  Persistent <- FALSE, MaxSessions <- 2, MaxRequests <- 1, MaxFaults <- 1,
  row <- s1, active <- s2, loop <- s3, pos <- s4, upload <- s5, ingress <- s6, frozen <- s7,
  hooks <- s8, task <- s9, requests <- s10, faults <- s11

RunnersInit ==
  /\ Init
  /\ \/ /\ part = "finalisation"
        /\ s1 = 0 /\ s2 = 0 /\ s3 = 0 /\ s4 = 0 /\ s5 = 0 /\ s6 = 0 /\ s7 = 0 /\ s8 = 0
        /\ s9 = 0 /\ s10 = 0 /\ s11 = 0
     \/ part = "playlist" /\ Playlist!Init

RunnersNext ==
  \/ part = "finalisation" /\ Next /\ UNCHANGED <<part, slots>>
  \/ part = "playlist" /\ Playlist!Next /\ UNCHANGED <<part, vars>>

(* The fairness of each part, as its module states and justifies it.        *)
Kept == part = "finalisation" /\ UNCHANGED <<part, slots>>

FinalisationFairness ==
  /\ WF_all(Kept /\ Acquire) /\ WF_all(Kept /\ Expire) /\ WF_all(Kept /\ StartTask)
  /\ WF_all(Kept /\ LeaveLoop) /\ WF_all(Kept /\ Release)
  /\ \A t \in Tasks : WF_all(Kept /\ TaskStep(t))

PlaylistFairness ==
  /\ \A t \in {"request", "watchdog"} \cup HookTasks :
       WF_all(part = "playlist" /\ Playlist!Proceeds(t) /\ UNCHANGED <<part, vars>>)
  /\ WF_all(part = "playlist" /\ Playlist!Delivers /\ UNCHANGED <<part, s11, vars>>)
  /\ SF_all(part = "playlist" /\ Playlist!Watch /\ UNCHANGED <<part, vars>>)
  /\ \A e \in Ids :
       WF_all(part = "playlist" /\ Playlist!Ends(e) /\ UNCHANGED <<part, s11, vars>>)

RunnersSpec == RunnersInit /\ [][RunnersNext]_all /\ FinalisationFairness /\ PlaylistFairness

-----------------------------------------------------------------------------
(* "Without this, the playlist stalls silently on the dead ingress"         *)
(* (scheduler.py): whatever fails, dies or is told twice, a playlist that   *)
(* loops and is neither stopped nor paused comes to each of its items again *)
(* (Playback).                                                              *)
EveryItemComes == \A i \in Items : []<>(part = "playlist" => Playlist!ComesOrStops(i))

(* "A CLOSED meeting must never keep playback alive" (playback_mgr.py):     *)
(* once it is closed, whatever was on its way, nothing plays in the end     *)
(* (Playback).                                                              *)
ClosedStaysSilent == <>[](part = "playlist" => Playlist!PlaysOnlyWhileOpen)
=============================================================================
